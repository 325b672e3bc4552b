----------------------------- MODULE OneShotCommands -----------------------------
(***************************************************************************)
(* What a device promises of the commands it carries out: each is consumed *)
(* at most once, and moves the actuator at most once, after that.          *)
(***************************************************************************)
EXTENDS Naturals, Sequences

CONSTANT Commands

VARIABLES consumed,    \* the commands consumed
          acted        \* the commands that moved the actuator, in order

oneShotVars == <<consumed, acted>>

OneShotInit == consumed = {} /\ acted = <<>>

Consume(c) ==
    /\ c \notin consumed
    /\ consumed' = consumed \cup {c}
    /\ UNCHANGED acted

Act(c) ==
    /\ c \in consumed
    /\ \A i \in DOMAIN acted : acted[i] # c
    /\ acted' = Append(acted, c)
    /\ UNCHANGED consumed

OneShotNext == \E c \in Commands : Consume(c) \/ Act(c)

OneShotSpec == OneShotInit /\ [][OneShotNext]_oneShotVars
=============================================================================
