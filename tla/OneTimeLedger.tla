------------------------------ MODULE OneTimeLedger ------------------------------
(***************************************************************************)
(* What a gate with a durable replay store promises about one-time use:    *)
(* a grant is spent at most once while it is alive.  A grant is an         *)
(* identifier with the instant its authority ends.  A second use of the    *)
(* same identifier is possible only once the clock has passed that         *)
(* instant, when the store may have forgotten the first.                   *)
(***************************************************************************)
EXTENDS Naturals, Sequences

CONSTANT Grants          \* records [id, expires]

VARIABLES clock,         \* the instant
          spent          \* the grants used, in the order of their use

ledgerVars == <<clock, spent>>

LedgerInit == clock \in Nat /\ spent = <<>>

Spend(g) ==
    /\ \A i \in DOMAIN spent : spent[i].id = g.id => clock > g.expires
    /\ spent' = Append(spent, g)
    /\ UNCHANGED clock

Advance == clock' > clock /\ UNCHANGED spent

LedgerNext == Advance \/ \E g \in Grants : Spend(g)

LedgerSpec == LedgerInit /\ [][LedgerNext]_ledgerVars
=============================================================================
