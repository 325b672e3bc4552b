---------------------------- MODULE MC_PaperBarrier ----------------------------
(***************************************************************************)
(* One barrier, counters that saturate at two, and capabilities that end   *)
(* at the same instant, so that they are interchangeable.                  *)
(***************************************************************************)
EXTENDS PaperBarrier, TLC

MCExpires == [c \in Capabilities |-> 1]

AnyCapability == Permutations(Capabilities)
=============================================================================
