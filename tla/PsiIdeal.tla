------------------------------ MODULE PsiIdeal ------------------------------
(***************************************************************************)
(* What ProtocolParty::run promises: in every iteration the Receiver       *)
(* encodes some of its keys in a dictionary and then reports, once, a      *)
(* number of matches that counts at least the encoded ones.                *)
(***************************************************************************)
EXTENDS Integers, FiniteSets

CONSTANTS Keys, times

VARIABLES stage, round, encoded, count

idealVars == <<stage, round, encoded, count>>

Init ==
    /\ stage = "idle"
    /\ round = 0
    /\ encoded = {}
    /\ count = -1

Prepare ==
    /\ stage = "idle"
    /\ round < times
    /\ stage' = "running"
    /\ encoded' \in SUBSET Keys
    /\ UNCHANGED <<round, count>>

Report ==
    /\ stage = "running"
    /\ stage' = "idle"
    /\ round' = round + 1
    /\ count' \in Cardinality(encoded) .. Cardinality(Keys)
    /\ encoded' = {}

Spec == Init /\ [][Prepare \/ Report]_idealVars
=============================================================================
