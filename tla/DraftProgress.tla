--------------------------- MODULE DraftProgress ---------------------------
(***************************************************************************)
(* What the questionnaire promises about progress, with no files, phases or *)
(* answers: an operator moves one screen at a time; what is kept is always  *)
(* the place where the operator was; and the questionnaire is only ever     *)
(* opened at the beginning or at the place that was kept.                   *)
(***************************************************************************)
EXTENDS Integers

CONSTANT Length             \* the number of screens

VARIABLES at, kept

Nowhere == -1               \* no questionnaire is open, or nothing is kept
Places == 0..Length

PInit == at = Nowhere /\ kept = Nowhere

\* The questionnaire is opened, from the start or where it was left.
Open ==
    /\ at = Nowhere
    /\ at' = 0 \/ (kept # Nowhere /\ at' = kept)
    /\ kept' = kept

\* One screen forward or back.
Move ==
    /\ at # Nowhere /\ at' \in Places
    /\ at' = at + 1 \/ at' = at - 1
    /\ kept' = kept

\* The place is kept, and the operator stays or leaves.
Keep == at # Nowhere /\ kept' = at /\ at' \in {at, Nowhere}

\* What was kept is given up, by a save that is cut short or by finishing.
Drop == at # Nowhere /\ kept' = Nowhere /\ at' \in {at, Nowhere}

\* The questionnaire is closed.
Leave == at # Nowhere /\ at' = Nowhere /\ kept' = kept

PNext == Open \/ Move \/ Keep \/ Drop \/ Leave

PSpec == PInit /\ [][PNext]_<<at, kept>>
=============================================================================
