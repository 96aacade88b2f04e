----------------------------- MODULE MCSlotUsage -----------------------------
(***************************************************************************)
(* SlotUsage with a bandwidth of 3: the slot is the double nearest to 0.3, *)
(* 5404319552844595 / 2^54.                                                *)
(***************************************************************************)
EXTENDS SlotUsage

MCSpacing == <<1, 2, 2, 4, 4, 4, 8, 8, 8, 8>>

=============================================================================
