------------------------------ MODULE SlotUsage ------------------------------
(***************************************************************************)
(* The disk part of resource_usage_ as the double it is                    *)
(* (src/worker/worker_disk.h, worker_abstract.h; the network part is the   *)
(* same code).  A slot, a tenth of the bandwidth, is added when a task     *)
(* starts and subtracted when it finishes, and each result is rounded, so  *)
(* what is left depends on the order.                                      *)
(*                                                                         *)
(* The unit is the last bit of the slot.  With n tasks running the usage   *)
(* is n times the slot plus error; a double near n times the slot is a     *)
(* multiple of Spacing[n].                                                 *)
(***************************************************************************)
EXTENDS Integers

CONSTANTS
  MaxTasks,  \* maximum_disk_task_number_
  SlotBits,  \* the slot modulo 16
  Spacing    \* of the doubles near 1, 2, ... slots: 1, 2, 4 or 8

VARIABLES
  current,   \* current_disk_task_number_
  error      \* the usage less what current slots are

slotVars == <<current, error>>

(* n slots plus e, rounded to the nearest multiple of the spacing, and to  *)
(* the even one of two.  The doubles near zero are dense.                  *)
Rounded(n, e) ==
  IF n = 0 THEN e
  ELSE LET bits  == (n * SlotBits + e) % 16
           rest  == bits % Spacing[n]
           below == e - rest
           even  == ((bits - rest) \div Spacing[n]) % 2 = 0
       IN  IF 2 * rest < Spacing[n] \/ (2 * rest = Spacing[n] /\ even)
           THEN below
           ELSE below + Spacing[n]

SlotInit == current = 0 /\ error = 0

(* IncreaseDiskUsage in PlaceNewTask.                                      *)
Start ==
  /\ current + 1 <= MaxTasks
  /\ current' = current + 1
  /\ error' = Rounded(current + 1, error)

(* DecreaseDiskUsage in TaskFinish.                                        *)
Stop ==
  /\ current > 0
  /\ current' = current - 1
  /\ error' = Rounded(current - 1, error)

(* TaskFinish with a task waiting, which all slots being taken allows.     *)
Replace ==
  /\ current = MaxTasks
  /\ error' = Rounded(current, Rounded(current - 1, error))
  /\ UNCHANGED current

SlotNext == Start \/ Stop \/ Replace

SlotSpec == SlotInit /\ [][SlotNext]_slotVars

-----------------------------------------------------------------------------
(* The CHECK of GenerateUtilizationRecord at the end of every handler:     *)
(* "resource usage cannot be lower than 0".  An error is far smaller than  *)
(* a slot.                                                                 *)
UsageNotNegative == current = 0 => error >= 0

=============================================================================
