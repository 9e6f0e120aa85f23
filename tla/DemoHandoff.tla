----------------------------- MODULE DemoHandoff -----------------------------
(***************************************************************************)
(* What becomes of the portal's copy of a local booking when the booking   *)
(* flow hands over the local status: the status the copy takes, which is   *)
(* its present one when the call changes nothing, or "refused" when it     *)
(* throws.  A booking the portal does not know yet has no present status.  *)
(***************************************************************************)
CONSTANT None     \* no record, no value

SyncedStatus(present, paid) ==
  CASE present = "cancelled" -> "refused"
    [] present = "confirmed" /\ ~paid -> present
    [] OTHER -> IF paid THEN "confirmed" ELSE "pending_payment"
=============================================================================
