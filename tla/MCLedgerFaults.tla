--------------------------- MODULE MCLedgerFaults ---------------------------
(***************************************************************************)
(* Instances of LedgerFaults for model checking.                           *)
(***************************************************************************)
EXTENDS LedgerFaults, MCLedger
=============================================================================
