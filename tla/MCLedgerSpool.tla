--------------------------- MODULE MCLedgerSpool ---------------------------
(* LedgerSpool with two processes. *)
EXTENDS LedgerSpool
=============================================================================
