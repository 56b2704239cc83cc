----------------------------- MODULE MCAuditWriter -----------------------------
(***************************************************************************)
(* Five audit entries, for TLC.                                            *)
(***************************************************************************)
EXTENDS AuditWriter

CONSTANTS e1, e2, e3, e4, e5

===============================================================================
