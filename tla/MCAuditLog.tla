----------------------------- MODULE MCAuditLog -----------------------------
(***************************************************************************)
(* Small instances of AuditLog for TLC.                                    *)
(***************************************************************************)
EXTENDS AuditLog
=============================================================================
