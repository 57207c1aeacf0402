--------------------------- MODULE MCAuditHistory ---------------------------
(* Small instances of AuditHistory for TLC.                                *)
EXTENDS AuditHistory

CONSTANTS p1, p2, vault, swap, v1, v2, f1

NoIds == {{}}
TwoIdSets == {{}, {f1}}
=============================================================================
