---------------------------- MODULE MCAuditLog ----------------------------
(* A single process, and two that get in each other's way *)
EXTENDS AuditLog

CONSTANTS p1, p2

MCFleets == {{p1}, {p1, p2}}
=============================================================================
