--------------------------- MODULE MCTenantLedger ---------------------------
(* Small instances of TenantLedger for TLC. *)
EXTENDS TenantLedger

CONSTANTS t1, t2, p1, p2

\* A deposit and a charge; a loss as large as the charge, so that a pass which
\* counts the charge twice makes up for it.
Movements == {6, -1}
Losses == {-1}
=============================================================================
