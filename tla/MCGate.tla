------------------------------- MODULE MCGate -------------------------------
(* One worker and one row, a lease of four ticks, a gate that trips two    *)
(* ticks early, and the time of two leases.                                *)
EXTENDS Gate
=============================================================================
