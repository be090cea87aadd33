----------------------------- MODULE MCOPALatch -----------------------------
(***************************************************************************)
(* One evaluation at a time, two faults to trip, two probes to recover.    *)
(***************************************************************************)
EXTENDS OPALatch
CONSTANTS e1
=============================================================================
