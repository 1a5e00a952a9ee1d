------------------------------- MODULE MCIrq -------------------------------
(***************************************************************************)
(* Irq with the three lines that get a handler and two that never do, one  *)
(* on each controller.                                                     *)
(***************************************************************************)
EXTENDS Irq

MCLines == {0, 1, 4, 12, 14}
=============================================================================
