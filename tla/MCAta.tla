------------------------------- MODULE MCAta -------------------------------
(***************************************************************************)
(* Ata with sectors of two words and addresses of 2 * 2 * 2 * 2 sectors.   *)
(***************************************************************************)
EXTENDS Ata
=============================================================================
