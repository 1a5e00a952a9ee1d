----------------------------- MODULE MCKeyboard -----------------------------
(***************************************************************************)
(* Keyboard with a letter and a digit, and a buffer of three keys whose    *)
(* counter wraps at its size, as 2^8 does at 256.                          *)
(***************************************************************************)
EXTENDS Keyboard

MCLetters == {"a"}

MCDigits == {"1"}
=============================================================================
