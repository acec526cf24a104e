---------------------------- MODULE MCAtmLoading ----------------------------
(* Two departments and an ATM.                                             *)
EXTENDS AtmLoading
CONSTANTS department, atm
MCTypeOf == <<department, atm, department>>
=============================================================================
