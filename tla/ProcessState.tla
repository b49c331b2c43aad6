---------------------------- MODULE ProcessState ----------------------------
(***************************************************************************)
(* What a process keeps for itself (ProcessStores), and the helpers it     *)
(* calls.  A behaviour is one of either.                                   *)
(***************************************************************************)
EXTENDS ProcessStores, Helpers

stateVars == <<storesVars, helperVars>>

StateInit == StoresInit /\ HelpersInit

StateNext ==
  \/ StoresNext /\ UNCHANGED helperVars
  \/ part = "helpers" /\ HelpersNext /\ UNCHANGED storesVars

StateSpec == StateInit /\ [][StateNext]_stateVars
=============================================================================
