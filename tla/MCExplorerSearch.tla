-------------------------- MODULE MCExplorerSearch --------------------------
(* ExplorerSearch with the constants of spec_model.py.                     *)
EXTENDS ExplorerSearch

MCReplicas == <<"r1", "r2">>
MCCaps     == 0 .. 4
=============================================================================
