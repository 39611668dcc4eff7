---------------------------- MODULE OwnerInstallMC ----------------------------
(***************************************************************************)
(* Decisions for OwnerInstall: a group changes its owner, and another gets *)
(* its first one.                                                          *)
(***************************************************************************)
EXTENDS OwnerInstall

CONSTANTS g1, g2

TwoGroups == <<g1, g1, g2>>
==============================================================================
