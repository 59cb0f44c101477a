---------------------------- MODULE MCGatedProgramme ---------------------------
(***************************************************************************)
(* Instances of GatedProgramme for TLC.                                    *)
(***************************************************************************)
EXTENDS GatedProgramme, TLC
===============================================================================
