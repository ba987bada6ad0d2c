------------------------------ MODULE MCRaptor ------------------------------
(***************************************************************************)
(* RaptorSearch on the small timetables of Instances.                      *)
(***************************************************************************)
EXTENDS RaptorProperties, Instances

MCInf == 99
=============================================================================
