-------------------------- MODULE MCIncidentEvents --------------------------
(***************************************************************************)
(* IncidentEvents on three events of two subjects: a report and two        *)
(* detections, the first of them critical.  The report that occurs first   *)
(* is an effect of the critical detection, and the last detection shares   *)
(* its subject with nothing but its own second copy.                       *)
(***************************************************************************)
EXTENDS IncidentEvents

CONSTANTS a, b

MCKeyOf  == <<a, a, b>>
MCRankOf == <<6, 1, 1>>
=============================================================================
