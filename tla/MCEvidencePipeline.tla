------------------------- MODULE MCEvidencePipeline -------------------------
(***************************************************************************)
(* EvidencePipeline on a small instance: an infrastructure event e1 and a  *)
(* scan s1, on two topics, whose findings fail the same control.           *)
(***************************************************************************)
EXTENDS EvidencePipeline, TLC

CONSTANTS e1, s1, f1, v1, c1

MCBatch == [e \in Events |-> IF e = s1 THEN <<v1>> ELSE <<f1>>]

MCControlsOf == [f \in {f1, v1} |-> {c1}]

\* The fields of ScanCompletedEvent.
DeclaredData  == {"tenantId", "assetId", "scanId", "tool", "sbom", "scanReport"}
=============================================================================
