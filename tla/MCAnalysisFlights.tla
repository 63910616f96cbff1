------------------------- MODULE MCAnalysisFlights -------------------------
(* Small instances of AnalysisFlights for TLC: an upload, a package and a   *)
(* URL, each under the deployment's follow policy or another one.           *)
EXTENDS AnalysisFlights, TLC

CONSTANTS upload, package, url, uploadFollow

MCArtifactOf == [k \in Keys |-> IF k = uploadFollow THEN upload ELSE k]

MCKindOf == [a \in Artifacts |->
                CASE a = upload -> "sha" [] a = package -> "purl" [] a = url -> "url"]

Symmetry == Permutations(Requests)
=============================================================================
