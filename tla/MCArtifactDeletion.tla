------------------------ MODULE MCArtifactDeletion ------------------------
(* Two runs of two tenants whose artifacts share a path, two workers and one export. *)
EXTENDS ArtifactDeletion, TLC

CONSTANTS a1, a2, r1, r2, t1, t2, p1

Results == a1 :> r1 @@ a2 :> r2
Tenancy == r1 :> t1 @@ r2 :> t2
SharedPath == [a \in Artifacts |-> p1]
=============================================================================
