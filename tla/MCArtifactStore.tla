-------------------------- MODULE MCArtifactStore --------------------------
(* ArtifactStore for TLC.  Its run checks liveness, so it uses no symmetry. *)
EXTENDS ArtifactStore

=============================================================================
