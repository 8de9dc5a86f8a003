---------------------------- MODULE MCSurfacePool ----------------------------
(* Instances of SurfacePool for TLC. *)
EXTENDS SurfacePool, TLC

CONSTANTS s1, s2, s3, s4, s5, s6

\* The surfaces are interchangeable.
Surfaces == Permutations(Surface)
=============================================================================
