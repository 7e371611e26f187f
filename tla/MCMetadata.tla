----------------------------- MODULE MCMetadata -----------------------------
(* Constants of the run of FloatingIpMetadata. *)
EXTENDS MetadataProps, MCReconciler
=============================================================================
