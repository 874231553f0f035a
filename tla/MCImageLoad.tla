---------------------------- MODULE MCImageLoad ----------------------------
(* Instances of ImageLoad: small images, a 4-bit size word. *)
EXTENDS ImageLoad
=============================================================================
