--------------------------- MODULE MCPortReconfig ---------------------------
(* Instances of PortReconfig; the sets are model values given by the cfg.  *)
EXTENDS PortReconfig
=============================================================================
