---------------------------- MODULE MCSecUpdate ----------------------------
(* Instances of SecUpdate: the errors the driver returns, and its boards. *)
EXTENDS SecUpdate

SecErrors == {"RW_ERROR", "BUSY", "HW_ERROR", "TIMEOUT", "INVALID_SIZE", "WEAROUT", "CANCELED"}
=============================================================================
