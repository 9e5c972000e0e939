------------------------------- MODULE MCLink -------------------------------
(* Instances of Link for TLC: one transport and one diagnostic tool. *)
EXTENDS Link

MCVendor == [s \in Scanners |-> IF s \in Transports THEN "stack" ELSE "diagnosis"]
=============================================================================
