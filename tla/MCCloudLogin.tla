--------------------------- MODULE MCCloudLogin ---------------------------
(* Small instances of CloudLogin: the timeouts keep the order they have in  *)
(* the code (REDUNDANCE < ONESHOT, heart beat shorter than the CONNACK      *)
(* timeout), scaled down.                                                   *)
EXTENDS CloudLogin

Unregistered == {0}
Registered == {1}
AnyStart == {0, 1}
=============================================================================
