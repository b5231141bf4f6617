--------------------------- MODULE MCDeviceQueue ---------------------------
(* Bounds for TLC: three requests for one device - a holder, the next and   *)
(* one behind it, any of which may be aborted at any point - beside one    *)
(* request for a second device.                                            *)
EXTENDS DeviceQueue, TLC

CONSTANTS d1, d2, r1, r2, r3, r4

MCDevice  == {d1, d2}
MCRequest == {r1, r2, r3, r4}
MCTarget  == r1 :> d1 @@ r2 :> d1 @@ r3 :> d1 @@ r4 :> d2
=============================================================================
