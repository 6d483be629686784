----------------------------- MODULE MCDeviceSync -----------------------------
(* DeviceSync on two devices, with every storage operation able to fail.     *)
EXTENDS DeviceSync, TLC

CONSTANTS laptop, phone

TwoAndOne == (laptop :> 2 @@ phone :> 1)
TwoAndNone == (laptop :> 2 @@ phone :> 0)
===============================================================================
