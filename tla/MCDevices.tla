----------------------------- MODULE MCDevices -----------------------------
(* Instances of Devices for TLC. *)
EXTENDS Devices, TLC

CONSTANTS c1, c2

MCComputers == {c1, c2}
MCObservers == {c1}
MCAhead == (c1 :> 1) @@ (c2 :> 0)

=============================================================================
