----------------------------- MODULE MCDevices -----------------------------
(* Instances of Devices for TLC.                                           *)
EXTENDS Devices

CONSTANTS d1, p1

(* Every websocket is of one device, at one process.                       *)
OneDevice == [s \in Socket |-> d1]
OneProcess == [s \in Socket |-> p1]
=============================================================================
