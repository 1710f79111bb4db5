------------------------------ MODULE MCNetwork ------------------------------
(* One VLAN, one USB adapter and the LAN bridge.                            *)
EXTENDS Network
=============================================================================
