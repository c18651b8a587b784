------------------------------ MODULE MCCom3 ------------------------------
(* Small instances of Com3.  Normal is a plain packet; Corrido has an      *)
(* azimuth byte 0xFF and a range byte that looks like an azimuth, so the   *)
(* window that starts one byte late also looks like the head of a packet.  *)
EXTENDS Com3

Normal  == <<255, 255, 16, 131, 32, 49, 64, 197>>
Corrido == <<255, 255, 255, 133, 133, 50, 48, 194>>

MCPaquetes == {Normal, Corrido}
=============================================================================
