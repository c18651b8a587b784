------------------------------- MODULE MCCapi -------------------------------
(* One function of each kind: with and without a buffer, short and long,   *)
(* with an honest and a misleading result, and the handlers.               *)
EXTENDS Capi

MCUsadas ==
  {GetSocket, EnableAsyncNotification, DisableAsyncNotification,
   GetNetInfo, ICMPPingEx}
    \cup {ResolveName(n) : n \in Largos}
    \cup {SetAlarm(h) : h \in Manejadores \cup {NingunManejador}}
=============================================================================
