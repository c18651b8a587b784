--------------------------- MODULE CapiFunciones ---------------------------
(***************************************************************************)
(* The functions of CAPI, as far as the library treats them differently: a *)
(* function is the number of bytes it moves through the transfer buffer    *)
(* (0: it uses none), the value it returns when there is no buffer for it, *)
(* the value it documents for an error, whether it may be called from a    *)
(* callback, and for SetAlarm and SetAsyncNotification the handler.  What  *)
(* the kernel does with the registers is external.                         *)
(*                                                                         *)
(* GetIpVersionFlags is two GetKernelInformation.                          *)
(***************************************************************************)
EXTENDS Integers

NingunManejador == "ninguno"

Con(n, sinMem, error) ==
  [pide |-> n, sinMem |-> sinMem, error |-> error, retro |-> TRUE,
   manejador |-> NingunManejador, efecto |-> "nada"]

Sin(error) == Con(0, error, error)

(* Bytes of the packed structures, of an unsigned and of a long. *)
NET_ADDR      == 33
NET_INFO      == 38
KERNEL_CONFIG == 26
GROUP_ADDR    == 24
ROUTE_ENTRY   == 15
UNSIGNED      == 4
LONG          == 4
-----------------------------------------------------------------------------
(* Functions that pass everything in registers. *)
GetSocketsVersion == Sin("-1")
DisableAsyncNotification == [Sin("-1") EXCEPT !.efecto = "inhabilita"]
EnableAsyncNotification  == [Sin("-1") EXCEPT !.efecto = "habilita"]
IsSocket          == Sin("-1")
GetDCSocket       == Sin("-1")
GetSocket         == Sin("-1")
GetVersion        == Sin("-1")
ConvertDCSocket   == Sin("-1")
EofSocket         == Sin("-1")
FlushSocket       == Sin("-1")
ReleaseSocket     == Sin("-1")
ReleaseDCSockets  == Sin("-1")
AbortSocket       == Sin("-1")
AbortDCSockets    == Sin("-1")
ShutDownNet       == Sin("-1")
GetAddress        == Sin("0")
ICMPPing          == Sin("-1")
SetSocketOption   == Sin("-1")
ArpConsulta       == Sin("-1")        (* ArpApi() but for ARP_API_ADD *)
ProprietaryApi    == Sin("-1")

PorRegistros ==
  {GetSocketsVersion, DisableAsyncNotification, EnableAsyncNotification,
   IsSocket, GetDCSocket, GetSocket, GetVersion, ConvertDCSocket, EofSocket,
   FlushSocket, ReleaseSocket, ReleaseDCSockets, AbortSocket, AbortDCSockets,
   ShutDownNet, GetAddress, ICMPPing, SetSocketOption, ArpConsulta,
   ProprietaryApi}
-----------------------------------------------------------------------------
(* Functions that pass a structure, or n bytes of name or data. *)
GetAddressInfo(n)       == Con(n + NET_ADDR, "0", "-1")
GetAddressCommon        == Con(NET_ADDR, "-1", "-1")
GetAddressEx            == GetAddressCommon
GetPeerAddress          == GetAddressCommon
GetPeerAddressEx        == GetAddressCommon
GetKernelInformation(n) == Con(n + UNSIGNED, "-1", "-1")
ICMPPingEx              == Con(NET_ADDR, "0", "-1")
GetKernelConfig         == Con(KERNEL_CONFIG, "-1", "-1")
GetNetInfoCero          == Con(NET_INFO, "0", "-1")   (* mutant: returns 0 *)
GetNetInfo              == Con(NET_INFO, "-1", "-1")
ConnectSocket           == Con(NET_ADDR, "-1", "-1")
ListenSocket            == Con(NET_ADDR, "-1", "-1")
ListenAcceptSocket      == Con(NET_ADDR, "-1", "-1")
AcceptSocket            == Con(NET_ADDR, "-1", "-1")
SelectSocket            == Con(2 * LONG, "-1", "-1")
ReadSocket(n)           == Con(n + NET_ADDR, "-1", "-1")
ReadFromSocket(n)       == Con(n + NET_ADDR, "-1", "-1")
WriteSocket(n)          == Con(n, "-1", "-1")
WriteToSocket(n)        == Con(n + NET_ADDR, "-1", "-1")
ParseAddress(n)         == Con(n, "-1", "0")
JoinGroup               == Con(GROUP_ADDR, "-1", "-1")
LeaveGroup              == Con(GROUP_ADDR, "-1", "-1")
JoinGroupEx             == Con(GROUP_ADDR, "-1", "-1")
LeaveGroupEx            == Con(GROUP_ADDR, "-1", "-1")
IfaceIOCTL(n)           == Con(n, "-1", "-1")
ArpAgrega               == Con(6, "-1", "-1")         (* ArpApi(ARP_API_ADD) *)
RouteCommon             == Con(ROUTE_ENTRY, "-1", "-1")
RouteAdd                == RouteCommon
RouteChange             == RouteCommon
RouteDrop               == RouteCommon
ConfigCommand(n)        == Con(n, "-1", "-1")

(* It may call DOS, so no callback may call it. *)
ResolveName(n) == [Con(n, "-1", "0") EXCEPT !.retro = FALSE]

PorEstructura ==
  {GetAddressEx, GetPeerAddress, GetPeerAddressEx, ICMPPingEx,
   GetKernelConfig, GetNetInfo, ConnectSocket, ListenSocket,
   ListenAcceptSocket, AcceptSocket, SelectSocket, JoinGroup, LeaveGroup,
   JoinGroupEx, LeaveGroupEx, ArpAgrega, RouteAdd, RouteChange, RouteDrop}

PorLargo(n) ==
  {GetAddressInfo(n), GetKernelInformation(n), ReadSocket(n),
   ReadFromSocket(n), WriteSocket(n), WriteToSocket(n), ParseAddress(n),
   IfaceIOCTL(n), ConfigCommand(n), ResolveName(n)}
-----------------------------------------------------------------------------
(* With no handler (NingunManejador) they take the notification away. *)
SetAlarm(h) ==
  [Sin("-1") EXCEPT !.manejador = h,
                  !.efecto = IF h = NingunManejador THEN "quita" ELSE "pone"]

SetAsyncNotification(h) == SetAlarm(h)
=============================================================================
