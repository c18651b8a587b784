----------------------------- MODULE CapiProofs -----------------------------
(***************************************************************************)
(* Proofs about Capi, for any functions, handlers, errors, lengths and     *)
(* number of real-mode callbacks.                                          *)
(***************************************************************************)
EXTENDS Capi, TLAPS

(* What the library needs to know of a function. *)
Correcta(f) ==
  /\ f.pide \in Nat
  /\ f.sinMem \in Resultados /\ f.error \in Resultados
  /\ f.manejador \in Manejadores \cup {NingunManejador}
  /\ f.manejador # NingunManejador => f.error = "-1" /\ f.pide = 0

(* Every function asks for a number of bytes and names its results.        *)
LEMMA Correctas == \A f \in Funciones : Correcta(f)
<1>1. ASSUME NEW n \in Nat, NEW x \in Resultados, NEW y \in Resultados
      PROVE  Correcta(Con(n, x, y))
  BY <1>1 DEF Correcta, Con
<1> USE DEF Correcta, Con, Sin, Resultados
<1>2. \A f \in PorRegistros : Correcta(f)
  BY DEF PorRegistros, GetSocketsVersion, DisableAsyncNotification,
    EnableAsyncNotification, IsSocket, GetDCSocket, GetSocket, GetVersion,
    ConvertDCSocket, EofSocket, FlushSocket, ReleaseSocket, ReleaseDCSockets,
    AbortSocket, AbortDCSockets, ShutDownNet, GetAddress, ICMPPing,
    SetSocketOption, ArpConsulta, ProprietaryApi
<1>3. \A f \in PorEstructura : Correcta(f)
  BY DEF PorEstructura, GetAddressCommon, GetAddressEx, GetPeerAddress,
    GetPeerAddressEx, ICMPPingEx, GetKernelConfig, GetNetInfo, ConnectSocket,
    ListenSocket, ListenAcceptSocket, AcceptSocket, SelectSocket, JoinGroup,
    LeaveGroup, JoinGroupEx, LeaveGroupEx, ArpAgrega,
    RouteCommon, RouteAdd, RouteChange, RouteDrop, NET_ADDR, KERNEL_CONFIG,
    NET_INFO, GROUP_ADDR, ROUTE_ENTRY, LONG
<1>4. ASSUME NEW n \in Largos
      PROVE  \A f \in PorLargo(n) : Correcta(f)
  <2>1. n \in Nat
    BY CapiAssumption
  <2> QED
    BY <2>1 DEF PorLargo, GetAddressInfo, GetKernelInformation, ReadSocket,
      ReadFromSocket, WriteSocket, WriteToSocket, ParseAddress, IfaceIOCTL,
      ConfigCommand, ResolveName, NET_ADDR, UNSIGNED
<1>5. ASSUME NEW h \in Manejadores \cup {NingunManejador}
      PROVE  Correcta(SetAlarm(h)) /\ Correcta(SetAsyncNotification(h))
  BY DEF SetAlarm, SetAsyncNotification
<1> HIDE DEF Correcta, Con, Sin, Resultados
<1>6. \A f \in PorLargos : Correcta(f)
  BY <1>4 DEF PorLargos
<1>7. \A f \in ConManejador : Correcta(f)
  BY <1>5 DEF ConManejador
<1> QED
  BY <1>2, <1>3, <1>6, <1>7 DEF Funciones
-----------------------------------------------------------------------------
(* Where a call is and the level it holds; how a new node finds its place. *)
Lugar(a) ==
  /\ llamada[a].pc \in {"fuera", "enlaza", "vuelto"} => llamada[a].nivel = -1
  /\ llamada[a].pc \in {"mide", "asigna"} => llamada[a].nivel \in Niveles
  /\ llamada[a].pc = "reserva" => a = "base" /\ llamada[a].nivel \in Niveles
  /\ llamada[a].pc = "enlaza" => /\ llamada[a].f.manejador \in Manejadores
                                 /\ llamada[a].prev <= Len(cadena)

(* The handler's calls end before the main line goes on; rmcb counts at    *)
(* least the nodes of the chain.                                           *)
Forma ==
  /\ \A a \in Actividades : Lugar(a)
  /\ ~activa => llamada["retro"].pc = "fuera"
  /\ llamada["retro"].pc = "enlaza" => llamada["retro"].prev = Len(cadena)
  /\ Len(cadena) <= rmcb

IInv == TypeOK /\ Forma /\ NivelesEquilibrados

LEMMA Redondeado == \A n \in Nat : Redondeo(n) \in Nat /\ n <= Redondeo(n)
  BY DEF Redondeo

LEMMA Ocioso == Ociosa \in Registro
<1>1. Sin("-1") \in Funciones
  BY DEF Funciones, PorRegistros, GetSocket
<1> QED
  BY <1>1 DEF Ociosa, Registro, Pcs, Resultados, Byte

LEMMA Inicial == Init => IInv
<1> SUFFICES ASSUME Init PROVE IInv
  OBVIOUS
<1>1. llamada \in [Actividades -> Registro]
  BY Ocioso DEF Init
<1>2. tsr \subseteq Byte /\ cadena \in Seq(Manejadores) /\ rmcb \in 0 .. MaxRmcb
  BY CapiAssumption DEF Init
<1>3. TypeOK
  <2>1. 0 \in Byte
    BY DEF Byte
  <2> QED
    BY <1>1, <1>2, <2>1 DEF Init, TypeOK
<1>4. \A a \in Actividades : llamada[a].pc = "fuera" /\ llamada[a].nivel = -1
  BY DEF Init, Ociosa
<1>5. Forma
  BY <1>4 DEF Forma, Lugar, Actividades, Init
<1> QED
  BY <1>3, <1>4, <1>5 DEF IInv, NivelesEquilibrados, ConNivel, Ocupa, Actividades, Init

(* A record of a call stays one when its fields change within their sets.  *)
LEMMA Llamadas ==
  ASSUME TypeOK, NEW a \in Actividades, NEW r \in Registro
  PROVE  [llamada EXCEPT ![a] = r] \in [Actividades -> Registro]
  BY DEF TypeOK

LEMMA Errores0 ==
  /\ {0, ERR_NO_MEM, ERR_ILLEGAL_OP, ERR_API_NOT_LOADED} \subseteq Byte
  /\ Errores \subseteq Byte
  BY CapiAssumption DEF Byte, ERR_NO_MEM, ERR_ILLEGAL_OP, ERR_API_NOT_LOADED

(* iLevel counts the level of a call that holds one.                       *)
LEMMA ConNivelCuenta ==
  ASSUME IInv, NEW a \in Actividades, ConNivel(a)
  PROVE  iLevel \in Niveles
<1>1. Ocupa(a) = 1
  BY DEF Ocupa
<1>2. Ocupa("base") \in {0, 1} /\ Ocupa("retro") \in {0, 1}
  BY DEF Ocupa
<1>3. iLevel >= 0
  BY <1>1, <1>2 DEF IInv, NivelesEquilibrados, Actividades
<1> QED
  BY <1>3 DEF IInv, TypeOK, Niveles, NUM_DOSBUF_LEVELS

(* A call that measures or waits for its block holds its level.            *)
LEMMA NivelPropio ==
  ASSUME IInv, NEW a \in Actividades, llamada[a].pc \in {"mide", "asigna"}
  PROVE  ConNivel(a) /\ iLevel \in Niveles
<1>1. llamada[a].nivel \in Niveles
  BY DEF IInv, Forma, Lugar
<1>2. ConNivel(a)
  BY <1>1 DEF ConNivel, Niveles, NUM_DOSBUF_LEVELS
<1> QED
  BY <1>2, ConNivelCuenta

(* What moves the blocks keeps their types.                                *)
Memoria ==
  /\ aiAvail \in [Niveles -> Nat]
  /\ size \in [Niveles -> Nat]
  /\ bloque \in [Niveles -> Nat]
  /\ perdido \subseteq Niveles

LEMMA TiposDeMemoria ==
  ASSUME TypeOK, NEW l \in Niveles, NEW n \in Nat
  PROVE  /\ Libera(l, n) => Memoria'
         /\ Obtiene(l) => Memoria'
         /\ NoObtiene(l) => Memoria'
<1>1. ASSUME Libera(l, n) PROVE Memoria'
  <2>1. Redondeo(n) \in Nat
    BY Redondeado
  <2>2. size' \in [Niveles -> Nat] /\ aiAvail' \in [Niveles -> Nat]
    BY <1>1, <2>1 DEF Libera, TypeOK
  <2>3. bloque' \in [Niveles -> Nat] /\ perdido' \subseteq Niveles
    BY <1>1 DEF dpmi_free_dos_memory, ConBloque, Libera, TypeOK
  <2> QED
    BY <2>2, <2>3 DEF Memoria
<1>2. ASSUME Obtiene(l) PROVE Memoria'
  <2>1. size[l] \in Nat
    BY DEF TypeOK
  <2> QED
    BY <1>2, <2>1 DEF Obtiene, Memoria, TypeOK
<1>3. ASSUME NoObtiene(l) PROVE Memoria'
  BY <1>3 DEF NoObtiene, Memoria, TypeOK
<1> QED
  BY <1>1, <1>2, <1>3

LEMMA TiposDePaso ==
  ASSUME IInv, NEW a \in Actividades, NEW f \in Funciones
  PROVE  /\ Empieza(a, f) => TypeOK'
         /\ Entra(a, f) => TypeOK'
         /\ Busca(a, f) => TypeOK'
         /\ Mide(a) => TypeOK'
         /\ Asigna(a) => TypeOK'
         /\ Enlaza(a) => TypeOK'
         /\ Llama(a) => TypeOK'
         /\ Responde(a) => TypeOK'
         /\ Sale(a) => TypeOK'
         /\ Usa(a) => TypeOK'
<1> USE DEF IInv
<1>0. /\ TypeOK /\ Lugar(a)
      /\ llamada[a] \in Registro
      /\ Correcta(f) /\ Correcta(llamada[a].f)
  BY Correctas DEF TypeOK, Forma, Registro
<1>1. ASSUME Empieza(a, f) PROVE TypeOK'
  <2>1. [[Ociosa EXCEPT !.f = f] EXCEPT !.pc = "llama"] \in Registro
    BY Ocioso DEF Registro, Pcs
  <2> QED
    BY <1>0, <1>1, <2>1 DEF Empieza, TypeOK, fijo, nucleo, memoria, chain
<1>2. ASSUME Entra(a, f) PROVE TypeOK'
  <2>1. iLevel + 1 < NUM_DOSBUF_LEVELS => iLevel + 1 \in Niveles
    BY <1>0 DEF TypeOK, Niveles, NUM_DOSBUF_LEVELS
  <2>2. CASE iLevel + 1 < NUM_DOSBUF_LEVELS
    <3>1. [Ociosa EXCEPT !.f = f, !.pc = "mide", !.nivel = iLevel + 1] \in Registro
      BY <2>1, <2>2, Ocioso DEF Registro, Pcs
    <3> QED
      BY <1>0, <1>2, <2>1, <2>2, <3>1 DEF Entra, TypeOK, fijo, nucleo, memoria, chain
  <2>3. CASE ~(iLevel + 1 < NUM_DOSBUF_LEVELS)
    <3>1. [Ociosa EXCEPT !.f = f, !.pc = "vuelto", !.propio = ERR_NO_MEM,
                         !.ret = f.sinMem] \in Registro
      BY <1>0, Ocioso, Errores0 DEF Registro, Pcs, Correcta
    <3> QED
      BY <1>0, <1>2, <2>3, <3>1, Errores0 DEF Entra, TypeOK, fijo, nucleo, memoria, chain
  <2> QED
    BY <2>2, <2>3
<1>3. ASSUME Busca(a, f) PROVE TypeOK'
  <2>1. /\ [Ociosa EXCEPT !.f = f, !.pc = "llama"] \in Registro
        /\ [Ociosa EXCEPT !.f = f, !.pc = "enlaza", !.prev = Len(cadena)] \in Registro
    <3>1. Len(cadena) \in Nat
      BY <1>0 DEF TypeOK
    <3> QED
      BY <3>1, Ocioso DEF Registro, Pcs
  <2> QED
    BY <1>0, <1>3, <2>1 DEF Busca, TypeOK, fijo, nucleo, memoria, chain
<1>4. ASSUME NEW pc \in Pcs, Va(a, pc)
      PROVE  llamada' \in [Actividades -> Registro]
  BY <1>0, <1>4 DEF Va, TypeOK, Registro
<1>5. ASSUME NEW e \in Byte, NEW r \in Resultados, Vuelve(a, e, r)
      PROVE  llamada' \in [Actividades -> Registro] /\ iNetErrNo' \in Byte
  BY <1>0, <1>5 DEF Vuelve, TypeOK, Registro, Pcs
<1>6. ASSUME NoHayBuffer(a), llamada[a].pc \in {"mide", "asigna"}
      PROVE  /\ llamada' \in [Actividades -> Registro]
             /\ iNetErrNo' \in Byte /\ iLevel' \in Niveles \cup {-1}
  <2>1. llamada[a].f.sinMem \in Resultados
    BY <1>0 DEF Correcta
  <2>2. iLevel \in Niveles
    BY <1>0, <1>6, NivelPropio
  <2> QED
    BY <1>5, <1>6, <2>1, <2>2, Errores0 DEF NoHayBuffer, Niveles, NUM_DOSBUF_LEVELS
<1>7. ASSUME Mide(a) PROVE TypeOK'
  <2>1. llamada[a].pc = "mide" /\ llamada[a].f.pide \in Nat
    BY <1>0, <1>7 DEF Mide, En, Correcta
  <2>2. CASE Va(a, "llama") /\ UNCHANGED <<memoria, iLevel, iNetErrNo>>
    BY <1>0, <1>4, <1>7, <2>2 DEF Mide, TypeOK, fijo, nucleo, memoria, chain, Pcs
  <2>3. CASE NoHayBuffer(a) /\ UNCHANGED memoria
    BY <1>0, <1>6, <1>7, <2>1, <2>3 DEF Mide, TypeOK, fijo, nucleo, memoria, chain
  <2>4. CASE Libera(iLevel, llamada[a].f.pide) /\ Va(a, "asigna")
             /\ UNCHANGED <<iLevel, iNetErrNo>>
    <3>1. Memoria'
      BY <1>0, <2>1, <2>4, NivelPropio, TiposDeMemoria
    <3> QED
      BY <1>0, <1>4, <1>7, <2>4, <3>1 DEF Mide, TypeOK, Memoria, fijo, nucleo, chain, Pcs
  <2> QED
    BY <1>7, <2>2, <2>3, <2>4 DEF Mide
<1>8. ASSUME Asigna(a) PROVE TypeOK'
  <2>1. llamada[a].pc = "asigna" /\ llamada[a].nivel \in Niveles
    BY <1>0, <1>8 DEF Asigna, En, Lugar
  <2>2. Memoria'
    BY <1>0, <1>8, <2>1, TiposDeMemoria DEF Asigna
  <2>3. CASE Va(a, "llama") /\ UNCHANGED <<iLevel, iNetErrNo>>
    BY <1>0, <1>4, <1>8, <2>2, <2>3 DEF Asigna, TypeOK, Memoria, fijo, nucleo, chain, Pcs
  <2>4. CASE NoHayBuffer(a)
    BY <1>0, <1>6, <1>8, <2>1, <2>2, <2>4 DEF Asigna, TypeOK, Memoria, fijo, nucleo, chain
  <2> QED
    BY <1>8, <2>3, <2>4 DEF Asigna
<1>9. ASSUME Enlaza(a) PROVE TypeOK'
  <2>1. /\ llamada[a].f.manejador \in Manejadores
        /\ llamada[a].prev \in Nat
        /\ cadena \in Seq(Manejadores) /\ rmcb \in 0 .. MaxRmcb /\ MaxRmcb \in Nat
    BY <1>0, <1>9, CapiAssumption DEF Enlaza, En, Lugar, TypeOK, Registro
  <2>2. CASE Agrega(a) /\ Va(a, "llama") /\ UNCHANGED iNetErrNo
    <3>1. llamada[a].prev <= Len(cadena)
      BY <1>0, <1>9 DEF Enlaza, En, Lugar
    <3>2. SubSeq(cadena, 1, llamada[a].prev) \in Seq(Manejadores)
      BY <2>1, <3>1
    <3>3. cadena' \in Seq(Manejadores) /\ rmcb' \in 0 .. MaxRmcb /\ carrera' \in BOOLEAN
      BY <2>1, <2>2, <3>2 DEF dpmi_allocate_real_mode_callback_retf, Agrega
    <3> QED
      BY <1>0, <1>4, <1>9, <2>2, <3>3 DEF Enlaza, TypeOK, fijo, nucleo, memoria, Pcs
  <2>3. CASE \E e \in {ERR_NO_MEM, ERR_ILLEGAL_OP} :
               Vuelve(a, e, "-1") /\ UNCHANGED chain
    BY <1>0, <1>5, <1>9, <2>3, Errores0
      DEF Enlaza, TypeOK, fijo, nucleo, memoria, chain, Resultados
  <2> QED
    BY <1>9, <2>2, <2>3 DEF Enlaza
<1>10. ASSUME Llama(a) PROVE TypeOK'
  <2>1. iSocketsApiInterrupt' \in Byte
    BY <1>10 DEF Llama
  <2>2. [llamada[a] EXCEPT !.pc = "sale", !.propio = ERR_API_NOT_LOADED,
                           !.ret = llamada[a].f.error] \in Registro
    BY <1>0, Errores0 DEF Registro, Pcs, Correcta
  <2>3. /\ llamada' \in [Actividades -> Registro]
        /\ iNetErrNo' \in Byte
    BY <1>0, <1>4, <1>10, <2>2, Errores0 DEF Llama, Pcs, TypeOK
  <2> QED
    BY <1>0, <1>10, <2>1, <2>3 DEF Llama, TypeOK, fijo, nucleo, memoria, chain
<1>11. ASSUME Responde(a) PROVE TypeOK'
  <2>1. \A e \in Byte :
          [llamada[a] EXCEPT !.pc = "sale", !.propio = e,
                             !.ret = llamada[a].f.error] \in Registro
    BY <1>0 DEF Registro, Pcs, Correcta
  <2>2. /\ llamada' \in [Actividades -> Registro]
        /\ iNetErrNo' \in Byte
    <3>1. CASE Va(a, "sale") /\ UNCHANGED iNetErrNo
      BY <1>0, <1>4, <3>1 DEF Pcs, TypeOK
    <3>2. CASE \E e \in Errores :
                 /\ iNetErrNo' = e
                 /\ llamada' = [llamada EXCEPT ![a].pc = "sale", ![a].propio = e,
                                               ![a].ret = llamada[a].f.error]
      <4>1. PICK e \in Errores :
              /\ iNetErrNo' = e
              /\ llamada' = [llamada EXCEPT ![a].pc = "sale", ![a].propio = e,
                                            ![a].ret = llamada[a].f.error]
        BY <3>2
      <4>2. e \in Byte
        BY Errores0
      <4> DEFINE c == [llamada[a] EXCEPT !.pc = "sale", !.propio = e,
                                         !.ret = llamada[a].f.error]
      <4>3. c \in Registro
        BY <2>1, <4>2
      <4>4. llamada' = [llamada EXCEPT ![a] = c]
        BY <4>1
      <4> QED
        BY <1>0, <4>1, <4>2, <4>3, <4>4 DEF TypeOK
    <3> QED
      BY <1>11, <3>1, <3>2 DEF Responde
  <2>3. registrado' \in BOOLEAN /\ habilitado' \in BOOLEAN
    BY <1>0, <1>11 DEF Responde, Efecto, nucleo, TypeOK
  <2> QED
    BY <1>0, <1>11, <2>2, <2>3 DEF Responde, TypeOK, fijo, memoria, chain
<1>12. ASSUME Sale(a) PROVE TypeOK'
  <2>1. [llamada[a] EXCEPT !.pc = "vuelto", !.nivel = -1] \in Registro
    BY <1>0 DEF Registro, Pcs
  <2>2. iLevel' \in Niveles \cup {-1}
    <3>1. llamada[a].nivel >= 0 => iLevel \in Niveles
      BY <1>12, ConNivelCuenta DEF Sale, En, ConNivel
    <3>2. \A x \in Niveles : x - 1 \in Niveles \cup {-1}
      BY DEF Niveles, NUM_DOSBUF_LEVELS
    <3> QED
      BY <1>0, <1>12, <3>1, <3>2 DEF Sale, TypeOK
  <2> QED
    BY <1>0, <1>12, <2>1, <2>2 DEF Sale, TypeOK, fijo, nucleo, memoria, chain
<1>13. ASSUME Usa(a) PROVE TypeOK'
  BY <1>0, <1>13, Ocioso DEF Usa, TypeOK, fijo, nucleo, memoria, chain
<1> QED
  BY <1>1, <1>2, <1>3, <1>7, <1>8, <1>9, <1>10, <1>11, <1>12, <1>13

LEMMA TiposDelResto ==
  ASSUME IInv
  PROVE  /\ Buffers => TypeOK'
         /\ FreeRealModeCallbacks => TypeOK'
         /\ Interrumpe => TypeOK'
         /\ Termina => TypeOK'
<1>0. TypeOK /\ "base" \in Actividades /\ llamada["base"] \in Registro
  BY DEF IInv, TypeOK, Actividades
<1>1. ASSUME NEW l \in {0, 1}, NEW n \in Largos, Reserva(l, n) PROVE TypeOK'
  <2>1. l \in Niveles /\ n \in Nat
    BY CapiAssumption DEF Niveles, NUM_DOSBUF_LEVELS
  <2>2. Memoria'
    BY <1>0, <1>1, <2>1, TiposDeMemoria DEF Reserva
  <2>3. [llamada["base"] EXCEPT !.pc = "reserva", !.nivel = l] \in Registro
    BY <1>0, <2>1 DEF Registro, Pcs
  <2> QED
    BY <1>0, <1>1, <2>2, <2>3 DEF Reserva, TypeOK, Memoria, fijo, nucleo, chain
<1>2. ASSUME FinReserva PROVE TypeOK'
  <2>1. llamada["base"].nivel \in Niveles
    BY <1>0, <1>2 DEF FinReserva, En, IInv, Forma, Lugar
  <2>2. Memoria'
    BY <1>0, <1>2, <2>1, TiposDeMemoria DEF FinReserva
  <2> QED
    BY <1>0, <1>2, <2>2, Ocioso DEF FinReserva, TypeOK, Memoria, fijo, nucleo, chain
<1>3. ASSUME NEW ls \in {{l} : l \in Niveles} \cup {Niveles}, DosBufFree(ls)
      PROVE  TypeOK'
  <2>1. Memoria'
    BY <1>0, <1>3
      DEF dpmi_free_dos_memory, ConBloque, DosBufFree, Memoria, TypeOK
  <2> QED
    BY <1>0, <1>3, <2>1 DEF DosBufFree, TypeOK, Memoria, fijo, nucleo, chain
<1>4. ASSUME FreeRealModeCallbacks PROVE TypeOK'
  <2>1. rmcb' \in 0 .. MaxRmcb
    BY <1>0, <1>4, CapiAssumption
      DEF dpmi_free_real_mode_callback, FreeRealModeCallbacks, TypeOK, IInv, Forma
  <2> QED
    BY <1>0, <1>4, <2>1 DEF FreeRealModeCallbacks, TypeOK, fijo, nucleo, memoria
<1>5. Interrumpe => TypeOK'
  BY <1>0 DEF Interrumpe, TypeOK, fijo, nucleo, memoria, chain
<1>6. Termina => TypeOK'
  BY <1>0 DEF Termina, TypeOK, fijo, nucleo, memoria, chain
<1> QED
  BY <1>1, <1>2, <1>3, <1>4, <1>5, <1>6 DEF Buffers
-----------------------------------------------------------------------------
(* What a step of an activity does to the levels: nothing, it takes the    *)
(* next one or it gives its own back.                                      *)
Nivela(a) ==
  \/ /\ iLevel' = iLevel
     /\ ConNivel(a)' <=> ConNivel(a)
     /\ ConNivel(a) => llamada'[a].nivel = llamada[a].nivel
  \/ /\ iLevel' = iLevel + 1
     /\ ~ConNivel(a) /\ ConNivel(a)' /\ llamada'[a].nivel = iLevel'
  \/ /\ iLevel' = iLevel - 1
     /\ ConNivel(a) /\ ~ConNivel(a)'

(* Only the running activity steps, and the other stays where it is.       *)
Sola(a) ==
  /\ activa = (a = "retro") /\ activa' = activa
  /\ \A b \in Actividades \ {a} : llamada'[b] = llamada[b]

(* The two ways a call with a level goes on: with it, or without a buffer. *)
LEMMA Avanzan ==
  ASSUME llamada \in [Actividades -> Registro], NEW a \in Actividades,
         activa = (a = "retro"), activa' = activa, ConNivel(a)
  PROVE  /\ \A pc \in {"asigna", "llama"} :
              Va(a, pc) /\ iLevel' = iLevel => Sola(a) /\ Nivela(a)
         /\ NoHayBuffer(a) => Sola(a) /\ Nivela(a)
<1>1. ASSUME NEW pc \in {"asigna", "llama"}, Va(a, pc), iLevel' = iLevel
      PROVE  Sola(a) /\ Nivela(a)
  <2>1. Sola(a) /\ llamada'[a].pc = pc /\ llamada'[a].nivel = llamada[a].nivel
    BY <1>1 DEF Va, Sola, Registro
  <2> QED
    BY <1>1, <2>1 DEF Nivela, ConNivel
<1>2. ASSUME NoHayBuffer(a)
      PROVE  Sola(a) /\ Nivela(a)
  <2>1. Sola(a) /\ iLevel' = iLevel - 1 /\ llamada'[a].nivel = -1
    BY <1>2 DEF NoHayBuffer, Vuelve, Sola, Registro
  <2> QED
    BY <2>1 DEF Nivela, ConNivel
<1> QED
  BY <1>1, <1>2

(* The call of the kernel changes neither the function nor the level.      *)
LEMMA AlNucleo ==
  ASSUME llamada \in [Actividades -> Registro], NEW a \in Actividades,
         Llama(a) \/ Responde(a)
  PROVE  /\ llamada'[a].pc \in {"sale", "nucleo"}
         /\ llamada'[a].nivel = llamada[a].nivel /\ llamada'[a].f = llamada[a].f
         /\ \A b \in Actividades \ {a} : llamada'[b] = llamada[b]
<1>1. CASE Va(a, "nucleo") \/ Va(a, "sale")
  BY <1>1 DEF Va, Registro
<1>2. CASE llamada' = [llamada EXCEPT
             ![a].pc = "sale", ![a].propio = ERR_API_NOT_LOADED,
             ![a].ret = llamada[a].f.error]
  BY <1>2 DEF Registro
<1>3. CASE \E e \in Errores :
             llamada' = [llamada EXCEPT ![a].pc = "sale", ![a].propio = e,
                                        ![a].ret = llamada[a].f.error]
  BY <1>3 DEF Registro
<1> QED
  BY <1>1, <1>2, <1>3 DEF Llama, Responde

LEMMA Pasos ==
  ASSUME IInv, NEW a \in Actividades, NEW f \in Funciones
  PROVE  /\ Empieza(a, f) => Sola(a) /\ Nivela(a)
         /\ Entra(a, f) => Sola(a) /\ Nivela(a)
         /\ Busca(a, f) => Sola(a) /\ Nivela(a)
         /\ Mide(a) => Sola(a) /\ Nivela(a)
         /\ Asigna(a) => Sola(a) /\ Nivela(a)
         /\ Enlaza(a) => Sola(a) /\ Nivela(a)
         /\ Llama(a) => Sola(a) /\ Nivela(a)
         /\ Responde(a) => Sola(a) /\ Nivela(a)
         /\ Sale(a) => Sola(a) /\ Nivela(a)
         /\ Usa(a) => Sola(a) /\ Nivela(a)
<1>0. /\ llamada \in [Actividades -> Registro]
      /\ Lugar(a) /\ iLevel \in Niveles \cup {-1}
  BY DEF IInv, Forma, TypeOK
<1>1. ASSUME Empieza(a, f) PROVE Sola(a) /\ Nivela(a)
  BY <1>0, <1>1 DEF Empieza, En, Sola, Nivela, Lugar, ConNivel, Ociosa
<1>2. ASSUME Entra(a, f) PROVE Sola(a) /\ Nivela(a)
  <2>1. En(a, "fuera") /\ activa' = activa /\ ~ConNivel(a) /\ iLevel + 1 >= 0
    BY <1>0, <1>2 DEF Entra, En, Lugar, ConNivel, Niveles, NUM_DOSBUF_LEVELS
  <2>2. CASE iLevel + 1 < NUM_DOSBUF_LEVELS
    <3>1. /\ iLevel' = iLevel + 1
          /\ llamada' = [llamada EXCEPT ![a] =
               [Ociosa EXCEPT !.f = f, !.pc = "mide", !.nivel = iLevel + 1]]
      BY <1>2, <2>2 DEF Entra
    <3>2. Sola(a) /\ llamada'[a].pc = "mide" /\ llamada'[a].nivel = iLevel + 1
      BY <1>0, <2>1, <3>1 DEF En, Sola, Ociosa
    <3> QED
      BY <2>1, <3>1, <3>2 DEF Nivela, ConNivel
  <2>3. CASE ~(iLevel + 1 < NUM_DOSBUF_LEVELS)
    <3>1. /\ iLevel' = iLevel
          /\ llamada' = [llamada EXCEPT ![a] =
               [Ociosa EXCEPT !.f = f, !.pc = "vuelto", !.propio = ERR_NO_MEM,
                              !.ret = f.sinMem]]
      BY <1>2, <2>3 DEF Entra
    <3>2. Sola(a) /\ llamada'[a].nivel = -1
      BY <1>0, <2>1, <3>1 DEF En, Sola, Ociosa
    <3> QED
      BY <2>1, <3>1, <3>2 DEF Nivela, ConNivel
  <2> QED
    BY <2>2, <2>3
<1>3. ASSUME Busca(a, f) PROVE Sola(a) /\ Nivela(a)
  BY <1>0, <1>3 DEF Busca, En, Sola, Nivela, Lugar, ConNivel, Ociosa
<1>4. ASSUME Mide(a) PROVE Sola(a) /\ Nivela(a)
  <2>1. En(a, "mide") /\ activa' = activa /\ ConNivel(a)
    BY <1>4, NivelPropio DEF Mide, En
  <2>2. CASE (Va(a, "llama") \/ Va(a, "asigna")) /\ UNCHANGED iLevel
    BY <1>0, <2>1, <2>2, Avanzan DEF En
  <2>3. CASE NoHayBuffer(a)
    BY <1>0, <2>1, <2>3, Avanzan DEF En
  <2> QED
    BY <1>4, <2>2, <2>3 DEF Mide
<1>5. ASSUME Asigna(a) PROVE Sola(a) /\ Nivela(a)
  <2>1. En(a, "asigna") /\ activa' = activa /\ ConNivel(a)
    BY <1>5, NivelPropio DEF Asigna, En
  <2>2. CASE Va(a, "llama") /\ UNCHANGED iLevel
    BY <1>0, <2>1, <2>2, Avanzan DEF En
  <2>3. CASE NoHayBuffer(a)
    BY <1>0, <2>1, <2>3, Avanzan DEF En
  <2> QED
    BY <1>5, <2>2, <2>3 DEF Asigna
<1>6. ASSUME Enlaza(a) PROVE Sola(a) /\ Nivela(a)
  <2>1. /\ En(a, "enlaza") /\ activa' = activa /\ iLevel' = iLevel
        /\ ~ConNivel(a) /\ llamada[a].nivel = -1
    BY <1>0, <1>6 DEF Enlaza, En, Lugar, ConNivel
  <2>2. CASE Va(a, "llama")
    BY <1>0, <2>1, <2>2 DEF En, Sola, Nivela, ConNivel, Va
  <2>3. CASE \E e \in {ERR_NO_MEM, ERR_ILLEGAL_OP} : Vuelve(a, e, "-1")
    BY <1>0, <2>1, <2>3 DEF En, Sola, Nivela, ConNivel, Vuelve
  <2> QED
    BY <1>6, <2>2, <2>3 DEF Enlaza
<1>7. ASSUME Llama(a) PROVE Sola(a) /\ Nivela(a)
  BY <1>0, <1>7, AlNucleo DEF Llama, En, Sola, Nivela, ConNivel
<1>8. ASSUME Responde(a) PROVE Sola(a) /\ Nivela(a)
  BY <1>0, <1>8, AlNucleo DEF Responde, En, Sola, Nivela, ConNivel
<1>9. ASSUME Sale(a) PROVE Sola(a) /\ Nivela(a)
  BY <1>0, <1>9 DEF Sale, En, Sola, Nivela, ConNivel
<1>10. ASSUME Usa(a) PROVE Sola(a) /\ Nivela(a)
  BY <1>0, <1>10 DEF Usa, En, Sola, Nivela, Lugar, ConNivel, Ociosa
<1> QED
  BY <1>1, <1>2, <1>3, <1>4, <1>5, <1>6, <1>7, <1>8, <1>9, <1>10
-----------------------------------------------------------------------------
(* What a step of an activity does to its own place and to the chain.      *)
Coloca(a) ==
  /\ Lugar(a)'
  /\ a = "retro" /\ llamada'[a].pc = "enlaza" => llamada'[a].prev = Len(cadena')
  /\ a = "retro" => Len(cadena) <= Len(cadena')
  /\ Len(cadena') <= rmcb'

LEMMA Colocan ==
  ASSUME IInv, NEW a \in Actividades, NEW f \in Funciones
  PROVE  /\ Empieza(a, f) => Coloca(a)
         /\ Entra(a, f) => Coloca(a)
         /\ Busca(a, f) => Coloca(a)
         /\ Mide(a) => Coloca(a)
         /\ Asigna(a) => Coloca(a)
         /\ Enlaza(a) => Coloca(a)
         /\ Llama(a) => Coloca(a)
         /\ Responde(a) => Coloca(a)
         /\ Sale(a) => Coloca(a)
         /\ Usa(a) => Coloca(a)
<1>0. /\ llamada \in [Actividades -> Registro]
      /\ Lugar(a) /\ Correcta(f)
      /\ Len(cadena) \in Nat /\ Len(cadena) <= rmcb
      /\ cadena \in Seq(Manejadores) /\ rmcb \in Nat
  BY Correctas, CapiAssumption DEF IInv, Forma, TypeOK
<1> DEFINE Igual == cadena' = cadena /\ rmcb' = rmcb
<1>1. ASSUME Igual, llamada'[a].pc \in {"llama", "nucleo", "sale"}
      PROVE  Coloca(a)
  BY <1>0, <1>1 DEF Coloca, Lugar
<1>2. ASSUME Igual, llamada'[a].pc \in {"fuera", "vuelto"}, llamada'[a].nivel = -1
      PROVE  Coloca(a)
  BY <1>0, <1>2 DEF Coloca, Lugar
<1>3. ASSUME Igual, llamada'[a].pc \in {"mide", "asigna"}, llamada'[a].nivel \in Niveles
      PROVE  Coloca(a)
  BY <1>0, <1>3 DEF Coloca, Lugar
<1> HIDE DEF Igual
<1>4. ASSUME Empieza(a, f) PROVE Coloca(a)
  <2>1. Igual /\ llamada'[a].pc = "llama"
    BY <1>0, <1>4 DEF Empieza, chain, Igual, Ociosa
  <2> QED
    BY <1>1, <2>1
<1>5. ASSUME Entra(a, f) PROVE Coloca(a)
  <2>1. Igual
    BY <1>5 DEF Entra, chain, Igual
  <2>2. CASE iLevel + 1 < NUM_DOSBUF_LEVELS
    <3>1. iLevel + 1 \in Niveles
      BY <2>2 DEF IInv, TypeOK, Niveles, NUM_DOSBUF_LEVELS
    <3>2. llamada'[a].pc = "mide" /\ llamada'[a].nivel = iLevel + 1
      BY <1>0, <1>5, <2>2 DEF Entra, Ociosa
    <3> QED
      BY <1>3, <2>1, <3>1, <3>2
  <2>3. CASE ~(iLevel + 1 < NUM_DOSBUF_LEVELS)
    <3>1. llamada'[a].pc = "vuelto" /\ llamada'[a].nivel = -1
      BY <1>0, <1>5, <2>3 DEF Entra, Ociosa
    <3> QED
      BY <1>2, <2>1, <3>1
  <2> QED
    BY <2>2, <2>3
<1>6. ASSUME Busca(a, f) PROVE Coloca(a)
  <2>1. Igual /\ f.manejador \in Manejadores
    BY <1>0, <1>6 DEF Busca, chain, Igual, Correcta
  <2>2. CASE f.manejador \in Range(cadena)
    <3>1. llamada'[a].pc = "llama"
      BY <1>0, <1>6, <2>2 DEF Busca, Ociosa
    <3> QED
      BY <1>1, <2>1, <3>1
  <2>3. CASE f.manejador \notin Range(cadena)
    <3>1. llamada' = [llamada EXCEPT ![a] =
            [Ociosa EXCEPT !.f = f, !.pc = "enlaza", !.prev = Len(cadena)]]
      BY <1>6, <2>3 DEF Busca
    <3>2. /\ llamada'[a].pc = "enlaza" /\ llamada'[a].nivel = -1
          /\ llamada'[a].f = f /\ llamada'[a].prev = Len(cadena)
      BY <1>0, <3>1 DEF Ociosa
    <3> QED
      BY <1>0, <2>1, <3>2 DEF Coloca, Lugar, Igual
  <2> QED
    BY <2>2, <2>3
<1>7. ASSUME Mide(a) PROVE Coloca(a)
  <2>1. Igual /\ llamada[a].nivel \in Niveles
    BY <1>0, <1>7 DEF Mide, En, chain, Igual, Lugar
  <2>2. CASE Va(a, "llama")
    BY <1>0, <1>1, <2>1, <2>2 DEF Va, Registro
  <2>3. CASE Va(a, "asigna")
    BY <1>0, <1>3, <2>1, <2>3 DEF Va, Registro
  <2>4. CASE NoHayBuffer(a)
    BY <1>0, <1>2, <2>1, <2>4 DEF NoHayBuffer, Vuelve, Registro
  <2> QED
    BY <1>7, <2>2, <2>3, <2>4 DEF Mide
<1>8. ASSUME Asigna(a) PROVE Coloca(a)
  <2>1. Igual
    BY <1>8 DEF Asigna, chain, Igual
  <2>2. CASE Va(a, "llama")
    BY <1>0, <1>1, <2>1, <2>2 DEF Va, Registro
  <2>3. CASE NoHayBuffer(a)
    BY <1>0, <1>2, <2>1, <2>3 DEF NoHayBuffer, Vuelve, Registro
  <2> QED
    BY <1>8, <2>2, <2>3 DEF Asigna
<1>9. ASSUME Enlaza(a) PROVE Coloca(a)
  <2>1. /\ llamada[a].prev \in Nat /\ llamada[a].prev <= Len(cadena)
        /\ a = "retro" => llamada[a].prev = Len(cadena)
        /\ llamada[a].pc = "enlaza"
    BY <1>0, <1>9 DEF Enlaza, En, Lugar, Registro, IInv, Forma
  <2>2. CASE Agrega(a) /\ Va(a, "llama")
    <3>1. Len(cadena') = llamada[a].prev + 1 /\ rmcb' = rmcb + 1
      <4>1. SubSeq(cadena, 1, llamada[a].prev) \in Seq(Manejadores)
        BY <1>0, <2>1
      <4>2. Len(SubSeq(cadena, 1, llamada[a].prev)) = llamada[a].prev
        BY <1>0, <2>1
      <4> QED
        BY <2>2, <4>1, <4>2 DEF dpmi_allocate_real_mode_callback_retf, Agrega
    <3>2. llamada'[a].pc = "llama"
      BY <1>0, <2>2 DEF Va
    <3> QED
      BY <1>0, <2>1, <3>1, <3>2 DEF Coloca, Lugar
  <2>3. CASE \E e \in {ERR_NO_MEM, ERR_ILLEGAL_OP} :
               Vuelve(a, e, "-1") /\ UNCHANGED chain
    <3>1. Igual /\ llamada'[a].pc = "vuelto" /\ llamada'[a].nivel = -1
      BY <1>0, <2>3 DEF Vuelve, chain, Igual
    <3> QED
      BY <1>2, <3>1
  <2> QED
    BY <1>9, <2>2, <2>3 DEF Enlaza
<1>10. ASSUME Llama(a) \/ Responde(a) PROVE Coloca(a)
  <2>1. Igual
    BY <1>10 DEF Llama, Responde, chain, Igual
  <2> QED
    BY <1>0, <1>1, <1>10, <2>1, AlNucleo
<1>11. ASSUME Sale(a) PROVE Coloca(a)
  <2>1. Igual /\ llamada'[a].pc = "vuelto" /\ llamada'[a].nivel = -1
    BY <1>0, <1>11 DEF Sale, chain, Igual
  <2> QED
    BY <1>2, <2>1
<1>12. ASSUME Usa(a) PROVE Coloca(a)
  <2>1. Igual /\ llamada'[a].pc = "fuera" /\ llamada'[a].nivel = -1
    BY <1>0, <1>12 DEF Usa, chain, Igual, Ociosa
  <2> QED
    BY <1>2, <2>1
<1> QED
  BY <1>4, <1>5, <1>6, <1>7, <1>8, <1>9, <1>10, <1>11, <1>12

LEMMA DeUnPaso ==
  ASSUME IInv, NEW a \in Actividades, Paso(a)
  PROVE  TypeOK' /\ Sola(a) /\ Nivela(a) /\ Coloca(a)
<1>1. \E f \in Funciones : TRUE
  BY DEF Funciones, PorRegistros
<1>2. CASE \E f \in Usadas : Empieza(a, f) \/ Entra(a, f) \/ Busca(a, f)
  BY <1>2, CapiAssumption, TiposDePaso, Pasos, Colocan
<1>3. CASE Mide(a) \/ Asigna(a) \/ Enlaza(a)
  BY <1>1, <1>3, TiposDePaso, Pasos, Colocan
<1>4. CASE Llama(a) \/ Responde(a) \/ Sale(a) \/ Usa(a)
  BY <1>1, <1>4, TiposDePaso, Pasos, Colocan
<1> QED
  BY <1>2, <1>3, <1>4 DEF Paso

(* The steps of the activities keep the invariant ...                      *)
LEMMA ConservaPaso ==
  ASSUME IInv, NEW a \in Actividades, Paso(a)
  PROVE  IInv'
<1>1. TypeOK' /\ Sola(a) /\ Nivela(a) /\ Coloca(a)
  BY DeUnPaso
<1>2. CASE a = "base"
  <2>1. /\ ~activa /\ ~activa'
        /\ llamada'["retro"] = llamada["retro"]
        /\ llamada["retro"].pc = "fuera" /\ llamada["retro"].nivel = -1
    BY <1>1, <1>2 DEF Sola, IInv, Forma, Lugar, Actividades
  <2>2. Forma'
    BY <1>1, <1>2, <2>1 DEF Coloca, Forma, Lugar, Actividades
  <2>3. /\ Ocupa("retro") = 0 /\ ~ConNivel("retro")
        /\ Ocupa("retro")' = 0 /\ ~ConNivel("retro")'
    BY <2>1 DEF Ocupa, ConNivel
  <2>4. NivelesEquilibrados'
    BY <1>1, <1>2, <2>3 DEF Nivela, IInv, NivelesEquilibrados, Ocupa
  <2> QED
    BY <1>1, <2>2, <2>4 DEF IInv
<1>3. CASE a = "retro"
  <2>1. activa' /\ llamada'["base"] = llamada["base"]
    BY <1>1, <1>3 DEF Sola, Actividades
  <2>2. /\ Len(cadena) \in Nat /\ Len(cadena') \in Nat
        /\ llamada["base"].prev \in Nat
        /\ iLevel \in Int
    <3>1. Len(cadena) \in Nat /\ Len(cadena') \in Nat
      BY SMTT(40), <1>1 DEF IInv, TypeOK
    <3>2. llamada["base"].prev \in Nat
      BY DEF IInv, TypeOK, Registro, Actividades
    <3>3. iLevel \in Int
      BY DEF IInv, TypeOK, Niveles, NUM_DOSBUF_LEVELS
    <3> QED
      BY <3>1, <3>2, <3>3
  <2>3. Lugar("base")'
    BY <1>1, <1>3, <2>1, <2>2 DEF Coloca, IInv, Forma, Lugar, Actividades
  <2>4. Forma'
    BY <1>1, <1>3, <2>1, <2>3 DEF Coloca, Forma, Actividades
  <2>5. Ocupa("base")' = Ocupa("base") /\ (ConNivel("base")' <=> ConNivel("base"))
    BY <2>1 DEF Ocupa, ConNivel
  <2>6. Ocupa("base") \in {0, 1}
    BY DEF Ocupa
  <2>7. NivelesEquilibrados'
    BY <1>1, <1>3, <2>1, <2>2, <2>5, <2>6
      DEF Nivela, IInv, NivelesEquilibrados, Ocupa
  <2> QED
    BY <1>1, <2>4, <2>7 DEF IInv
<1> QED
  BY <1>2, <1>3 DEF Actividades

(* ... and so do all the others.                                           *)
LEMMA Conserva ==
  ASSUME IInv, [Next]_vars
  PROVE  IInv'
<1> USE DEF IInv, Forma, Actividades
<1>1. CASE \E a \in Actividades : Paso(a)
  BY <1>1, ConservaPaso
<1>2. CASE Buffers
  <2>1. TypeOK'
    BY <1>2, TiposDelResto
  <2>2. /\ ~activa /\ ~activa' /\ iLevel' = iLevel /\ UNCHANGED chain
        /\ llamada'["retro"] = llamada["retro"]
        /\ ~ConNivel("base") /\ ~ConNivel("base")'
        /\ Lugar("base")'
    <3>1. ASSUME NEW l \in {0, 1}, NEW n \in Largos, Reserva(l, n)
          PROVE  <2>2!:
      <4>1. l \in Niveles
        BY DEF Niveles, NUM_DOSBUF_LEVELS
      <4>2. /\ ~activa /\ ~activa' /\ iLevel' = iLevel /\ UNCHANGED chain
            /\ llamada["base"].pc = "fuera" /\ llamada["base"].nivel = -1
            /\ llamada'["retro"] = llamada["retro"]
            /\ llamada'["base"].pc = "reserva" /\ llamada'["base"].nivel = l
        BY <3>1 DEF Reserva, En, Lugar, TypeOK, Registro
      <4> QED
        BY <4>1, <4>2 DEF Lugar, ConNivel
    <3>2. ASSUME FinReserva
          PROVE  <2>2!:
      <4>1. /\ ~activa /\ ~activa' /\ iLevel' = iLevel /\ UNCHANGED chain
            /\ llamada["base"].pc = "reserva"
            /\ llamada'["retro"] = llamada["retro"]
            /\ llamada'["base"].pc = "fuera" /\ llamada'["base"].nivel = -1
        BY <3>2 DEF FinReserva, En, TypeOK, Ociosa
      <4> QED
        BY <4>1 DEF Lugar, ConNivel
    <3>3. ASSUME NEW ls \in {{l} : l \in Niveles} \cup {Niveles}, DosBufFree(ls)
          PROVE  <2>2!:
      <4>1. /\ ~activa /\ ~activa' /\ iLevel' = iLevel /\ UNCHANGED chain
            /\ llamada["base"].pc = "fuera" /\ llamada["base"].nivel = -1
            /\ llamada' = llamada
        BY <3>3 DEF DosBufFree, En, Lugar
      <4> QED
        BY <4>1 DEF Lugar, ConNivel
    <3> QED
      BY <1>2, <3>1, <3>2, <3>3 DEF Buffers
  <2>3. Lugar("retro")' /\ ~ConNivel("retro") /\ ~ConNivel("retro")'
    BY <2>2 DEF Lugar, ConNivel, chain
  <2> QED
    BY <2>1, <2>2, <2>3 DEF NivelesEquilibrados, Ocupa, chain
<1>3. CASE FreeRealModeCallbacks
  <2>1. TypeOK'
    BY <1>3, TiposDelResto
  <2>2. /\ ~activa /\ ~activa' /\ iLevel' = iLevel /\ llamada' = llamada
        /\ llamada["base"].pc = "fuera" /\ llamada["retro"].pc = "fuera"
        /\ Len(cadena') = 0 /\ rmcb' \in Nat
    BY <1>3, <2>1, CapiAssumption DEF FreeRealModeCallbacks, En, TypeOK
  <2>3. Lugar("base")' /\ Lugar("retro")'
    BY <2>2 DEF Lugar
  <2>4. ConNivel("base")' <=> ConNivel("base")
    BY <2>2 DEF ConNivel
  <2>5. ConNivel("retro")' <=> ConNivel("retro")
    BY <2>2 DEF ConNivel
  <2> QED
    BY <2>1, <2>2, <2>3, <2>4, <2>5 DEF NivelesEquilibrados, Ocupa
<1>4. CASE Interrumpe \/ Termina
  <2>1. TypeOK'
    BY <1>4, TiposDelResto
  <2>2. /\ iLevel' = iLevel /\ llamada' = llamada /\ UNCHANGED chain
        /\ ~activa' => llamada["retro"].pc = "fuera"
    BY <1>4 DEF Interrumpe, Termina, En
  <2>3. \A a \in Actividades : Lugar(a)' /\ (ConNivel(a)' <=> ConNivel(a))
    BY <2>2 DEF Lugar, ConNivel, chain
  <2> QED
    BY <2>1, <2>2, <2>3 DEF NivelesEquilibrados, Ocupa, chain
<1>5. CASE UNCHANGED vars
  BY <1>5 DEF vars, fijo, nucleo, memoria, chain, TypeOK, Lugar, ConNivel,
    NivelesEquilibrados, Ocupa
<1> QED
  BY <1>1, <1>2, <1>3, <1>4, <1>5 DEF Next

THEOREM Invariante == Spec => []IInv
  BY Inicial, Conserva, PTL DEF Spec

(* The types of the library's state.                                       *)
THEOREM TipoCorrecto == Spec => []TypeOK
  BY Invariante, PTL DEF IInv

(* However the calls of the main line and of the handler break in on each  *)
(* other and fail, iLevel counts the calls that hold a level of the        *)
(* transfer buffer, and each has its own.                                  *)
THEOREM SiempreEquilibrados == Spec => []NivelesEquilibrados
  BY Invariante, PTL DEF IInv
-----------------------------------------------------------------------------
(***************************************************************************)
(* The error number of a call.                                             *)
(***************************************************************************)
LEMMA Honestas == \A f \in Funciones : f.sinMem = f.error \/ f \in Confunden
<1>1. \A n : Con(n, "-1", "-1").sinMem = Con(n, "-1", "-1").error
  BY DEF Con
<1>2. \A f \in PorRegistros : f.sinMem = f.error
  BY DEF PorRegistros, Con, Sin, GetSocketsVersion, DisableAsyncNotification,
    EnableAsyncNotification, IsSocket, GetDCSocket, GetSocket, GetVersion,
    ConvertDCSocket, EofSocket, FlushSocket, ReleaseSocket, ReleaseDCSockets,
    AbortSocket, AbortDCSockets, ShutDownNet, GetAddress, ICMPPing,
    SetSocketOption, ArpConsulta, ProprietaryApi
<1>3. \A f \in PorEstructura : f.sinMem = f.error \/ f = ICMPPingEx
  BY <1>1 DEF PorEstructura, GetAddressCommon, GetAddressEx, GetPeerAddress,
    GetPeerAddressEx, GetKernelConfig, GetNetInfo,
    ConnectSocket, ListenSocket, ListenAcceptSocket, AcceptSocket, SelectSocket,
    JoinGroup, LeaveGroup, JoinGroupEx, LeaveGroupEx, ArpAgrega, RouteCommon,
    RouteAdd, RouteChange, RouteDrop
<1>4. ASSUME NEW n \in Largos, NEW f \in PorLargo(n)
      PROVE  \/ f.sinMem = f.error
             \/ f \in {GetAddressInfo(n), ResolveName(n), ParseAddress(n)}
  BY <1>1, <1>4 DEF PorLargo, GetKernelInformation, ReadSocket, ReadFromSocket,
    WriteSocket, WriteToSocket, IfaceIOCTL, ConfigCommand
<1>5. \A f \in PorLargos : f.sinMem = f.error \/ f \in Confunden
  BY <1>4 DEF PorLargos, Confunden
<1>6. \A f \in ConManejador : f.sinMem = f.error
  <2>1. \A h : SetAlarm(h).sinMem = SetAlarm(h).error
    BY DEF SetAlarm, Con, Sin
  <2> QED
    BY <2>1 DEF ConManejador, SetAsyncNotification
<1> QED
  BY <1>2, <1>3, <1>5, <1>6 DEF Funciones, Confunden

(* An error a call may leave with its result.                              *)
Honesto(c) ==
  c.ret = c.f.error \/ (c.f \in Confunden /\ c.propio = ERR_NO_MEM)

(* The error number of the call is in iNetErrNo while its activity runs,   *)
(* and in iSaveNetErrNo while the handler interrupts it.                   *)
IErrores ==
  /\ \A a \in Actividades :
       llamada[a].propio # 0 =>
         llamada[a].pc \in {"sale", "vuelto"} /\ Honesto(llamada[a])
  /\ llamada["retro"].propio # 0 => iNetErrNo = llamada["retro"].propio
  /\ ~dpmi /\ llamada["base"].propio # 0 =>
       llamada["base"].propio = IF activa THEN iSaveNetErrNo ELSE iNetErrNo

(* What a step does to the error of its own call: there is none, it goes   *)
(* on with it, or it meets it.                                             *)
Declara(a) ==
  \/ llamada'[a].propio = 0
  \/ /\ llamada'[a].propio = llamada[a].propio /\ llamada'[a].pc = "vuelto"
     /\ llamada'[a].ret = llamada[a].ret /\ llamada'[a].f = llamada[a].f
     /\ iNetErrNo' = iNetErrNo
  \/ /\ llamada'[a].pc \in {"sale", "vuelto"} /\ Honesto(llamada'[a])
     /\ iNetErrNo' = llamada'[a].propio

LEMMA Declaran ==
  ASSUME IInv, IErrores, NEW a \in Actividades, Paso(a)
  PROVE  Declara(a)
<1>0. /\ llamada \in [Actividades -> Registro]
      /\ llamada[a] \in Registro /\ llamada[a].f \in Funciones
  BY DEF IInv, TypeOK, Registro
<1>1. ASSUME NEW pc \in Pcs, Va(a, pc), llamada[a].pc \notin {"sale", "vuelto"}
      PROVE  Declara(a)
  BY <1>0, <1>1 DEF Va, Registro, IErrores, Declara
<1>2. ASSUME NEW f \in Usadas, Empieza(a, f) \/ Busca(a, f)
      PROVE  Declara(a)
  <2>1. llamada'[a].propio = 0
    BY <1>0, <1>2 DEF Empieza, Busca, Ociosa
  <2> QED
    BY <2>1 DEF Declara
<1>3. ASSUME NEW f \in Usadas, Entra(a, f)
      PROVE  Declara(a)
  <2>1. f.sinMem = f.error \/ f \in Confunden
    BY CapiAssumption, Honestas
  <2>2. CASE iLevel + 1 < NUM_DOSBUF_LEVELS
    <3>1. llamada' = [llamada EXCEPT ![a] =
            [Ociosa EXCEPT !.f = f, !.pc = "mide", !.nivel = iLevel + 1]]
      BY <1>3, <2>2 DEF Entra
    <3>2. llamada'[a].propio = 0
      BY <1>0, <3>1 DEF Ociosa
    <3> QED
      BY <3>2 DEF Declara
  <2>3. CASE ~(iLevel + 1 < NUM_DOSBUF_LEVELS)
    <3>1. /\ iNetErrNo' = ERR_NO_MEM
          /\ llamada' = [llamada EXCEPT ![a] =
               [Ociosa EXCEPT !.f = f, !.pc = "vuelto", !.propio = ERR_NO_MEM,
                              !.ret = f.sinMem]]
      BY <1>3, <2>3 DEF Entra
    <3>2. /\ llamada'[a].pc = "vuelto" /\ llamada'[a].propio = ERR_NO_MEM
          /\ llamada'[a].ret = f.sinMem /\ llamada'[a].f = f
      BY <1>0, <3>1 DEF Ociosa
    <3> QED
      BY <2>1, <3>1, <3>2 DEF Declara, Honesto
  <2> QED
    BY <2>2, <2>3
<1>4. ASSUME NoHayBuffer(a) PROVE Declara(a)
  <2>1. /\ llamada'[a].pc = "vuelto" /\ llamada'[a].propio = ERR_NO_MEM
        /\ llamada'[a].ret = llamada[a].f.sinMem /\ llamada'[a].f = llamada[a].f
        /\ iNetErrNo' = ERR_NO_MEM
    BY <1>0, <1>4 DEF NoHayBuffer, Vuelve, Registro
  <2> QED
    BY <1>0, <2>1, Honestas DEF Declara, Honesto
<1>5. ASSUME Mide(a) \/ Asigna(a) PROVE Declara(a)
  <2>1. \/ NoHayBuffer(a)
        \/ (Va(a, "llama") \/ Va(a, "asigna")) /\ llamada[a].pc \in {"mide", "asigna"}
    BY <1>5 DEF Mide, Asigna, En
  <2> QED
    BY <1>1, <1>4, <2>1 DEF Pcs
<1>6. ASSUME Enlaza(a) PROVE Declara(a)
  <2>1. llamada[a].pc = "enlaza" /\ llamada[a].f.error = "-1"
    BY <1>0, <1>6, Correctas, CapiAssumption
      DEF Enlaza, En, IInv, Forma, Lugar, Correcta
  <2>2. CASE Va(a, "llama")
    BY <1>1, <2>1, <2>2 DEF Pcs
  <2>3. CASE \E e \in {ERR_NO_MEM, ERR_ILLEGAL_OP} : Vuelve(a, e, "-1")
    <3>1. /\ llamada'[a].pc = "vuelto" /\ llamada'[a].ret = llamada'[a].f.error
          /\ iNetErrNo' = llamada'[a].propio
      BY <1>0, <2>1, <2>3 DEF Vuelve, Registro
    <3> QED
      BY <3>1 DEF Declara, Honesto
  <2> QED
    BY <1>6, <2>2, <2>3 DEF Enlaza
<1>7. ASSUME Llama(a) \/ Responde(a) PROVE Declara(a)
  <2>1. llamada[a].pc \in {"llama", "nucleo"}
    BY <1>7 DEF Llama, Responde, En
  <2>2. CASE Va(a, "nucleo") \/ Va(a, "sale")
    BY <1>1, <2>1, <2>2 DEF Pcs
  <2>3. ASSUME NEW e, iNetErrNo' = e,
               llamada' = [llamada EXCEPT ![a].pc = "sale", ![a].propio = e,
                                          ![a].ret = llamada[a].f.error]
        PROVE  Declara(a)
    <3>1. /\ llamada'[a].pc = "sale" /\ llamada'[a].ret = llamada'[a].f.error
          /\ iNetErrNo' = llamada'[a].propio
      BY <1>0, <2>3 DEF Registro
    <3> QED
      BY <3>1 DEF Declara, Honesto
  <2> QED
    BY <1>7, <2>2, <2>3 DEF Llama, Responde
<1>8. ASSUME Sale(a) PROVE Declara(a)
  BY <1>0, <1>8 DEF Sale, Declara, Registro
<1>9. ASSUME Usa(a) PROVE Declara(a)
  <2>1. llamada'[a].propio = 0
    BY <1>0, <1>9 DEF Usa, Ociosa
  <2> QED
    BY <2>1 DEF Declara
<1> QED
  BY <1>2, <1>3, <1>5, <1>6, <1>7, <1>8, <1>9 DEF Paso

LEMMA ConservaErrores ==
  ASSUME IInv, IErrores, [Next]_vars
  PROVE  IErrores'
<1> USE DEF Actividades
<1>1. ASSUME NEW a \in Actividades, Paso(a) PROVE IErrores'
  <2>1. Sola(a) /\ Declara(a)
    BY <1>1, DeUnPaso, Declaran
  <2>2. dpmi' = dpmi /\ iSaveNetErrNo' = iSaveNetErrNo
    BY <1>1 DEF Paso, Empieza, Entra, Busca, Mide, Asigna, Enlaza, Llama,
      Responde, Sale, Usa, fijo
  <2>3. /\ llamada'[a].propio # 0 =>
             llamada'[a].pc \in {"sale", "vuelto"} /\ Honesto(llamada'[a])
    BY <2>1 DEF Declara, IErrores, Honesto
  <2>4. CASE a = "base"
    <3>1. llamada["retro"].pc = "fuera"
      BY <2>1, <2>4 DEF Sola, IInv, Forma
    <3>2. llamada'["retro"].propio = 0
      BY <2>1, <2>4, <3>1 DEF Sola, IErrores
    <3> QED
      BY <2>1, <2>2, <2>3, <2>4, <3>2 DEF Sola, Declara, IErrores
  <2>5. CASE a = "retro"
    BY <2>1, <2>2, <2>3, <2>5 DEF Sola, Declara, IErrores
  <2> QED
    BY <2>4, <2>5
<1>2. CASE Buffers \/ FreeRealModeCallbacks
  <2>1. llamada["base"].propio = 0 /\ llamada["retro"].propio = 0
    BY <1>2 DEF Buffers, Reserva, FinReserva, DosBufFree, FreeRealModeCallbacks,
      En, IErrores, IInv, Forma
  <2>2. llamada'["base"].propio = 0 /\ llamada'["retro"].propio = 0
    <3>1. CASE llamada' = llamada
      BY <2>1, <3>1
    <3>2. ASSUME NEW l, llamada' = [llamada EXCEPT !["base"].pc = "reserva",
                                                   !["base"].nivel = l]
          PROVE  <2>2!:
      BY <2>1, <3>2 DEF IInv, TypeOK, Registro
    <3>3. CASE llamada' = [llamada EXCEPT !["base"] = Ociosa]
      BY <2>1, <3>3 DEF IInv, TypeOK, Ociosa
    <3> QED
      BY <1>2, <3>1, <3>2, <3>3
        DEF Buffers, Reserva, FinReserva, DosBufFree, FreeRealModeCallbacks
  <2> QED
    BY <2>2 DEF IErrores
<1>3. CASE Interrumpe
  <2>1. llamada["retro"].pc = "fuera" /\ llamada' = llamada /\ ~activa /\ activa'
    BY <1>3 DEF Interrumpe, IInv, Forma
  <2>2. llamada["retro"].propio = 0
    BY <2>1 DEF IErrores
  <2>3. dpmi' = dpmi /\ (~dpmi => iSaveNetErrNo' = iNetErrNo)
    BY <1>3 DEF Interrumpe, fijo
  <2> QED
    BY <2>1, <2>2, <2>3 DEF IErrores
<1>4. CASE Termina
  <2>1. /\ llamada["retro"].pc = "fuera" /\ llamada' = llamada
        /\ activa /\ ~activa' /\ dpmi' = dpmi /\ iNetErrNo' = iSaveNetErrNo
    BY <1>4 DEF Termina, En, fijo
  <2>2. llamada["retro"].propio = 0
    BY <2>1 DEF IErrores
  <2> QED
    BY <2>1, <2>2 DEF IErrores
<1>5. CASE UNCHANGED vars
  BY <1>5 DEF vars, fijo, IErrores
<1> QED
  BY <1>1, <1>2, <1>3, <1>4, <1>5 DEF Next

LEMMA ErroresIniciales == Init => IErrores
  BY DEF Init, IErrores, Ociosa, Actividades

(* The caller of the real-mode build, and the handler of both, finds the   *)
(* error number of its own call, whatever the other called meanwhile.      *)
THEOREM SiempreErrorPropio == Spec => []ErrorPropio
<1>1. IInv /\ IErrores => ErrorPropio
  BY DEF IErrores, ErrorPropio, En, Actividades
<1>2. Spec => []IErrores
  BY ErroresIniciales, Invariante, ConservaErrores, PTL DEF Spec
<1> QED
  BY <1>1, <1>2, Invariante, PTL

(* No call that failed says it did not, but the four of Confunden.         *)
THEOREM SiempreSinExitoFalso == Spec => []SinExitoFalso
<1>1. IErrores => SinExitoFalso
  BY DEF IErrores, SinExitoFalso, Honesto
<1>2. Spec => []IErrores
  BY ErroresIniciales, Invariante, ConservaErrores, PTL DEF Spec
<1> QED
  BY <1>1, <1>2, PTL
-----------------------------------------------------------------------------
(***************************************************************************)
(* The blocks of the transfer buffer.                                      *)
(***************************************************************************)
(* What aiAvail says of a level whose block was not lost is there.         *)
Vivo == \A l \in Niveles \ perdido : aiAvail[l] <= bloque[l]

(* DOS is asked for enough; a call past that has enough.                   *)
Pedido(a) ==
  llamada[a].pc = "asigna" => llamada[a].f.pide <= size[llamada[a].nivel]

Presta(a) ==
  /\ ConNivel(a) /\ llamada[a].pc \in {"llama", "nucleo", "sale"}
  /\ llamada[a].nivel \notin perdido
  => llamada[a].f.pide <= bloque[llamada[a].nivel]

IBloques == Vivo /\ \A a \in Actividades : Pedido(a) /\ Presta(a)

(* The running activity's level is iLevel, and no other call has it.       *)
LEMMA NivelMio ==
  ASSUME IInv, NEW a \in Actividades, activa = (a = "retro"), ConNivel(a)
  PROVE  /\ llamada[a].nivel = iLevel /\ iLevel \in Niveles
         /\ \A b \in Actividades \ {a} :
              ConNivel(b) => llamada[b].nivel # iLevel /\ iLevel > 0
<1> USE DEF Actividades
<1>1. iLevel \in Niveles
  BY ConNivelCuenta
<1>2. CASE a = "base"
  <2>1. llamada["retro"].nivel = -1
    BY <1>2 DEF IInv, Forma, Lugar
  <2>2. ~ConNivel("retro") /\ Ocupa("retro") = 0 /\ Ocupa("base") = 1
    BY <1>2, <2>1 DEF ConNivel, Ocupa
  <2> QED
    BY <1>1, <1>2, <2>2 DEF IInv, NivelesEquilibrados
<1>3. CASE a = "retro"
  <2>1. Ocupa("retro") = 1 /\ (ConNivel("base") => Ocupa("base") = 1)
    BY <1>3 DEF Ocupa
  <2> QED
    BY <1>1, <1>3, <2>1 DEF IInv, NivelesEquilibrados
<1> QED
  BY <1>2, <1>3

(* What moves the block of a level leaves the others alone, and aiAvail    *)
(* true where it was.                                                      *)
Salvo(l) ==
  \A k \in Niveles \ {l} :
    /\ size'[k] = size[k] /\ bloque'[k] = bloque[k]
    /\ k \in perdido' <=> k \in perdido

LEMMA MuevenBloques ==
  ASSUME TypeOK, Vivo, NEW l \in Niveles, NEW n \in Nat
  PROVE  /\ Libera(l, n) => Vivo' /\ Salvo(l) /\ n <= size'[l]
         /\ Obtiene(l) => Vivo' /\ Salvo(l) /\ bloque'[l] = size[l]
         /\ NoObtiene(l) => Vivo' /\ Salvo(l)
<1>0. /\ aiAvail \in [Niveles -> Nat] /\ size \in [Niveles -> Nat]
      /\ bloque \in [Niveles -> Nat]
  BY DEF TypeOK
<1>1. ASSUME Libera(l, n) PROVE Vivo' /\ Salvo(l) /\ n <= size'[l]
  <2>1. n <= size'[l] /\ aiAvail' = aiAvail
    BY <1>0, <1>1, Redondeado DEF Libera
  <2>2. Salvo(l)
    BY <1>0, <1>1 DEF dpmi_free_dos_memory, ConBloque, Libera, Salvo
  <2>3. l \notin perdido' => l \notin perdido /\ bloque'[l] = bloque[l]
    BY <1>1 DEF dpmi_free_dos_memory, ConBloque, Libera
  <2>4. \A k \in Niveles \ perdido' : k \notin perdido /\ bloque'[k] = bloque[k]
    BY <2>2, <2>3 DEF Salvo
  <2> QED
    BY <2>1, <2>2, <2>4 DEF Vivo
<1>2. ASSUME Obtiene(l) PROVE Vivo' /\ Salvo(l) /\ bloque'[l] = size[l]
  <2>1. aiAvail'[l] = size[l] /\ bloque'[l] = size[l] /\ size[l] \in Nat
    BY <1>0, <1>2 DEF Obtiene
  <2>2. Salvo(l) /\ \A k \in Niveles \ {l} : aiAvail'[k] = aiAvail[k]
    BY <1>0, <1>2 DEF Obtiene, Salvo
  <2> QED
    BY <2>1, <2>2 DEF Vivo, Salvo
<1>3. ASSUME NoObtiene(l) PROVE Vivo' /\ Salvo(l)
  BY <1>0, <1>3 DEF NoObtiene, Vivo, Salvo
<1> QED
  BY <1>1, <1>2, <1>3

(* The program arranges its blocks when no call is under way.              *)
LEMMA BuffersEnCalma ==
  ASSUME IInv, Buffers
  PROVE  /\ llamada'["retro"].pc = "fuera"
         /\ llamada'["base"].pc \in {"fuera", "reserva"}
<1> USE DEF Actividades, En
<1>0. llamada \in [Actividades -> Registro]
  BY DEF IInv, TypeOK
<1>1. ~activa /\ llamada["retro"].pc = "fuera"
  BY DEF Buffers, Reserva, FinReserva, DosBufFree, IInv, Forma
<1>2. CASE \E l \in {0, 1}, n \in Largos : Reserva(l, n)
  BY <1>0, <1>1, <1>2 DEF Reserva, Registro
<1>3. CASE FinReserva
  BY <1>0, <1>1, <1>3 DEF FinReserva, Ociosa
<1>4. CASE \E ls \in {{l} : l \in Niveles} \cup {Niveles} : DosBufFree(ls)
  BY <1>1, <1>4 DEF DosBufFree
<1> QED
  BY <1>2, <1>3, <1>4 DEF Buffers

LEMMA ConservaBloques ==
  ASSUME IInv, IBloques, [Next]_vars
  PROVE  IBloques'
<1>0. /\ TypeOK /\ Vivo
      /\ llamada \in [Actividades -> Registro]
      /\ \A a \in Actividades : llamada[a].f.pide \in Nat
  BY Correctas DEF IInv, IBloques, TypeOK, Registro, Correcta
<1>1. ASSUME NEW a \in Actividades, Sola(a), UNCHANGED memoria,
             llamada'[a].pc # "asigna", Presta(a)'
      PROVE  IBloques'
  BY <1>1 DEF IBloques, Sola, Vivo, Pedido, Presta, ConNivel, memoria
<1>2. ASSUME NEW a \in Actividades, NEW f \in Usadas,
             Empieza(a, f) \/ Entra(a, f) \/ Busca(a, f)
      PROVE  IBloques'
  <2>1. /\ llamada'[a].pc # "asigna"
        /\ llamada'[a].pc \in {"llama", "nucleo", "sale"} => llamada'[a].nivel = -1
    <3>1. CASE Empieza(a, f) \/ Busca(a, f)
      BY ZenonT(60), <1>0, <1>2, <3>1 DEF Empieza, Busca, Ociosa
    <3>2. CASE Entra(a, f)
      <4>1. CASE llamada' = [llamada EXCEPT ![a] =
                   [Ociosa EXCEPT !.f = f, !.pc = "mide", !.nivel = iLevel + 1]]
        BY <1>0, <4>1 DEF Ociosa
      <4>2. CASE llamada' = [llamada EXCEPT ![a] =
                   [Ociosa EXCEPT !.f = f, !.pc = "vuelto", !.propio = ERR_NO_MEM,
                                  !.ret = f.sinMem]]
        BY <1>0, <4>2 DEF Ociosa
      <4> QED
        BY <3>2, <4>1, <4>2 DEF Entra
    <3> QED
      BY <1>2, <3>1, <3>2
  <2>2. Sola(a) /\ UNCHANGED memoria
    BY <1>2, CapiAssumption, Pasos DEF Empieza, Entra, Busca
  <2>3. Presta(a)'
    BY <2>1 DEF Presta, ConNivel
  <2> QED
    BY <1>1, <2>1, <2>2, <2>3
<1>3. ASSUME NEW a \in Actividades, Paso(a),
             Llama(a) \/ Responde(a) \/ Sale(a) \/ Usa(a) \/ Enlaza(a)
      PROVE  IBloques'
  <2>1. Sola(a) /\ UNCHANGED memoria
    BY <1>3, DeUnPaso DEF Llama, Responde, Sale, Usa, Enlaza
  <2>2. CASE Llama(a) \/ Responde(a)
    <3>1. Presta(a)' /\ llamada'[a].pc # "asigna"
      BY <1>0, <2>1, <2>2, AlNucleo
        DEF Presta, ConNivel, memoria, IBloques, Llama, Responde, En
    <3> QED
      BY <1>1, <2>1, <3>1
  <2>3. CASE Sale(a) \/ Usa(a)
    <3>1. llamada'[a].pc \in {"vuelto", "fuera"}
      <4>1. CASE Sale(a)
        BY <1>0, <4>1 DEF Sale
      <4>2. CASE Usa(a)
        BY <1>0, <4>2 DEF Usa, Ociosa
      <4> QED
        BY <2>3, <4>1, <4>2
    <3> QED
      BY <1>1, <2>1, <3>1 DEF Presta
  <2>4. CASE Enlaza(a)
    <3>1. llamada'[a].pc \in {"vuelto", "llama"} /\ llamada'[a].nivel = -1
      BY <1>0, <2>4 DEF Enlaza, En, Va, Vuelve, IInv, Forma, Lugar, Registro
    <3> QED
      BY <1>1, <2>1, <3>1 DEF Presta, ConNivel
  <2> QED
    BY <1>3, <2>2, <2>3, <2>4
<1>4. ASSUME NEW a \in Actividades, Mide(a)
      PROVE  IBloques'
  <2>1. Sola(a) /\ ConNivel(a) /\ activa = (a = "retro")
    BY <1>4, DeUnPaso, NivelPropio DEF Paso, Sola, Mide, En
  <2>2. /\ llamada[a].nivel = iLevel /\ iLevel \in Niveles
        /\ \A b \in Actividades \ {a} :
             ConNivel(b) => llamada[b].nivel # iLevel /\ iLevel > 0
    BY <2>1, NivelMio
  <2>3. CASE Alcanza(a) /\ Va(a, "llama") /\ UNCHANGED memoria
    <3>1. /\ llamada'[a].pc = "llama" /\ llamada'[a].nivel = iLevel
          /\ llamada'[a].f = llamada[a].f
      BY <1>0, <2>2, <2>3 DEF Va, Registro
    <3>2. /\ iLevel \notin perdido => aiAvail[iLevel] <= bloque[iLevel]
          /\ aiAvail[iLevel] \in Nat /\ bloque[iLevel] \in Nat
      BY <1>0, <2>2 DEF Vivo, TypeOK
    <3>3. Presta(a)'
      BY <1>0, <2>3, <3>1, <3>2 DEF Presta, Alcanza, memoria
    <3> QED
      BY <1>1, <2>1, <2>3, <3>1, <3>3
  <2>4. CASE NoHayBuffer(a) /\ UNCHANGED memoria
    <3>1. llamada'[a].pc = "vuelto"
      BY <1>0, <2>4 DEF NoHayBuffer, Vuelve, Registro
    <3> QED
      BY <1>1, <2>1, <2>4, <3>1 DEF Presta
  <2>5. CASE ~Alcanza(a) /\ iLevel <= 0 /\ Libera(iLevel, llamada[a].f.pide)
             /\ Va(a, "asigna")
    <3>1. Vivo' /\ llamada[a].f.pide <= size'[iLevel]
      BY <1>0, <2>2, <2>5, MuevenBloques
    <3>2. /\ llamada'[a].pc = "asigna" /\ llamada'[a].nivel = iLevel
          /\ llamada'[a].f = llamada[a].f
      BY <1>0, <2>2, <2>5 DEF Va, Registro
    <3>3. ASSUME NEW b \in Actividades \ {a}
          PROVE  Pedido(b)' /\ Presta(b)'
      <4>1. llamada'[b] = llamada[b] /\ ~ConNivel(b)
        BY <2>1, <2>2, <2>5 DEF Sola, Niveles, NUM_DOSBUF_LEVELS
      <4>2. llamada[b].pc # "asigna"
        BY <4>1, NivelPropio
      <4> QED
        BY <4>1, <4>2 DEF Pedido, Presta, ConNivel
    <3> QED
      BY <3>1, <3>2, <3>3 DEF IBloques, Pedido, Presta
  <2> QED
    BY <1>4, <2>3, <2>4, <2>5 DEF Mide
<1>5. ASSUME NEW a \in Actividades, Asigna(a)
      PROVE  IBloques'
  <2>1. Sola(a) /\ ConNivel(a) /\ activa = (a = "retro")
    BY <1>5, DeUnPaso, NivelPropio DEF Paso, Sola, Asigna, En
  <2>2. /\ llamada[a].nivel = iLevel /\ iLevel \in Niveles
        /\ llamada[a].f.pide <= size[iLevel]
        /\ \A b \in Actividades \ {a} :
             ConNivel(b) => llamada[b].nivel # iLevel
    BY <1>5, <2>1, NivelMio DEF Asigna, En, IBloques, Pedido
  <2>3. Vivo' /\ Salvo(iLevel)
    BY <1>0, <1>5, <2>2, MuevenBloques DEF Asigna
  <2>4. ASSUME NEW b \in Actividades \ {a}
        PROVE  Pedido(b)' /\ Presta(b)'
    <3>1. llamada'[b] = llamada[b] /\ Pedido(b) /\ Presta(b)
      BY <2>1 DEF Sola, IBloques
    <3>2. ConNivel(b) => llamada[b].nivel \in Niveles \ {iLevel}
      BY <1>0, <2>2 DEF ConNivel, Registro, Niveles, NUM_DOSBUF_LEVELS
    <3>3. llamada[b].pc = "asigna" => ConNivel(b)
      BY NivelPropio
    <3> QED
      BY <2>3, <3>1, <3>2, <3>3 DEF Pedido, Presta, ConNivel, Salvo
  <2>5. Pedido(a)' /\ Presta(a)'
    <3>1. CASE Obtiene(llamada[a].nivel) /\ Va(a, "llama")
      <4>1. bloque'[iLevel] = size[iLevel]
        BY <1>0, <2>2, <3>1, MuevenBloques
      <4>2. /\ llamada'[a].pc = "llama" /\ llamada'[a].nivel = iLevel
            /\ llamada'[a].f = llamada[a].f
        BY <1>0, <2>2, <3>1 DEF Va, Registro
      <4> QED
        BY <2>2, <4>1, <4>2 DEF Pedido, Presta
    <3>2. CASE NoHayBuffer(a)
      <4>1. llamada'[a].pc = "vuelto"
        BY <1>0, <3>2 DEF NoHayBuffer, Vuelve, Registro
      <4> QED
        BY <4>1 DEF Pedido, Presta
    <3> QED
      BY <1>5, <3>1, <3>2 DEF Asigna
  <2> QED
    BY <2>3, <2>4, <2>5 DEF IBloques
<1>6. CASE \E a \in Actividades : Paso(a)
  <2>1. PICK a \in Actividades : Paso(a)
    BY <1>6
  <2> QED
    BY <1>2, <1>3, <1>4, <1>5, <2>1 DEF Paso
<1>7. CASE Buffers
  <2>1. /\ llamada'["retro"].pc = "fuera"
        /\ llamada'["base"].pc \in {"fuera", "reserva"}
    BY <1>7, BuffersEnCalma
  <2>2. Vivo'
    <3>1. ASSUME NEW l \in {0, 1}, NEW n \in Largos, Reserva(l, n) PROVE Vivo'
      <4>1. l \in Niveles /\ n \in Nat
        BY CapiAssumption DEF Niveles, NUM_DOSBUF_LEVELS
      <4> QED
        BY <1>0, <3>1, <4>1, MuevenBloques DEF Reserva
    <3>2. ASSUME FinReserva PROVE Vivo'
      <4>1. llamada["base"].nivel \in Niveles
        BY <3>2 DEF FinReserva, En, IInv, Forma, Lugar, Actividades
      <4> QED
        BY <1>0, <3>2, <4>1, MuevenBloques DEF FinReserva
    <3>3. ASSUME NEW ls \in {{l} : l \in Niveles} \cup {Niveles}, DosBufFree(ls)
          PROVE  Vivo'
      <4>1. /\ aiAvail' = aiAvail
            /\ \A l \in Niveles \ perdido' :
                 l \notin perdido /\ bloque'[l] = bloque[l]
        BY <1>0, <3>3 DEF dpmi_free_dos_memory, ConBloque, DosBufFree, TypeOK
      <4> QED
        BY <1>0, <4>1 DEF Vivo
    <3> QED
      BY <1>7, <3>1, <3>2, <3>3 DEF Buffers
  <2> QED
    BY <2>1, <2>2 DEF IBloques, Pedido, Presta, Actividades
<1>8. CASE FreeRealModeCallbacks \/ Interrumpe \/ Termina \/ UNCHANGED vars
  <2>1. llamada' = llamada /\ UNCHANGED memoria
    BY <1>8 DEF FreeRealModeCallbacks, Interrumpe, Termina, vars, memoria
  <2> QED
    BY <2>1 DEF IBloques, Vivo, Pedido, Presta, ConNivel, memoria
<1> QED
  BY <1>6, <1>7, <1>8 DEF Next

LEMMA BloquesIniciales == Init => IBloques
  BY DEF Init, IBloques, Vivo, Pedido, Presta, Ociosa

(* A call moves its data through a block DOS has given and not taken back, *)
(* large enough for all of it, unless the level lost its block.            *)
THEOREM SiempreBloqueVivo == Spec => []BloqueVivo
<1>1. IBloques => BloqueVivo
  BY DEF IBloques, Presta, BloqueVivo
<1>2. Spec => []IBloques
  BY BloquesIniciales, Invariante, ConservaBloques, PTL DEF Spec
<1> QED
  BY <1>1, <1>2, PTL
-----------------------------------------------------------------------------
(***************************************************************************)
(* The chain of real-mode callbacks.                                       *)
(***************************************************************************)
(* Without a race, a call about to link has found the end of the chain,    *)
(* and its handler is not in it.                                           *)
Enlazable(a) ==
  llamada[a].pc = "enlaza" =>
    llamada[a].prev = Len(cadena) /\ llamada[a].f.manejador \notin Range(cadena)

ICadena == ~carrera => /\ rmcb = Len(cadena) /\ IsInjective(cadena)
                       /\ \A a \in Actividades : Enlazable(a)

LEMMA AgregaUno ==
  ASSUME NEW S, NEW s \in Seq(S), NEW x \in S, x \notin Range(s), IsInjective(s)
  PROVE  /\ IsInjective(Append(SubSeq(s, 1, Len(s)), x))
         /\ Len(Append(SubSeq(s, 1, Len(s)), x)) = Len(s) + 1
<1>1. SubSeq(s, 1, Len(s)) = s
  OBVIOUS
<1> DEFINE t == Append(s, x)
<1>2. /\ t \in Seq(S) /\ Len(t) = Len(s) + 1 /\ t[Len(s) + 1] = x
      /\ \A i \in 1 .. Len(s) : t[i] = s[i]
  OBVIOUS
<1>3. \A i \in 1 .. Len(s) : s[i] # x
  BY DEF Range
<1>4. ASSUME NEW i \in DOMAIN t, NEW j \in DOMAIN t, t[i] = t[j]
      PROVE  i = j
  <2>1. /\ i \in 1 .. Len(s) \/ i = Len(s) + 1
        /\ j \in 1 .. Len(s) \/ j = Len(s) + 1
    BY <1>2
  <2> QED
    BY <1>2, <1>3, <1>4, <2>1 DEF IsInjective
<1> HIDE DEF t
<1>5. IsInjective(t)
  BY <1>4 DEF IsInjective
<1> QED
  BY <1>1, <1>2, <1>5 DEF t

LEMMA ConservaCadena ==
  ASSUME IInv, ICadena, [Next]_vars
  PROVE  ICadena'
<1>0. /\ llamada \in [Actividades -> Registro]
      /\ cadena \in Seq(Manejadores) /\ rmcb \in Nat
  BY CapiAssumption DEF IInv, TypeOK
<1>1. ASSUME NEW a \in Actividades, Sola(a), UNCHANGED chain, Enlazable(a)'
      PROVE  ICadena'
  BY <1>1 DEF ICadena, Sola, Enlazable, chain
<1>2. ASSUME NEW a \in Actividades, NEW f \in Usadas, Busca(a, f)
      PROVE  ICadena'
  <2>1. Sola(a) /\ UNCHANGED chain
    BY <1>2, CapiAssumption, Pasos DEF Busca
  <2>2. CASE f.manejador \in Range(cadena)
    <3>1. llamada'[a].pc = "llama"
      BY <1>0, <1>2, <2>2 DEF Busca, Ociosa
    <3> QED
      BY <1>1, <2>1, <3>1 DEF Enlazable
  <2>3. CASE f.manejador \notin Range(cadena)
    <3>1. llamada' = [llamada EXCEPT ![a] =
            [Ociosa EXCEPT !.f = f, !.pc = "enlaza", !.prev = Len(cadena)]]
      BY <1>2, <2>3 DEF Busca
    <3>2. llamada'[a].f = f /\ llamada'[a].prev = Len(cadena)
      BY <1>0, <3>1 DEF Ociosa
    <3> QED
      BY <1>1, <2>1, <2>3, <3>2 DEF Enlazable, chain
  <2> QED
    BY <2>2, <2>3
<1>3. ASSUME NEW a \in Actividades, Enlaza(a)
      PROVE  ICadena'
  <2>1. Sola(a) /\ llamada[a].pc = "enlaza" /\ activa = (a = "retro")
    BY <1>3, DeUnPaso DEF Paso, Enlaza, En
  <2>2. llamada[a].f.manejador \in Manejadores
    BY <2>1 DEF IInv, Forma, Lugar
  <2>3. llamada'[a].pc # "enlaza"
    <3>1. CASE Va(a, "llama")
      BY <1>0, <3>1 DEF Va, Registro
    <3>2. CASE \E e : Vuelve(a, e, "-1")
      BY <1>0, <3>2 DEF Vuelve, Registro
    <3> QED
      BY <1>3, <3>1, <3>2 DEF Enlaza
  <2>4. CASE UNCHANGED chain
    BY <1>1, <2>1, <2>3, <2>4 DEF Enlazable
  <2>5. CASE Agrega(a)
    <3> SUFFICES ASSUME ~carrera' PROVE ICadena'
      BY DEF ICadena
    <3>1. ~carrera /\ ~(a = "retro" /\ llamada["base"].pc = "enlaza")
      BY <2>5 DEF Agrega
    <3>2. /\ rmcb = Len(cadena) /\ IsInjective(cadena)
          /\ llamada[a].prev = Len(cadena)
          /\ llamada[a].f.manejador \notin Range(cadena)
      BY <2>1, <3>1 DEF ICadena, Enlazable
    <3>3. IsInjective(cadena') /\ Len(cadena') = rmcb'
      BY <1>0, <2>2, <2>5, <3>2, AgregaUno
        DEF dpmi_allocate_real_mode_callback_retf, Agrega
    <3>4. \A b \in Actividades : llamada'[b].pc # "enlaza"
      BY ZenonT(60), <2>1, <2>3, <3>1 DEF Sola, Actividades, IInv, Forma
    <3> QED
      BY <3>3, <3>4 DEF ICadena, Enlazable
  <2> QED
    BY <1>3, <2>4, <2>5 DEF Enlaza
<1>4. ASSUME NEW a \in Actividades,
             \/ \E f \in Usadas : Empieza(a, f) \/ Entra(a, f)
             \/ Mide(a) \/ Asigna(a) \/ Llama(a) \/ Responde(a)
             \/ Sale(a) \/ Usa(a)
      PROVE  ICadena'
  <2>1. Sola(a) /\ UNCHANGED chain
    BY <1>4, DeUnPaso
      DEF Paso, Empieza, Entra, Mide, Asigna, Llama, Responde, Sale, Usa
  <2>2. llamada'[a].pc # "enlaza"
    <3>1. ASSUME NEW c \in {"llama", "asigna"}, Va(a, c)
          PROVE  <2>2!:
      BY <1>0, <3>1 DEF Va, Registro
    <3>2. ASSUME NoHayBuffer(a)
          PROVE  <2>2!:
      BY <1>0, <3>2 DEF NoHayBuffer, Vuelve, Registro
    <3>3. ASSUME Mide(a) \/ Asigna(a)
          PROVE  <2>2!:
      BY <3>1, <3>2, <3>3 DEF Mide, Asigna
    <3>4. ASSUME NEW f \in Usadas, Empieza(a, f)
          PROVE  <2>2!:
      BY <1>0, <3>4 DEF Empieza, Ociosa
    <3>5. ASSUME NEW f \in Usadas, Entra(a, f)
          PROVE  <2>2!:
      <4>1. CASE llamada' = [llamada EXCEPT ![a] =
                   [Ociosa EXCEPT !.f = f, !.pc = "mide", !.nivel = iLevel + 1]]
        BY <1>0, <4>1 DEF Ociosa
      <4>2. CASE llamada' = [llamada EXCEPT ![a] =
                   [Ociosa EXCEPT !.f = f, !.pc = "vuelto", !.propio = ERR_NO_MEM,
                                  !.ret = f.sinMem]]
        BY <1>0, <4>2 DEF Ociosa
      <4> QED
        BY <3>5, <4>1, <4>2 DEF Entra
    <3>6. ASSUME Sale(a)
          PROVE  <2>2!:
      BY <1>0, <3>6 DEF Sale
    <3>7. ASSUME Usa(a)
          PROVE  <2>2!:
      BY <1>0, <3>7 DEF Usa, Ociosa
    <3> QED
      BY <1>0, <1>4, <3>3, <3>4, <3>5, <3>6, <3>7, AlNucleo
  <2> QED
    BY <1>1, <2>1, <2>2 DEF Enlazable
<1>5. CASE \E a \in Actividades : Paso(a)
  <2>1. PICK a \in Actividades : Paso(a)
    BY <1>5
  <2>2. CASE \E f \in Usadas : Empieza(a, f) \/ Entra(a, f) \/ Busca(a, f)
    BY <1>2, <1>4, <2>2
  <2>3. CASE Enlaza(a)
    BY <1>3, <2>3
  <2>4. CASE Mide(a) \/ Asigna(a) \/ Llama(a) \/ Responde(a) \/ Sale(a) \/ Usa(a)
    BY <1>4, <2>4
  <2> QED
    BY <2>1, <2>2, <2>3, <2>4 DEF Paso
<1>6. CASE Buffers
  <2>1. UNCHANGED chain /\ ~activa /\ llamada["retro"].pc = "fuera"
    BY <1>6 DEF Buffers, Reserva, FinReserva, DosBufFree, En, IInv, Forma
  <2>2. /\ llamada'["retro"].pc = "fuera"
        /\ llamada'["base"].pc \in {"fuera", "reserva"}
    BY <1>6, BuffersEnCalma
  <2> QED
    BY <2>1, <2>2 DEF ICadena, Enlazable, chain, Actividades
<1>7. CASE FreeRealModeCallbacks
  <2>1. /\ ~activa /\ llamada' = llamada /\ llamada["base"].pc = "fuera"
        /\ cadena' = <<>> /\ rmcb' = rmcb - Len(cadena) /\ carrera' = carrera
    BY <1>7 DEF dpmi_free_real_mode_callback, FreeRealModeCallbacks, En
  <2>2. \A a \in Actividades : llamada'[a].pc = "fuera"
    BY <2>1 DEF IInv, Forma, Actividades
  <2>3. IsInjective(<<>>) /\ Len(<<>>) = 0
    BY DEF IsInjective
  <2> QED
    BY <1>0, <2>1, <2>2, <2>3 DEF ICadena, Enlazable
<1>8. CASE Interrumpe \/ Termina \/ UNCHANGED vars
  <2>1. llamada' = llamada /\ UNCHANGED chain
    BY <1>8 DEF Interrumpe, Termina, vars, chain
  <2> QED
    BY <2>1 DEF ICadena, Enlazable, chain
<1> QED
  BY <1>5, <1>6, <1>7, <1>8 DEF Next

LEMMA CadenaInicial == Init => ICadena
  BY DEF Init, ICadena, Enlazable, Ociosa, IsInjective

(* Every handler has one node and every real-mode callback has a node, if  *)
(* no callback ever linked a handler in the middle of another's linking.   *)
THEOREM SiempreCadenaExacta == Spec => []CadenaExacta
<1>1. ICadena => CadenaExacta
  BY DEF ICadena, CadenaExacta
<1>2. Spec => []ICadena
  BY CadenaInicial, Invariante, ConservaCadena, PTL DEF Spec
<1> QED
  BY <1>1, <1>2, PTL
=============================================================================
