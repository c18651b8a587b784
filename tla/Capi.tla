-------------------------------- MODULE Capi --------------------------------
(***************************************************************************)
(* CAPI, the library that calls the SOCKETS kernel: _capi.c, and of capi.c *)
(* the way every function gets its transfer buffer, makes the call and     *)
(* reports its error.                                                      *)
(*                                                                         *)
(* The program calls from two places: its main line ("base") and the       *)
(* handler of an asynchronous notification ("retro"), which interrupts the *)
(* main line anywhere, runs to its end and does not nest.  There are two   *)
(* builds.  Real mode passes the caller's own buffers.  The DPMI build     *)
(* copies through a block of DOS memory, one per level of nesting, and the *)
(* kernel reaches a handler through a real-mode callback, which the        *)
(* library keeps in a chain.                                               *)
(***************************************************************************)
EXTENDS CapiFunciones, FiniteSets, SequencesExt

CONSTANTS
  Largos,        (* lengths of the names and data that callers pass         *)
  Usadas,        (* the functions the program uses                          *)
  Errores,       (* the error numbers of the kernel                         *)
  Manejadores,   (* the handlers of the program                             *)
  Vectores,      (* the interrupts whose handler carries the TSR's name     *)
  MaxRmcb        (* real-mode callbacks that DPMI gives                     *)

NUM_DOSBUF_LEVELS == 4

ERR_NO_MEM         == 3
ERR_ILLEGAL_OP     == 5
ERR_API_NOT_LOADED == 50

Byte    == 0 .. 255
Niveles == 0 .. NUM_DOSBUF_LEVELS - 1

PorLargos == UNION {PorLargo(n) : n \in Largos}
ConManejador ==
  UNION {{SetAlarm(h), SetAsyncNotification(h)} :
         h \in Manejadores \cup {NingunManejador}}

Funciones == PorRegistros \cup PorEstructura \cup PorLargos \cup ConManejador

ASSUME CapiAssumption ==
  /\ Largos \subseteq Nat \ {0}
  /\ Usadas \subseteq Funciones
  /\ Errores \subseteq Byte \ {0}
  /\ NingunManejador \notin Manejadores
  /\ Vectores \subseteq Byte
  /\ MaxRmcb \in Nat

Actividades == {"base", "retro"}

VARIABLES
  dpmi,                  (* the build; never changes                        *)
  tsr,                   (* external: vectors with the TSR's name           *)
  iSocketsApiInterrupt,  (* the vector of the kernel, 0 until it is found   *)
  registrado,            (* external: the kernel has a handler to call      *)
  habilitado,            (* external: notifications are enabled             *)
  activa,                (* AsyncNotificationHandler is running             *)
  iNetErrNo,             (* the error of the last call                      *)
  iSaveNetErrNo,         (* static of AsyncNotificationHandler              *)
  iLevel,                (* level of the call in progress, -1: none         *)
  aiAvail,               (* bytes believed to be in each level's block      *)
  size,                  (* bytes asked of DOS for it, 0: no block          *)
  bloque,                (* external: bytes of the block DOS has given      *)
  perdido,               (* history: levels whose block was given back and  *)
                         (* not replaced                                    *)
  cadena,                (* psInfoChain: handlers with a real-mode callback *)
  rmcb,                  (* external: real-mode callbacks given out         *)
  carrera,               (* history: a callback linked a handler in the     *)
                         (* middle of the main line's linking one           *)
  llamada                (* the call each activity is in                    *)

nucleo  == <<registrado, habilitado>>
memoria == <<aiAvail, size, bloque, perdido>>
chain   == <<cadena, rmcb, carrera>>
fijo    == <<dpmi, tsr>>
vars    == <<fijo, iSocketsApiInterrupt, nucleo, activa, iNetErrNo,
             iSaveNetErrNo, iLevel, memoria, chain, llamada>>

(* nivel: of its buffer, -1 none.  prev: the end of the chain it has found.*)
(* propio: the error number it set itself.  ret: what it returns.          *)
Ociosa == [pc |-> "fuera", f |-> Sin("-1"), nivel |-> -1, prev |-> 0,
           propio |-> 0, ret |-> "exito"]

Init ==
  /\ dpmi \in BOOLEAN
  /\ tsr \in {{}, Vectores}
  /\ iSocketsApiInterrupt = 0
  /\ registrado = FALSE /\ habilitado = TRUE
  /\ activa = FALSE
  /\ iNetErrNo = 0 /\ iSaveNetErrNo = 0
  /\ iLevel = -1
  /\ aiAvail = [l \in Niveles |-> 0]
  /\ size = [l \in Niveles |-> 0]
  /\ bloque = [l \in Niveles |-> 0]
  /\ perdido = {}
  /\ cadena = <<>> /\ rmcb = 0 /\ carrera = FALSE
  /\ llamada = [a \in Actividades |-> Ociosa]

(* The handler runs to its end before the main line goes on. *)
En(a, pc) == activa = (a = "retro") /\ llamada[a].pc = pc

Va(a, pc) == llamada' = [llamada EXCEPT ![a].pc = pc]

(* The call returns r and leaves its error number e. *)
Vuelve(a, e, r) ==
  /\ iNetErrNo' = e
  /\ llamada' = [llamada EXCEPT ![a].pc = "vuelto", ![a].nivel = -1,
                                ![a].prev = 0, ![a].propio = e, ![a].ret = r]
-----------------------------------------------------------------------------
(* A call begins: SetAlarm and SetAsyncNotification of the DPMI build look *)
(* for the handler in the chain, functions with a buffer take a level      *)
(* (_DosBufEnter).                                                         *)
Empieza(a, f) ==
  /\ En(a, "fuera")
  /\ a = "retro" => f.retro
  /\ llamada' = [llamada EXCEPT ![a] = [Ociosa EXCEPT !.f = f, !.pc = "llama"]]
  /\ ~dpmi \/ (f.pide = 0 /\ f.manejador = NingunManejador)
  /\ UNCHANGED <<fijo, iSocketsApiInterrupt, nucleo, activa, iNetErrNo,
                 iSaveNetErrNo, iLevel, memoria, chain>>

(* As calls nest twice at most, the levels are never used up. *)
Entra(a, f) ==
  /\ En(a, "fuera") /\ dpmi /\ f.pide > 0
  /\ a = "retro" => f.retro
  /\ IF iLevel + 1 < NUM_DOSBUF_LEVELS
     THEN /\ iLevel' = iLevel + 1
          /\ llamada' = [llamada EXCEPT ![a] =
               [Ociosa EXCEPT !.f = f, !.pc = "mide", !.nivel = iLevel + 1]]
          /\ UNCHANGED iNetErrNo
     ELSE /\ iNetErrNo' = ERR_NO_MEM
          /\ llamada' = [llamada EXCEPT ![a] =
               [Ociosa EXCEPT !.f = f, !.pc = "vuelto", !.propio = ERR_NO_MEM,
                              !.ret = f.sinMem]]
          /\ UNCHANGED iLevel
  /\ UNCHANGED <<fijo, iSocketsApiInterrupt, nucleo, activa, iSaveNetErrNo,
                 memoria, chain>>
-----------------------------------------------------------------------------
(***************************************************************************)
(* The transfer buffer.  The parts of a call are laid one after the other  *)
(* from the start of the block (_DosBufSetup) and take f.pide bytes.       *)
(***************************************************************************)
RedondeoAbajo(n) == (n \div 16) * 16      (* mutant: rounds down *)

Redondeo(n) == ((n + 15) \div 16 + 3) * 16

(* DPMI takes the blocks of ls back; nobody looks whether it does. *)
dpmi_free_dos_memory(ls) ==
  /\ bloque' = [l \in Niveles |-> IF l \in ls THEN 0 ELSE bloque[l]]
  /\ perdido' = perdido \cup ls

ConBloque == {l \in Niveles : size[l] # 0}

(* The first half of _AllocateCapiDosBuffer: the old block goes back. *)
Libera(l, n) ==
  /\ dpmi_free_dos_memory({l} \cap ConBloque)
  /\ size' = [size EXCEPT ![l] = Redondeo(n)]
  /\ UNCHANGED aiAvail

NoHayBufferRetiene(a) ==      (* mutant: the level is not given back *)
  /\ UNCHANGED iLevel
  /\ Vuelve(a, ERR_NO_MEM, llamada[a].f.sinMem)

NoHayBuffer(a) ==
  /\ iLevel' = iLevel - 1
  /\ Vuelve(a, ERR_NO_MEM, llamada[a].f.sinMem)

Alcanza(a) == aiAvail[iLevel] >= llamada[a].f.pide

(* Only the base level may grow; a nested call takes the block it finds. *)
Mide(a) ==
  /\ En(a, "mide")
  /\ \/ /\ Alcanza(a)
        /\ Va(a, "llama")
        /\ UNCHANGED <<memoria, iLevel, iNetErrNo>>
     \/ /\ ~Alcanza(a) /\ iLevel > 0
        /\ NoHayBuffer(a)
        /\ UNCHANGED memoria
     \/ /\ ~Alcanza(a) /\ iLevel <= 0
        /\ Libera(iLevel, llamada[a].f.pide)
        /\ Va(a, "asigna")
        /\ UNCHANGED <<iLevel, iNetErrNo>>
  /\ UNCHANGED <<fijo, iSocketsApiInterrupt, nucleo, activa, iSaveNetErrNo, chain>>

Obtiene(l) ==
  /\ bloque' = [bloque EXCEPT ![l] = size[l]]
  /\ aiAvail' = [aiAvail EXCEPT ![l] = size[l]]
  /\ perdido' = perdido \ {l}
  /\ UNCHANGED size

(* aiAvail keeps the size of the block that went back. *)
NoObtiene(l) ==
  /\ size' = [size EXCEPT ![l] = 0]
  /\ UNCHANGED <<bloque, aiAvail, perdido>>

(* The second half: DOS gives the new block or does not. *)
Asigna(a) ==
  /\ En(a, "asigna")
  /\ \/ /\ Obtiene(llamada[a].nivel)
        /\ Va(a, "llama")
        /\ UNCHANGED <<iLevel, iNetErrNo>>
     \/ /\ NoObtiene(llamada[a].nivel)
        /\ NoHayBuffer(a)
  /\ UNCHANGED <<fijo, iSocketsApiInterrupt, nucleo, activa, iSaveNetErrNo, chain>>

(* The program reserves a block itself, for the main line or for the       *)
(* handler, before it calls anything that could find iLevel above -1.      *)
Reserva(l, n) ==
  /\ En("base", "fuera") /\ dpmi
  /\ Libera(l, n)
  /\ llamada' = [llamada EXCEPT !["base"].pc = "reserva", !["base"].nivel = l]
  /\ UNCHANGED <<fijo, iSocketsApiInterrupt, nucleo, activa, iNetErrNo,
                 iSaveNetErrNo, iLevel, chain>>

FinReserva ==
  /\ En("base", "reserva")
  /\ Obtiene(llamada["base"].nivel) \/ NoObtiene(llamada["base"].nivel)
  /\ llamada' = [llamada EXCEPT !["base"] = Ociosa]
  /\ UNCHANGED <<fijo, iSocketsApiInterrupt, nucleo, activa, iNetErrNo,
                 iSaveNetErrNo, iLevel, chain>>

(* _DosBufFree, of one level or of all; aiAvail is left as it was. *)
DosBufFree(ls) ==
  /\ En("base", "fuera") /\ dpmi
  /\ dpmi_free_dos_memory(ls \cap ConBloque)
  /\ size' = [l \in Niveles |-> IF l \in ls THEN 0 ELSE size[l]]
  /\ UNCHANGED <<fijo, iSocketsApiInterrupt, nucleo, activa, iNetErrNo,
                 iSaveNetErrNo, iLevel, aiAvail, chain, llamada>>
-----------------------------------------------------------------------------
(***************************************************************************)
(* The call of the kernel.                                                 *)
(***************************************************************************)

(* The first vector from 0x20 on whose handler carries the TSR's name, 0   *)
(* if there is none.                                                       *)
FindSocketsVector(v) ==
  LET vs == {x \in tsr : x >= 32}
  IN  \/ vs = {} /\ v = 0
      \/ v \in vs /\ \A x \in vs : v <= x

(* CallSocketsDosApi as far as the software interrupt. *)
Llama(a) ==
  /\ En(a, "llama")
  /\ \E v \in Byte :
       /\ IF iSocketsApiInterrupt = 0 THEN FindSocketsVector(v)
          ELSE v = iSocketsApiInterrupt
       /\ iSocketsApiInterrupt' = v
  /\ IF iSocketsApiInterrupt' = 0
     THEN /\ iNetErrNo' = ERR_API_NOT_LOADED
          /\ llamada' = [llamada EXCEPT
               ![a].pc = "sale", ![a].propio = ERR_API_NOT_LOADED,
               ![a].ret = llamada[a].f.error]
     ELSE iNetErrNo' = 0 /\ Va(a, "nucleo")
  /\ UNCHANGED <<fijo, nucleo, activa, iSaveNetErrNo, iLevel, memoria, chain>>

(* External: what the kernel does with a call that succeeds. *)
Efecto(f) ==
  /\ registrado' = (f.efecto = "pone" \/ (f.efecto # "quita" /\ registrado))
  /\ habilitado' = (f.efecto = "habilita" \/ (f.efecto # "inhabilita" /\ habilitado))

(* The interrupt returns, with the carry flag for an error. *)
Responde(a) ==
  /\ En(a, "nucleo")
  /\ \/ /\ Va(a, "sale")
        /\ Efecto(llamada[a].f)
        /\ UNCHANGED iNetErrNo
     \/ \E e \in Errores :
          /\ iNetErrNo' = e
          /\ llamada' = [llamada EXCEPT ![a].pc = "sale", ![a].propio = e,
                                        ![a].ret = llamada[a].f.error]
          /\ UNCHANGED nucleo
  /\ UNCHANGED <<fijo, iSocketsApiInterrupt, activa, iSaveNetErrNo, iLevel,
                 memoria, chain>>

(* DOSBUF_EXIT and the return of the function. *)
Sale(a) ==
  /\ En(a, "sale")
  /\ iLevel' = IF llamada[a].nivel >= 0 THEN iLevel - 1 ELSE iLevel
  /\ llamada' = [llamada EXCEPT ![a].pc = "vuelto", ![a].nivel = -1]
  /\ UNCHANGED <<fijo, iSocketsApiInterrupt, nucleo, activa, iNetErrNo,
                 iSaveNetErrNo, memoria, chain>>

(* The caller looks at the result, and at iNetErrNo. *)
Usa(a) ==
  /\ En(a, "vuelto")
  /\ llamada' = [llamada EXCEPT ![a] = Ociosa]
  /\ UNCHANGED <<fijo, iSocketsApiInterrupt, nucleo, activa, iNetErrNo,
                 iSaveNetErrNo, iLevel, memoria, chain>>
-----------------------------------------------------------------------------
(***************************************************************************)
(* The chain of real-mode callbacks.                                       *)
(***************************************************************************)
Busca(a, f) ==
  /\ En(a, "fuera") /\ dpmi /\ f.manejador # NingunManejador
  /\ llamada' = [llamada EXCEPT ![a] =
       IF f.manejador \in Range(cadena)
       THEN [Ociosa EXCEPT !.f = f, !.pc = "llama"]
       ELSE [Ociosa EXCEPT !.f = f, !.pc = "enlaza", !.prev = Len(cadena)]]
  /\ UNCHANGED <<fijo, iSocketsApiInterrupt, nucleo, activa, iNetErrNo,
                 iSaveNetErrNo, iLevel, memoria, chain>>

dpmi_allocate_real_mode_callback_retf == rmcb < MaxRmcb /\ rmcb' = rmcb + 1

EnlazaDelante(a) ==           (* mutant: the new node replaces the last *)
  /\ dpmi_allocate_real_mode_callback_retf
  /\ cadena' = Append(SubSeq(cadena, 1, llamada[a].prev - 1), llamada[a].f.manejador)
  /\ carrera' = (carrera \/ (a = "retro" /\ llamada["base"].pc = "enlaza"))

(* The new node goes after the one found last: what was linked after it in *)
(* between is lost.                                                        *)
Agrega(a) ==
  /\ dpmi_allocate_real_mode_callback_retf
  /\ cadena' = Append(SubSeq(cadena, 1, llamada[a].prev), llamada[a].f.manejador)
  /\ carrera' = (carrera \/ (a = "retro" /\ llamada["base"].pc = "enlaza"))

(* _AllocRmCbRetf: calloc or DPMI may fail. *)
Enlaza(a) ==
  /\ En(a, "enlaza")
  /\ \/ /\ Agrega(a)
        /\ Va(a, "llama")
        /\ UNCHANGED iNetErrNo
     \/ \E e \in {ERR_NO_MEM, ERR_ILLEGAL_OP} :
          /\ Vuelve(a, e, "-1")
          /\ UNCHANGED chain
  /\ UNCHANGED <<fijo, iSocketsApiInterrupt, nucleo, activa, iSaveNetErrNo,
                 iLevel, memoria>>

dpmi_free_real_mode_callback(n) == rmcb' = rmcb - n

(* Before the program ends, with no notification left to come. *)
FreeRealModeCallbacks ==
  /\ En("base", "fuera") /\ dpmi /\ ~registrado
  /\ cadena' = <<>>
  /\ dpmi_free_real_mode_callback(Len(cadena))
  /\ UNCHANGED <<fijo, iSocketsApiInterrupt, nucleo, activa, iNetErrNo,
                 iSaveNetErrNo, iLevel, memoria, carrera, llamada>>
-----------------------------------------------------------------------------
(***************************************************************************)
(* AsyncNotificationHandler.  The real-mode build keeps the error number   *)
(* of the main line; the DPMI build restores a static it never wrote.      *)
(***************************************************************************)
InterrumpeSinGuardar ==       (* mutant: iNetErrNo is not saved *)
  /\ ~activa /\ registrado /\ habilitado
  /\ activa' = TRUE
  /\ UNCHANGED iSaveNetErrNo
  /\ UNCHANGED <<fijo, iSocketsApiInterrupt, nucleo, iNetErrNo, iLevel, memoria,
                 chain, llamada>>

Interrumpe ==
  /\ ~activa /\ registrado /\ habilitado
  /\ activa' = TRUE
  /\ iSaveNetErrNo' = IF dpmi THEN iSaveNetErrNo ELSE iNetErrNo
  /\ UNCHANGED <<fijo, iSocketsApiInterrupt, nucleo, iNetErrNo, iLevel, memoria,
                 chain, llamada>>

Termina ==
  /\ En("retro", "fuera")
  /\ activa' = FALSE
  /\ iNetErrNo' = iSaveNetErrNo
  /\ UNCHANGED <<fijo, iSocketsApiInterrupt, nucleo, iSaveNetErrNo, iLevel,
                 memoria, chain, llamada>>

Paso(a) ==
  \/ \E f \in Usadas : Empieza(a, f) \/ Entra(a, f) \/ Busca(a, f)
  \/ Mide(a) \/ Asigna(a) \/ Enlaza(a)
  \/ Llama(a) \/ Responde(a) \/ Sale(a) \/ Usa(a)

Buffers ==
  \/ \E l \in {0, 1}, n \in Largos : Reserva(l, n)
  \/ FinReserva
  \/ \E ls \in {{l} : l \in Niveles} \cup {Niveles} : DosBufFree(ls)

Next ==
  \/ \E a \in Actividades : Paso(a)
  \/ Buffers \/ FreeRealModeCallbacks
  \/ Interrumpe \/ Termina

Spec == Init /\ [][Next]_vars
-----------------------------------------------------------------------------
Pcs == {"fuera", "reserva", "enlaza", "mide", "asigna", "llama", "nucleo",
        "sale", "vuelto"}

Resultados == {"exito", "0", "-1"}

Registro ==
  [pc : Pcs, f : Funciones, nivel : Niveles \cup {-1}, prev : Nat,
   propio : Byte, ret : Resultados]

TypeOK ==
  /\ dpmi \in BOOLEAN /\ tsr \subseteq Byte
  /\ iSocketsApiInterrupt \in Byte
  /\ registrado \in BOOLEAN /\ habilitado \in BOOLEAN
  /\ activa \in BOOLEAN /\ carrera \in BOOLEAN
  /\ iNetErrNo \in Byte /\ iSaveNetErrNo \in Byte
  /\ iLevel \in Niveles \cup {-1}
  /\ aiAvail \in [Niveles -> Nat]
  /\ size \in [Niveles -> Nat]
  /\ bloque \in [Niveles -> Nat]
  /\ perdido \subseteq Niveles
  /\ cadena \in Seq(Manejadores) /\ rmcb \in 0 .. MaxRmcb
  /\ llamada \in [Actividades -> Registro]

ConNivel(a) == llamada[a].nivel >= 0 /\ llamada[a].pc # "reserva"

Ocupa(a) == IF ConNivel(a) THEN 1 ELSE 0

(* Whatever fails on the way, and wherever a callback breaks in, iLevel    *)
(* counts the calls that hold a level, and the callback's is above the     *)
(* main line's: no two calls share a block.                                *)
NivelesEquilibrados ==
  /\ iLevel = Ocupa("base") + Ocupa("retro") - 1
  /\ ConNivel("base") => llamada["base"].nivel = 0
  /\ ConNivel("retro") => llamada["retro"].nivel = iLevel

(* A call that moves data through the transfer buffer has a live block     *)
(* with room for all of it, unless the block of its level was given back   *)
(* and not replaced (aiAvail then lies: an allocation that failed,         *)
(* _DosBufFree, a callback in the middle of a reservation).                *)
BloqueVivo ==
  \A a \in Actividades :
    /\ ConNivel(a) /\ llamada[a].pc \in {"llama", "nucleo", "sale"}
    /\ llamada[a].nivel \notin perdido
    => llamada[a].f.pide <= bloque[llamada[a].nivel]

(* A caller told of an error finds its own error number, although a        *)
(* callback may have called the library in between.  The main line of the  *)
(* DPMI build has no such promise: the handler leaves 0 there.             *)
ErrorPropio ==
  \A a \in Actividades :
    En(a, "vuelto") /\ llamada[a].propio # 0 /\ (a = "retro" \/ ~dpmi) =>
      iNetErrNo = llamada[a].propio

(* Functions whose result for want of a buffer is not that of an error:    *)
(* two say success, two an address.                                        *)
Confunden == {ICMPPingEx} \cup
  UNION {{GetAddressInfo(n), ResolveName(n), ParseAddress(n)} : n \in Largos}

(* A call that failed returns what its documentation gives for an error,   *)
(* but for those four when they get no buffer.                             *)
SinExitoFalso ==
  \A a \in Actividades :
    llamada[a].propio # 0 =>
      \/ llamada[a].ret = llamada[a].f.error
      \/ llamada[a].f \in Confunden /\ llamada[a].propio = ERR_NO_MEM

(* The chain has one node for each handler and one for each real-mode      *)
(* callback that DPMI gave, so FreeRealModeCallbacks frees them all, if no *)
(* callback ever linked a handler while the main line was linking one.     *)
CadenaExacta ==
  ~carrera => rmcb = Len(cadena) /\ IsInjective(cadena)
=============================================================================
