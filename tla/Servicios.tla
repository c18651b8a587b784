----------------------------- MODULE Servicios -----------------------------
(***************************************************************************)
(* The files "services" and "protocol", bsdsock/socket.c: they are read an *)
(* entry at a time (_GetServiceEntry) by four searches, getservbyname(),   *)
(* getservbyport(), getprotobyname() and getprotobynumber().  The entry    *)
(* that was read last is in a static buffer, which is what they return.    *)
(*                                                                         *)
(* A line is "nada" (a comment, or empty), "rota" (it does not parse: no   *)
(* name in its first column, no number, the rest of a line longer than the *)
(* buffer) or an "entrada".  An entry has at most MaxAlias aliases, and    *)
(* their pointers are not copied if they do not fit behind its words: the  *)
(* searches for a name then follow what other lines left there.            *)
(***************************************************************************)
EXTENDS Direcciones

CONSTANTS
  MaxAlias,    (* aliases kept of a line: nine                             *)
  Archivos,    (* external: the files there may be, sequences of lines     *)
  Buscados     (* the searches that a client makes                         *)

Nadie == "nadie"

(* In the place of an alias, a character that begins none. *)
Malo == "?"

(* The number of a line is what s_port keeps of it, 16 bits.  larga: the   *)
(* pointers of its aliases do not fit.  The last line ends as the others.  *)
Lineas ==
  [que : {"nada", "rota", "entrada"}, nombre : STRING, num : 0 .. WORD - 1,
   proto : STRING, alias : Seq(STRING), larga : BOOLEAN]

(* de: the file; proto: Nadie if any. *)
Busquedas ==
  [de : {"services", "protocol"}, por : {"nombre", "numero"}, nombre : STRING,
   num : 0 .. WORD - 1, proto : STRING]

ASSUME ServiciosAssumption ==
  MaxAlias \in Nat /\ Archivos \subseteq Seq(Lineas) /\ Buscados \subseteq Busquedas

VARIABLES
  archivo,   (* external: the file                                         *)
  pos,       (* lines read of it, or Cerrado                               *)
  busca,     (* the search in progress, or Fuera, or Colgada for good      *)
  leido,     (* the line that cBuf holds, 0 if none or not a whole one,    *)
             (* and s_port or p_proto                                      *)
  hallado    (* whether the last search to end returned them               *)

srvars == <<archivo, pos, busca, leido, hallado>>

Cerrado == -1

SinBuscar(por) == [de |-> "services", por |-> por, nombre |-> Nadie, num |-> 0, proto |-> Nadie]

Fuera   == SinBuscar("fuera")
Colgada == SinBuscar("colgada")

ServInit ==
  /\ archivo \in Archivos
  /\ pos = Cerrado /\ busca = Fuera
  /\ leido = [linea |-> 0, puerto |-> 0]
  /\ hallado = FALSE

(* fopen() may fail: WSANO_RECOVERY. *)
AbreArchivo(b) ==
  /\ busca = Fuera
  /\ \/ pos' = 0 /\ busca' = b /\ UNCHANGED hallado
     \/ hallado' = FALSE /\ UNCHANGED <<pos, busca>>
  /\ UNCHANGED <<archivo, leido>>

(* The line that _GetServiceEntry() reads next: 0 at the end of the file   *)
(* and, as for the end, at a line that does not parse.                     *)
GetServiceEntry(desde) ==
  LET resto == {i \in desde + 1 .. Len(archivo) : archivo[i].que # "nada"} IN
  IF resto = {} THEN 0
  ELSE LET i == CHOOSE k \in resto : \A m \in resto : k <= m
       IN  IF archivo[i].que = "rota" THEN 0 ELSE i

(* The aliases that are read: the loop ends once it has MaxAlias. *)
Alias(l) == {l.alias[k] : k \in {m \in DOMAIN l.alias : m <= MaxAlias}}

(* The loop goes back without moving at a character that begins no alias.  *)
SeCuelga(l) == Malo \in Alias(l)

(* The names that a search can compare. *)
Nombra(l) == {l.nombre} \cup IF l.larga THEN {} ELSE Alias(l)

NumeroDe(b) == IF b.de = "services" THEN ntohs(b.num) ELSE b.num

(* basura: the pointers that other lines left lead to the name. *)
Igual(l, basura) ==
  IF busca.por = "nombre" THEN busca.nombre \in Nombra(l) \/ (l.larga /\ basura)
  ELSE l.num = NumeroDe(busca)

CoincideSinProto(l, basura) == Igual(l, basura)  (* mutant: the protocol is not compared *)

Coincide(l, basura) == (busca.proto = Nadie \/ busca.proto = l.proto) /\ Igual(l, basura)

(* s_port is turned into the order of the net at once or, by the search    *)
(* for a number, once it matches; p_proto is not.                          *)
Numero(l, coincide) ==
  IF busca.de = "services" /\ (busca.por = "nombre" \/ coincide)
  THEN htons(l.num) ELSE l.num

Acaba(halla) == pos' = Cerrado /\ busca' = Fuera /\ hallado' = halla

(* It never comes back from a line, with the file open. *)
Cuelga(i) ==
  /\ busca' = Colgada /\ pos' = i
  /\ leido' = [linea |-> 0, puerto |-> 0] /\ UNCHANGED hallado

(* One turn of the loop of a search. *)
LeeEntrada ==
  /\ busca \notin {Fuera, Colgada}
  /\ LET i == GetServiceEntry(pos) IN
     \/ /\ i = 0 /\ Acaba(FALSE)
        /\ leido' \in {leido, [linea |-> 0, puerto |-> 0]}
     \/ i # 0 /\ SeCuelga(archivo[i]) /\ Cuelga(i)
     \/ /\ i # 0 /\ ~SeCuelga(archivo[i])
        /\ \E basura \in BOOLEAN :
             \/ /\ Coincide(archivo[i], basura) /\ Acaba(TRUE)
                /\ leido' = [linea |-> i, puerto |-> Numero(archivo[i], TRUE)]
             \/ /\ ~Coincide(archivo[i], basura)
                /\ leido' = [linea |-> i, puerto |-> Numero(archivo[i], FALSE)]
                /\ pos' = i
                /\ UNCHANGED <<busca, hallado>>
  /\ UNCHANGED archivo

(* The loop over the aliases, once it does not move. *)
NoAvanza == busca = Colgada /\ UNCHANGED srvars

ServNext == (\E b \in Buscados : AbreArchivo(b)) \/ LeeEntrada \/ NoAvanza
-----------------------------------------------------------------------------
(* A line that a search may go on from. *)
Pasable(l) == l.que = "nada" \/ (l.que = "entrada" /\ ~SeCuelga(l))

(* The entries of the file that are read: those before any line that does  *)
(* not parse or does not end.                                              *)
Entradas(f) == {i \in DOMAIN f : f[i].que = "entrada" /\ \A k \in 1 .. i : Pasable(f[k])}

(* Those that a search is for, and those where it may stop by the aliases  *)
(* of other lines.                                                         *)
Casan(f, b) ==
  {i \in Entradas(f) : /\ b.proto \in {Nadie, f[i].proto}
                       /\ IF b.por = "nombre" THEN b.nombre \in Nombra(f[i])
                          ELSE f[i].num = NumeroDe(b)}

Dudan(f, b) ==
  {i \in Entradas(f) : b.proto \in {Nadie, f[i].proto} /\ b.por = "nombre" /\ f[i].larga}

(* The line that a search may give, 0 if none: the file may not be there.  *)
Hallables(f, b) ==
  {0} \cup {i \in Casan(f, b) \cup Dudan(f, b) : \A k \in Casan(f, b) : i <= k}

(* It may not come back: none of those it is for comes before a line that  *)
(* does not end.                                                           *)
Colgable(f, b) ==
  \E i \in DOMAIN f :
    /\ f[i].que = "entrada" /\ SeCuelga(f[i])
    /\ \A k \in 1 .. i - 1 : Pasable(f[k]) /\ k \notin Casan(f, b)
=============================================================================
