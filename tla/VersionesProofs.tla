-------------------------- MODULE VersionesProofs --------------------------
(***************************************************************************)
(* Proofs about the program beside its port, and beside the version it     *)
(* replaced: what they have in common at every step, and what follows for  *)
(* the plots and for the targets.                                          *)
(***************************************************************************)
EXTENDS Versiones, ExtractorProofs

(* What the program and the port have in common: all but what a height of  *)
(* COM3 touches.                                                           *)
MismaPuerta ==
  /\ s_fifo = fifo /\ s_lleno = lleno
  /\ s_FlagIni = FlagIni /\ s_DatoAnt = DatoAnt /\ s_AzAnt = AzAnt
  /\ s_lectura = lectura /\ s_pide = pide /\ s_ultimo = ultimo

MismoRastreo ==
  /\ s_prs = prs /\ s_bandera = bandera /\ s_rangoinic = rangoinic
  /\ s_banderainic = banderainic /\ s_azimuth = azimuth /\ s_aztant = aztant
  /\ s_bandera_azt = bandera_azt
  /\ s_PrsAltura = PrsAltura /\ s_AlturaTemp = AlturaTemp
  /\ s_sectoranterior = sectoranterior /\ s_SectorActual = SectorActual
  /\ s_pc = pc /\ s_j = j /\ s_aztprom = aztprom
  /\ s_Flag_alt = 0

MismaSalida ==
  \/ salida.tipo # "blanco"
  \/ \E a, r, h, x, s : /\ salida = P!TramaBlanco(a, r, h, s)
                        /\ s_salida = P!TramaBlanco(a, r, x, s)
                        /\ x = h \/ h = alt_alt

Acoplado == MismaPuerta /\ MismoRastreo /\ MismaSalida

LEMMA Aparte ==
  ASSUME NEW w
  PROVE  /\ EsAzimut(w) => ~EsAltura(w) /\ ~EsRango(w)
         /\ EsAltura(w) => ~EsRango(w)
         /\ EsRango(w) => w \in Int
<1>1. EsAzimut(w) => w \in Int /\ 32768 <= w /\ w <= 36863
  BY DEF EsAzimut, AZ
<1>2. EsRango(w) => w \in Int /\ 12288 <= w /\ w <= 16383
  BY DEF EsRango, RG
<1>3. EsAltura(w) => w \in Int /\ 49152 <= w
  BY DEF EsAltura, ALT
<1> QED
  BY <1>1, <1>2, <1>3

(* The gate is deterministic.                                              *)
LEMMA PasoPuerta ==
  ASSUME MismaPuerta, Sondea, Puerto!ChkFlag \/ Puerto!GetDato
  PROVE  MismaPuerta'
<1> USE DEF MismaPuerta, Ninguna, Puerto!X!Ninguna, Reinicia, Puerto!X!Reinicia
<1>1. CASE Desborde
  <2>1. Puerto!ChkFlag
    BY <1>1 DEF Desborde, Puerto!GetDato, Puerto!X!HayDato
  <2> QED
    BY <1>1, <2>1 DEF Desborde, Puerto!ChkFlag, Puerto!X!Desborde
<1>2. CASE HayDato
  <2> DEFINE w == Dato
  <2>1. Puerto!CtrlDato /\ Puerto!X!HayDato /\ Puerto!X!Dato = w
    BY <1>2 DEF HayDato, Puerto!ChkFlag, Puerto!GetDato, Puerto!X!Desborde,
                Dato, Puerto!X!Dato, Puerto!X!HayDato
  <2> HIDE DEF w
  <2>2. /\ Puerto!X!EsValida(w) <=> EsValida(w)
        /\ Puerto!X!EsAzimut(w) <=> EsAzimut(w)
        /\ Puerto!X!EsAltura(w) <=> EsAltura(w)
        /\ Puerto!X!EsAltura(s_DatoAnt) <=> EsAltura(DatoAnt)
        /\ Puerto!X!Retrocede(w) <=> Retrocede(w)
    <3> USE DEF AZ, RG, ALT, Puerto!X!AZ, Puerto!X!RG, Puerto!X!ALT
    <3>1. Puerto!X!EsAzimut(w) <=> EsAzimut(w)
      BY DEF EsAzimut, Puerto!X!EsAzimut
    <3>2. Puerto!X!EsAltura(w) <=> EsAltura(w)
      BY DEF EsAltura, Puerto!X!EsAltura
    <3>3. Puerto!X!EsRango(w) <=> EsRango(w)
      BY DEF EsRango, Puerto!X!EsRango
    <3>4. Puerto!X!EsAltura(s_DatoAnt) <=> EsAltura(DatoAnt)
      BY DEF EsAltura, Puerto!X!EsAltura
    <3>5. Puerto!X!Retrocede(w) <=> Retrocede(w)
      BY DEF Retrocede, CambioDeVuelta, Puerto!X!Retrocede,
             Puerto!X!CambioDeVuelta
    <3> QED
      BY <3>1, <3>2, <3>3, <3>4, <3>5 DEF EsValida, Puerto!X!EsValida
  <2>3. EsAzimut(w) => EsValida(w) /\ ~EsAltura(w)
    BY Aparte DEF EsValida
  <2>4. EsAltura(w) => EsValida(w)
    BY DEF EsValida
  <2>5. CASE ~EsValida(w)
    <3>1. ErrorClase
      BY <1>2, <2>3, <2>4, <2>5
        DEF w, Sondea, Pierde, Rechaza, Desborde, HayDato, PrimerDato,
            ErrorAzimut, ErrorAltura, DatoBueno
    <3>2. Puerto!X!ErrorClase
      BY <2>1, <2>2, <2>3, <2>4, <2>5
        DEF Puerto!CtrlDato, Puerto!X!PrimerDato, Puerto!X!ErrorAzimut,
            Puerto!X!ErrorAltura, Puerto!X!DatoBueno
    <3> QED
      BY <3>1, <3>2 DEF ErrorClase, Puerto!X!ErrorClase
  <2>6. CASE EsValida(w) /\ FlagIni = 0
    <3>1. PrimerDato
      BY <1>2, <2>6
        DEF w, Sondea, Pierde, Rechaza, Desborde, HayDato, ErrorClase,
            ErrorAzimut, ErrorAltura, DatoBueno
    <3>2. Puerto!X!PrimerDato
      BY <2>1, <2>2, <2>6
        DEF Puerto!CtrlDato, Puerto!X!ErrorClase, Puerto!X!ErrorAzimut,
            Puerto!X!ErrorAltura, Puerto!X!DatoBueno
    <3> QED
      BY <2>1, <2>2, <3>1, <3>2
        DEF PrimerDato, Puerto!X!PrimerDato, Pasa, Puerto!X!Pasa, w
  <2>7. CASE EsValida(w) /\ FlagIni # 0 /\ EsAzimut(w) /\ Retrocede(w)
    <3>1. ErrorAzimut
      BY <1>2, <2>3, <2>7
        DEF w, Sondea, Pierde, Rechaza, Desborde, HayDato, ErrorClase,
            PrimerDato, ErrorAltura, DatoBueno
    <3>2. Puerto!X!ErrorAzimut
      BY <2>1, <2>2, <2>3, <2>7
        DEF Puerto!CtrlDato, Puerto!X!ErrorClase, Puerto!X!PrimerDato,
            Puerto!X!ErrorAltura, Puerto!X!DatoBueno
    <3> QED
      BY <2>1, <3>1, <3>2 DEF ErrorAzimut, Puerto!X!ErrorAzimut, w
  <2>8. CASE EsValida(w) /\ FlagIni # 0 /\ EsAltura(w) /\ EsAltura(DatoAnt)
    <3>1. ErrorAltura
      BY <1>2, <2>3, <2>8
        DEF w, Sondea, Pierde, Rechaza, Desborde, HayDato, ErrorClase,
            PrimerDato, ErrorAzimut, DatoBueno
    <3>2. Puerto!X!ErrorAltura
      BY <2>1, <2>2, <2>3, <2>8
        DEF Puerto!CtrlDato, Puerto!X!ErrorClase, Puerto!X!PrimerDato,
            Puerto!X!ErrorAzimut, Puerto!X!DatoBueno
    <3> QED
      BY <3>1, <3>2 DEF ErrorAltura, Puerto!X!ErrorAltura
  <2>9. CASE /\ EsValida(w) /\ FlagIni # 0
             /\ ~(EsAzimut(w) /\ Retrocede(w))
             /\ ~(EsAltura(w) /\ EsAltura(DatoAnt))
    <3>1. DatoBueno
      BY <1>2, <2>9
        DEF w, Sondea, Pierde, Rechaza, Desborde, HayDato, ErrorClase,
            PrimerDato, ErrorAzimut, ErrorAltura
    <3>2. Puerto!X!DatoBueno
      BY <2>1, <2>2, <2>9
        DEF Puerto!CtrlDato, Puerto!X!ErrorClase, Puerto!X!PrimerDato,
            Puerto!X!ErrorAzimut, Puerto!X!ErrorAltura
    <3> QED
      BY <2>1, <2>2, <3>1, <3>2
        DEF DatoBueno, Puerto!X!DatoBueno, Pasa, Puerto!X!Pasa, w
  <2> QED
    BY <2>5, <2>6, <2>7, <2>8, <2>9
<1> QED
  BY <1>1, <1>2 DEF Sondea, Pierde, Rechaza, ErrorClase, ErrorAzimut, ErrorAltura,
    PrimerDato, DatoBueno
-----------------------------------------------------------------------------
(* The tracker is deterministic too: on the same word, program and port do *)
(* the same.                                                               *)
LEMMA PuertoCorrelacion ==
  ASSUME MismoRastreo, NEW r
  PROVE  /\ Puerto!X!P!Correlacion(r) = P!Correlacion(r)
         /\ Puerto!X!P!MasCercano(r) = P!MasCercano(r)
         /\ Puerto!X!P!Registra(r) = P!Registra(r)
<1> USE DEF MismoRastreo, P!Modulo, P!Puerta, Puerto!X!P!Modulo, Puerto!X!P!Puerta
<1>1. s_prs = prs /\ s_aztant = aztant
  OBVIOUS
<1>2. Puerto!X!P!Correlacion(r) = P!Correlacion(r)
  BY <1>1, Zenon DEF P!Correlacion, Puerto!X!P!Correlacion
<1>3. Puerto!X!P!MasCercano(r) = P!MasCercano(r)
  BY <1>1, <1>2, ZenonT(30)
    DEF P!MasCercano, Puerto!X!P!MasCercano
<1> QED
  BY <1>1, <1>2, <1>3
    DEF P!Registra, Puerto!X!P!Registra, P!Nuevo, Puerto!X!P!Nuevo

LEMMA PuertoClases ==
  ASSUME NEW w
  PROVE  /\ Puerto!X!P!EsAzimut(w) <=> P!EsAzimut(w)
         /\ Puerto!X!P!EsAltura(w) <=> P!EsAltura(w)
         /\ Puerto!X!P!EsRango(w) <=> P!EsRango(w)
         /\ Puerto!X!P!Procesable(w) <=> P!Procesable(w)
         /\ P!EsAzimut(w) => ~P!EsAltura(w) /\ ~P!EsRango(w)
         /\ P!EsAltura(w) => ~P!EsRango(w)
         /\ P!Procesable(w) => P!EsRango(w)
         /\ P!EsRango(w) => w \in Int
<1>1. Puerto!X!P!Procesable(w) <=> P!Procesable(w)
  BY DEF P!Procesable, Puerto!X!P!Procesable, P!EsRango, Puerto!X!P!EsRango,
         P!RG, Puerto!X!P!RG
<1>2. P!Procesable(w) => P!EsRango(w)
  BY DEF P!Procesable
<1>3. /\ P!EsAzimut(w) <=> EsAzimut(w)
      /\ P!EsAltura(w) <=> EsAltura(w)
      /\ P!EsRango(w) <=> EsRango(w)
  BY DEF P!EsAzimut, P!EsAltura, P!EsRango, EsAzimut, EsAltura, EsRango,
         P!AZ, P!RG, P!ALT, AZ, RG, ALT
<1>4. Puerto!X!P!EsAzimut(w) <=> P!EsAzimut(w)
  BY DEF P!EsAzimut, Puerto!X!P!EsAzimut, P!AZ, Puerto!X!P!AZ
<1>5. Puerto!X!P!EsAltura(w) <=> P!EsAltura(w)
  BY DEF P!EsAltura, Puerto!X!P!EsAltura, P!ALT, Puerto!X!P!ALT
<1>6. Puerto!X!P!EsRango(w) <=> P!EsRango(w)
  BY DEF P!EsRango, Puerto!X!P!EsRango, P!RG, Puerto!X!P!RG
<1> QED
  BY <1>1, <1>2, <1>3, <1>4, <1>5, <1>6, Aparte

MismoEfecto == MismoRastreo' /\ MismaSalida'

LEMMA PuertoLee ==
  ASSUME MismoRastreo, rangoinic \in Int, NEW w, P!Lee(w),
         Puerto!Primario(w), UNCHANGED <<aztprom, s_aztprom>>
  PROVE  MismoEfecto
<1> USE DEF MismoEfecto, MismaSalida, P!altura3, P!alturaFifo, P!sectores, P!seguimiento,
            Puerto!X!P!altura3, Puerto!X!P!alturaFifo, Puerto!X!P!sectores,
            Puerto!X!P!seguimiento, P!Nada, Puerto!X!P!Nada
<1>0. /\ Puerto!X!P!EsAzimut(w) <=> P!EsAzimut(w)
      /\ Puerto!X!P!EsAltura(w) <=> P!EsAltura(w)
      /\ Puerto!X!P!EsRango(w) <=> P!EsRango(w)
      /\ Puerto!X!P!Procesable(w) <=> P!Procesable(w)
      /\ P!EsAzimut(w) => ~P!EsAltura(w) /\ ~P!EsRango(w)
      /\ P!EsAltura(w) => ~P!EsRango(w)
      /\ P!Procesable(w) => P!EsRango(w)
      /\ P!EsRango(w) => w \in Int
  BY PuertoClases
<1>1. Puerto!X!P!Aceptable(w) <=> P!Aceptable(w)
  BY DEF MismoRastreo, P!Aceptable, P!EnVentana, Puerto!X!P!Aceptable,
         Puerto!X!P!EnVentana, P!AZ, Puerto!X!P!AZ
<1>2. CASE P!AzimutAceptado(w)
  <2>1. P!EsAzimut(w) /\ P!Aceptable(w)
    BY <1>2 DEF P!AzimutAceptado
  <2>2. Puerto!X!P!AzimutAceptado(w)
    BY <1>0, <1>1, <2>1
      DEF Puerto!Primario, Puerto!Azimut, Puerto!AzimutRechazado, Puerto!Rango,
          Puerto!Altura, Puerto!X!P!AzimutRechazado, Puerto!X!P!RangoIgnorado,
          Puerto!X!P!PrimerEco, Puerto!X!P!OtroEco, Puerto!X!P!RangoAltura,
          Puerto!X!P!Altura
  <2>3. s_prs' = prs'
    <3>1. Puerto!X!P!Registra(s_rangoinic) = P!Registra(rangoinic)
      BY PuertoCorrelacion DEF MismoRastreo
    <3> QED
      BY <1>2, <2>2, <3>1 DEF MismoRastreo, P!AzimutAceptado, Puerto!X!P!AzimutAceptado
  <2>4. /\ s_sectoranterior' = sectoranterior' /\ s_SectorActual' = SectorActual'
        /\ salida'.tipo # "blanco"
    BY <1>2, <2>2
      DEF MismoRastreo, P!AzimutAceptado, Puerto!X!P!AzimutAceptado,
          P!CambiaSector, Puerto!X!P!CambiaSector, P!Sector, Puerto!X!P!Sector,
          P!TramaCab, Puerto!X!P!TramaCab, P!AZ, Puerto!X!P!AZ
  <2> QED
    BY <1>2, <2>2, <2>3, <2>4
      DEF MismoRastreo, P!AzimutAceptado, Puerto!X!P!AzimutAceptado, P!AZ, Puerto!X!P!AZ
<1>3. CASE P!AzimutRechazado(w)
  <2>1. P!EsAzimut(w) /\ ~P!Aceptable(w)
    BY <1>3 DEF P!AzimutRechazado
  <2>2. Puerto!X!P!AzimutRechazado(w)
    BY <1>0, <1>1, <2>1
      DEF Puerto!Primario, Puerto!Azimut, Puerto!AzimutRechazado, Puerto!Rango,
          Puerto!Altura, Puerto!X!P!AzimutAceptado, Puerto!X!P!RangoIgnorado,
          Puerto!X!P!PrimerEco, Puerto!X!P!OtroEco, Puerto!X!P!RangoAltura,
          Puerto!X!P!Altura
  <2> QED
    BY <1>3, <2>2 DEF MismoRastreo, P!AzimutRechazado, Puerto!X!P!AzimutRechazado
<1>4. CASE P!EsRango(w)
  <2>1. Puerto!Rango(w)
    BY <1>0, <1>4
      DEF Puerto!Primario, Puerto!Azimut, Puerto!AzimutRechazado, Puerto!Altura,
          Puerto!X!P!AzimutAceptado, Puerto!X!P!AzimutRechazado, Puerto!X!P!Altura
  <2>2. P!RangoIgnorado(w) \/ P!PrimerEco(w) \/ P!OtroEco(w) \/ P!RangoAltura(w)
    BY <1>0, <1>4
      DEF P!Lee, P!AzimutAceptado, P!AzimutRechazado, P!Altura
  <2>3. CASE P!RangoIgnorado(w)
    <3>1. Puerto!X!P!RangoIgnorado(w)
      BY <1>0, <2>1, <2>3, PalabraAssumption, SMTT(30)
        DEF MismoRastreo, P!RangoIgnorado, Puerto!Rango, Puerto!X!P!RangoIgnorado,
            Puerto!X!P!PrimerEco, Puerto!X!P!OtroEco, Puerto!X!P!RangoAltura
    <3> QED
      BY <2>3, <3>1 DEF MismoRastreo, P!RangoIgnorado, Puerto!X!P!RangoIgnorado
  <2>4. CASE P!PrimerEco(w)
    <3>1. Puerto!X!P!PrimerEco(w)
      BY <1>0, <2>1, <2>4
        DEF MismoRastreo, P!PrimerEco, Puerto!Rango, Puerto!X!P!RangoIgnorado,
            Puerto!X!P!OtroEco, Puerto!X!P!RangoAltura
    <3> QED
      BY <2>4, <3>1 DEF MismoRastreo, P!PrimerEco, Puerto!X!P!PrimerEco
  <2>5. CASE P!OtroEco(w)
    <3>1. Puerto!X!P!OtroEco(w)
      BY <1>0, <2>1, <2>5, PalabraAssumption, SMTT(30)
        DEF MismoRastreo, P!OtroEco, Puerto!Rango, Puerto!X!P!RangoIgnorado,
            Puerto!X!P!PrimerEco, Puerto!X!P!RangoAltura
    <3>2. Puerto!X!P!Registra(s_rangoinic) = P!Registra(rangoinic)
      BY PuertoCorrelacion DEF MismoRastreo
    <3> QED
      BY <2>5, <3>1, <3>2 DEF MismoRastreo, P!OtroEco, Puerto!X!P!OtroEco
  <2>6. CASE P!RangoAltura(w)
    <3>1. Puerto!X!P!RangoAltura(w)
      BY <1>0, <2>1, <2>6
        DEF MismoRastreo, P!RangoAltura, Puerto!Rango, Puerto!X!P!RangoIgnorado,
            Puerto!X!P!PrimerEco, Puerto!X!P!OtroEco
    <3>2. /\ Puerto!X!P!Correlacion(w) = P!Correlacion(w)
          /\ Puerto!X!P!MasCercano(w) = P!MasCercano(w)
      BY PuertoCorrelacion
    <3> QED
      BY <2>6, <3>1, <3>2 DEF MismoRastreo, P!RangoAltura, Puerto!X!P!RangoAltura
  <2> QED
    BY <2>2, <2>3, <2>4, <2>5, <2>6
<1>5. CASE P!Altura(w)
  <2>1. P!EsAltura(w)
    BY <1>5 DEF P!Altura
  <2>2. Puerto!X!P!Altura(w)
    BY <1>0, <2>1
      DEF Puerto!Primario, Puerto!Azimut, Puerto!AzimutRechazado, Puerto!Rango,
          Puerto!Altura, Puerto!X!P!AzimutAceptado, Puerto!X!P!AzimutRechazado,
          Puerto!X!P!RangoIgnorado, Puerto!X!P!PrimerEco, Puerto!X!P!OtroEco,
          Puerto!X!P!RangoAltura
  <2> QED
    BY <1>5, <2>2 DEF MismoRastreo, P!Altura, Puerto!X!P!Altura
<1> QED
  BY <1>0, <1>2, <1>3, <1>4, <1>5
    DEF P!Lee, P!RangoIgnorado, P!PrimerEco, P!OtroEco, P!RangoAltura

(* The types of the tracker's state, from its own proofs.                  *)
LEMMA TiposDelRastreo ==
  ASSUME EIInv, ~eco
  PROVE  /\ Len(prs) \in Nat /\ j \in Int /\ rangoinic \in Int /\ aztant \in Int
         /\ prs \in Seq(PP!Presencia)
         /\ \A i \in DOMAIN prs : prs[i].aztinic \in Int
<1>1. PP!TypeOK
  BY DEF EIInv, Rastreo, PP!IInv
<1>2. /\ prs \in Seq(PP!Presencia) /\ j \in 1 .. Len(prs) + 1
      /\ rangoinic \in Nat /\ aztant \in PP!Azimuts
  BY <1>1 DEF PP!TypeOK
<1>3. Len(prs) \in Nat
  BY <1>2, LenProperties
<1>4. PP!Azimuts \subseteq Int
  BY DEF PP!Azimuts
<1>5. ASSUME NEW i \in DOMAIN prs PROVE prs[i].aztinic \in Int
  <2>1. prs[i] \in PP!Presencia
    BY <1>2
  <2> QED
    BY <1>4, <2>1 DEF PP!Presencia
<1> QED
  BY <1>2, <1>3, <1>4, <1>5

(* The loop over the targets: the port has no height waiting, so a plot of *)
(* its keeps the height of its target.                                     *)
LEMMA PuertoBarre ==
  ASSUME EIInv, ~eco, MismoRastreo, P!Barre, Puerto!X!P!Barre,
         UNCHANGED <<aztprom, s_aztprom>>
  PROVE  MismoRastreo' /\ MismaSalida'
<1> USE DEF P!altura3, P!alturaFifo, P!sectores, P!seguimiento,
            Puerto!X!P!altura3, Puerto!X!P!alturaFifo, Puerto!X!P!sectores,
            Puerto!X!P!seguimiento, P!Nada, Puerto!X!P!Nada
<1>0. /\ Len(prs) \in Nat /\ j \in Int
      /\ Puerto!X!P!Caduca <=> P!Caduca
      /\ s_j = j /\ s_prs = prs
  BY TiposDelRastreo DEF MismoRastreo, P!Caduca, Puerto!X!P!Caduca
<1> DEFINE ancho == P!Ancho(prs[j].aztinic, aztant)
           centro == P!Centro(prs[j].aztinic, aztant)
<1>1. /\ Puerto!X!P!Ancho(s_prs[s_j].aztinic, s_aztant) = ancho
      /\ Puerto!X!P!Centro(s_prs[s_j].aztinic, s_aztant) = centro
  BY SMTT(30)
    DEF MismoRastreo, P!Ancho, Puerto!X!P!Ancho, P!AztFinal, Puerto!X!P!AztFinal,
        P!Centro, Puerto!X!P!Centro
<1>2. Puerto!X!P!RemoveAt(s_prs, s_j) = P!RemoveAt(prs, j)
  BY DEF MismoRastreo, P!RemoveAt, Puerto!X!P!RemoveAt
<1>3. P!CaducaCorto \/ (\E c \in BOOLEAN : P!CaducaBlanco(c)) =>
        ancho \in Int /\ blancocorto \in Int
  <2>1. P!CaducaCorto \/ (\E c \in BOOLEAN : P!CaducaBlanco(c)) => j <= Len(prs)
    BY DEF P!CaducaCorto, P!CaducaBlanco
  <2>2. j >= 1 /\ prs \in Seq(PP!Presencia) /\ DOMAIN prs = 1 .. Len(prs)
    BY TiposDelRastreo DEF EIInv, Rastreo, PP!IInv, PP!TypeOK
  <2>3. j <= Len(prs) => prs[j].aztinic \in Int
    BY <1>0, <2>2, TiposDelRastreo
  <2>4. aztant \in Int /\ max_aus_cons \in Int /\ VUELTA \in Int /\ blancocorto \in Int
    BY TiposDelRastreo, PalabraAssumption
  <2> QED
    BY <2>1, <2>3, <2>4 DEF P!Ancho, P!AztFinal
<1> HIDE DEF ancho, centro
<1>4. CASE P!Envejece
  <2>1. Puerto!X!P!Envejece
    BY <1>0, <1>4
      DEF P!Envejece, Puerto!X!P!Barre, Puerto!X!P!CaducaCorto,
          Puerto!X!P!CaducaBlanco, Puerto!X!P!FinBarrido
  <2> QED
    BY <1>4, <2>1 DEF MismoRastreo, MismaSalida, P!Envejece, Puerto!X!P!Envejece
<1>5. CASE P!CaducaCorto
  <2>1. Puerto!X!P!CaducaCorto
    BY <1>0, <1>1, <1>3, <1>5
      DEF P!CaducaCorto, Puerto!X!P!Barre, Puerto!X!P!Envejece,
          Puerto!X!P!CaducaBlanco, Puerto!X!P!FinBarrido, ancho
  <2> QED
    BY <1>2, <1>5, <2>1 DEF MismoRastreo, MismaSalida, P!CaducaCorto, Puerto!X!P!CaducaCorto
<1>6. ASSUME NEW cerca \in BOOLEAN, P!CaducaBlanco(cerca)
      PROVE  MismoRastreo' /\ MismaSalida'
  <2>1. PICK c \in BOOLEAN : Puerto!X!P!CaducaBlanco(c)
    BY <1>0, <1>1, <1>3, <1>6
      DEF P!CaducaBlanco, Puerto!X!P!Barre, Puerto!X!P!Envejece,
          Puerto!X!P!CaducaCorto, Puerto!X!P!FinBarrido, ancho
  <2>2. ~Puerto!X!P!AlturaVecina(centro) /\ c = FALSE /\ s_Flag_alt' = 0
    BY <1>1, <2>1 DEF MismoRastreo, Puerto!X!P!CaducaBlanco, Puerto!X!P!AlturaVecina
  <2>3. MismoRastreo'
    BY <1>2, <1>6, <2>1, <2>2
      DEF MismoRastreo, P!CaducaBlanco, Puerto!X!P!CaducaBlanco
  <2> DEFINE h  == prs[j].Altura
             r  == prs[j].rangoinic
             se == P!AlSerie(centro)
  <2>4. Puerto!X!P!AlSerie(centro) = se
    BY DEF MismoRastreo, P!AlSerie, Puerto!X!P!AlSerie, P!SectAnt,
           Puerto!X!P!SectAnt, P!Modulo, Puerto!X!P!Modulo, P!Sector, Puerto!X!P!Sector
  <2>5. s_salida' = P!TramaBlanco(centro, r, h, se)
    BY <1>0, <1>1, <2>1, <2>2, <2>4
      DEF Puerto!X!P!CaducaBlanco, Puerto!X!P!blancos, Puerto!X!P!TramaBlanco,
          P!TramaBlanco
  <2>6. /\ salida' = P!TramaBlanco(centro, r, IF cerca THEN alt_alt ELSE h, se)
        /\ alt_alt' = alt_alt
    BY <1>6 DEF P!CaducaBlanco, P!blancos, centro
  <2> HIDE DEF h, r, se
  <2>7. MismaSalida'
    BY <2>5, <2>6 DEF MismaSalida, P!TramaBlanco
  <2> QED
    BY <2>3, <2>7
<1>7. CASE P!FinBarrido
  <2>1. Puerto!X!P!FinBarrido
    BY <1>0, <1>7
      DEF P!FinBarrido, Puerto!X!P!Barre, Puerto!X!P!Envejece,
          Puerto!X!P!CaducaCorto, Puerto!X!P!CaducaBlanco
  <2> QED
    BY <1>7, <2>1 DEF MismoRastreo, MismaSalida, P!FinBarrido, Puerto!X!P!FinBarrido
<1> QED
  BY <1>4, <1>5, <1>6, <1>7 DEF P!Barre

(* In eco mode the two also do the same on the same word.                  *)
LEMMA PuertoEco ==
  ASSUME MismoRastreo, NEW w, E!Primario_eco(w), Puerto!Primario_eco(w),
         UNCHANGED rastreo, UNCHANGED Puerto!rastreo
  PROVE  MismoEfecto
<1> USE DEF MismoEfecto, MismoRastreo, rastreo, Puerto!rastreo, E!sectores,
            E!Nada, Puerto!X!P!Nada, MismaSalida
<1>0. /\ E!EsAzimut(w) <=> EsAzimut(w)
      /\ E!EsAltura(w) <=> EsAltura(w)
      /\ E!EsRango(w) <=> EsRango(w)
      /\ E!EsRango(w + 19) <=> EsRango(w + 19)
      /\ Puerto!EsAzimut(w) <=> EsAzimut(w)
      /\ Puerto!EsAltura(w) <=> EsAltura(w)
      /\ Puerto!EsRango(w) <=> EsRango(w)
      /\ Puerto!EsRango(w + 19) <=> EsRango(w + 19)
  BY DEF E!EsAzimut, E!EsAltura, E!EsRango, EsAzimut, EsAltura, EsRango,
         Puerto!EsAzimut, Puerto!EsAltura, Puerto!EsRango, E!AZ, E!RG, E!ALT, AZ,
         RG, ALT, Puerto!AZ, Puerto!RG, Puerto!ALT
<1>1. /\ EsAzimut(w) => ~EsAltura(w) /\ ~EsRango(w)
      /\ EsAltura(w) => ~EsRango(w)
  BY Aparte
<1>2. CASE E!AzimutEco(w)
  <2>1. /\ s_aztprom' = w - AZ
        /\ s_sectoranterior' = Sector(w - AZ)
        /\ IF s_sectoranterior' # s_sectoranterior
           THEN Puerto!cabecera(s_sectoranterior')
           ELSE s_salida' = Puerto!X!P!Nada /\ UNCHANGED s_SectorActual
    BY <1>0, <1>1, <1>2
      DEF E!AzimutEco, Puerto!Primario_eco, Puerto!AZ, AZ, Puerto!Sector, Sector
  <2> QED
    BY <1>2, <2>1
      DEF E!AzimutEco, E!CambiaSector, E!TramaCab, E!Sector, Sector, E!AZ, AZ,
          Puerto!cabecera, Puerto!X!P!TramaCab
<1>3. CASE E!RangoEco(w)
  <2>1. /\ Puerto!blancos(s_aztprom, w + 19, 0)
        /\ UNCHANGED <<s_aztprom, s_sectoranterior, s_SectorActual>>
    BY <1>0, <1>1, <1>3 DEF E!RangoEco, E!Corregido, Puerto!Primario_eco
  <2>2. E!blancos(aztprom, w + 19, 0) /\ UNCHANGED <<aztprom, sectoranterior, SectorActual>>
    BY <1>3 DEF E!RangoEco, E!Corregido
  <2>3. Puerto!X!P!AlSerie(s_aztprom) <=> E!AlSerie(aztprom)
    BY DEF E!AlSerie, Puerto!X!P!AlSerie, E!SectAnt, Puerto!X!P!SectAnt, E!Modulo,
           Puerto!X!P!Modulo, E!Sector, Puerto!X!P!Sector
  <2> DEFINE t == P!TramaBlanco(aztprom, w + 19, 0, E!AlSerie(aztprom))
  <2>4. salida' = t /\ s_salida' = t
    BY <2>1, <2>2, <2>3
      DEF E!blancos, E!TramaBlanco, Puerto!blancos, Puerto!X!P!blancos,
          Puerto!X!P!TramaBlanco, E!AlSerie, Puerto!X!P!AlSerie, P!TramaBlanco
  <2>5. MismaSalida'
    BY <2>4
  <2>6. MismoRastreo'
    BY <2>1, <2>2
  <2> QED
    BY <2>5, <2>6
<1>4. CASE E!IgnoraEco(w)
  BY <1>0, <1>1, <1>4 DEF E!IgnoraEco, E!Corregido, Puerto!Primario_eco
<1> QED
  BY <1>2, <1>3, <1>4 DEF E!Primario_eco

(* An iteration of both.                                                   *)
LEMMA PuertoItera ==
  ASSUME EIInv, Acoplado, Iteracion, Puerto!main
  PROVE  Acoplado'
<1>1. MismaPuerta'
  BY PasoPuerta DEF Acoplado, Iteracion, Puerto!main
<1>2. s_lectura' = lectura' /\ (s_pide' <=> pide') /\ Puerto!X!Ninguna = Ninguna
  BY <1>1 DEF MismaPuerta, Puerto!X!Ninguna, Ninguna
<1>3. CASE lectura' # Ninguna /\ ~eco
  <2>1. P!Lee(lectura') /\ UNCHANGED aztprom
    BY <1>3 DEF Iteracion, Procesa
  <2>2. Puerto!Primario(lectura') /\ UNCHANGED s_aztprom
    BY <1>2, <1>3 DEF Puerto!main, Puerto!main_Procesa
  <2>3. MismoEfecto
    BY <1>3, <2>1, <2>2, TiposDelRastreo, PuertoLee DEF Acoplado
  <2> QED
    BY <1>1, <2>3 DEF MismoEfecto, Acoplado
<1>4. CASE lectura' # Ninguna /\ eco
  <2>1. E!Primario_eco(lectura') /\ UNCHANGED rastreo
    BY <1>4 DEF Iteracion, Procesa
  <2>2. Puerto!Primario_eco(lectura') /\ UNCHANGED Puerto!rastreo
    BY <1>2, <1>4 DEF Puerto!main, Puerto!main_Procesa
  <2>3. MismoEfecto
    BY <2>1, <2>2, PuertoEco DEF Acoplado
  <2> QED
    BY <1>1, <2>3 DEF MismoEfecto, Acoplado
<1>5. CASE lectura' = Ninguna /\ pide'
  <2>1. P!PideResincronia /\ UNCHANGED aztprom
    BY <1>5 DEF Iteracion, Procesa
  <2>2. Puerto!X!P!PideResincronia /\ UNCHANGED s_aztprom
    BY <1>2, <1>5 DEF Puerto!main, Puerto!main_Procesa
  <2>3. MismoEfecto
    BY <2>1, <2>2
      DEF Acoplado, MismoEfecto, MismaSalida, MismoRastreo, P!PideResincronia,
          Puerto!X!P!PideResincronia, P!altura3, P!alturaFifo, P!sectores,
          Puerto!X!P!altura3, Puerto!X!P!alturaFifo, Puerto!X!P!sectores, P!Nada,
          Puerto!X!P!Nada
  <2> QED
    BY <1>1, <2>3 DEF MismoEfecto, Acoplado
<1>6. CASE lectura' = Ninguna /\ ~pide'
  <2>1. /\ salida' = P!Nada
        /\ UNCHANGED <<rastreo, sectoranterior, SectorActual, PlotBuffUDP, aztprom>>
    BY <1>6 DEF Iteracion, Procesa
  <2>2. /\ s_salida' = Puerto!X!P!Nada
        /\ UNCHANGED <<Puerto!rastreo, s_sectoranterior, s_SectorActual,
                       s_PlotBuffUDP, s_aztprom>>
    BY <1>2, <1>6 DEF Puerto!main, Puerto!main_Procesa
  <2>3. MismoEfecto
    BY <2>1, <2>2
      DEF Acoplado, MismoEfecto, MismaSalida, MismoRastreo, P!Nada,
          Puerto!X!P!Nada, rastreo, Puerto!rastreo
  <2> QED
    BY <1>1, <2>3 DEF MismoEfecto, Acoplado
<1> QED
  BY <1>3, <1>4, <1>5, <1>6

(* The steps of Versiones are steps of the program, or leave it alone.     *)
LEMMA PasoPrograma == [VNext]_vvars => [ENext]_evars
  BY DEF VNext, Sondean, Recorren, LlegaAmbosCom3, LlegaATodos, ENext, vvars

LEMMA PasoAcoplado ==
  ASSUME EIInv, Acoplado, [VNext]_vvars
  PROVE  Acoplado'
<1>1. CASE Sondean
  BY <1>1, PuertoItera DEF Sondean
<1>2. CASE Recorre /\ Puerto!Barrido
  <2>1. P!Barre /\ Puerto!X!P!Barre /\ UNCHANGED <<vars, aztprom>>
        /\ UNCHANGED <<Puerto!puerta, s_aztprom>>
    BY <1>2 DEF Recorre, Puerto!Barrido
  <2>2. MismaPuerta'
    BY <2>1 DEF Acoplado, MismaPuerta, vars, control, Puerto!puerta
  <2>3. ~eco
    BY <2>1 DEF EIInv, EnEco, P!Barre, P!Envejece, P!CaducaCorto, P!CaducaBlanco,
                P!FinBarrido
  <2> QED
    BY <2>1, <2>2, <2>3, PuertoBarre DEF Acoplado
<1>3. CASE pc = "lee" /\ Antes!Barrido /\ UNCHANGED <<evars, puerto>>
  BY <1>3 DEF Acoplado, MismaPuerta, MismoRastreo, MismaSalida, evars, vars, control,
    rastreo, reporte, puerto
<1>4. ASSUME NEW s \in SectoresCom3, NEW h \in AlturasCom3, LlegaAmbosCom3(s, h)
      PROVE  Acoplado'
  <2>1. UNCHANGED puerto /\ (LlegaCom3(s, h) \/ UNCHANGED evars)
    BY <1>4 DEF LlegaAmbosCom3
  <2>2. CASE UNCHANGED evars
    BY <2>1, <2>2 DEF Acoplado, MismaPuerta, MismoRastreo, MismaSalida, evars, vars,
      control, rastreo, reporte, puerto
  <2>3. CASE LlegaCom3(s, h)
    <3>1. /\ UNCHANGED <<vars, aztprom>> /\ P!LlegaAltura(s, h)
      BY <2>3 DEF LlegaCom3
    <3>2. MismaPuerta'
      BY <2>1, <3>1 DEF Acoplado, MismaPuerta, vars, control, puerto
    <3>3. MismoRastreo'
      BY <2>1, <3>1
        DEF Acoplado, MismoRastreo, P!LlegaAltura, P!seguimiento, P!alturaFifo,
            P!sectores, puerto
    <3>4. salida'.tipo = "nada"
      BY <3>1 DEF P!LlegaAltura, P!Nada
    <3> QED
      BY <3>2, <3>3, <3>4 DEF Acoplado, MismaSalida
  <2> QED
    BY <2>1, <2>2, <2>3
<1>5. ASSUME NEW w \in Palabras, LlegaATodos(w)
      PROVE  Acoplado'
  <2>1. LlegaPalabra(w) /\ Puerto!LlegaPalabra(w)
    BY <1>5 DEF LlegaATodos
  <2>2. /\ Llega(w) /\ UNCHANGED <<rastreo, reporte, aztprom>>
        /\ Puerto!X!Llega(w)
        /\ UNCHANGED <<Puerto!X!rastreo, Puerto!X!reporte, s_aztprom>>
    BY <2>1 DEF LlegaPalabra, Puerto!LlegaPalabra, Puerto!X!LlegaPalabra
  <2>3. MismaPuerta'
    BY <2>2 DEF Acoplado, MismaPuerta, Llega, Puerto!X!Llega, control,
      Puerto!X!control, Ninguna, Puerto!X!Ninguna
  <2> QED
    BY <2>2, <2>3 DEF Acoplado, MismoRastreo, MismaSalida, rastreo, reporte,
      Puerto!X!rastreo, Puerto!X!reporte
<1>6. CASE UNCHANGED vvars
  BY <1>6 DEF Acoplado, MismaPuerta, MismoRastreo, MismaSalida, evars, vars, control,
    rastreo, reporte, puerto, vvars
<1> QED
  BY <1>1, <1>2, <1>3, <1>4, <1>5, <1>6 DEF VNext, Recorren

LEMMA InicioAcoplado == VInit => EIInv /\ Acoplado
<1> SUFFICES ASSUME VInit PROVE EIInv /\ Acoplado
  OBVIOUS
<1>1. EIInv
  BY EIInvInicial DEF VInit
<1>2. MismaPuerta
  BY DEF VInit, EInit, Init, Puerto!Inicia, Puerto!X!EInit, Puerto!X!Init,
    MismaPuerta, Ninguna, Puerto!X!Ninguna
<1>3. MismoRastreo /\ salida.tipo # "blanco"
  BY DEF VInit, EInit, P!Init, P!InitSalida, P!Nada, E!InitEco, Puerto!Inicia,
    Puerto!X!EInit, Puerto!X!P!Init, Puerto!X!P!InitSalida, Puerto!X!P!Nada,
    Puerto!X!E!InitEco, MismoRastreo
<1> QED
  BY <1>1, <1>2, <1>3 DEF Acoplado, MismaSalida

(***************************************************************************)
(* The port follows the same targets as the program, and their plots are   *)
(* the same one by one, but for the height of COM3 in the plot it is given *)
(* to: the sectors, the order and the moment of every other output too.    *)
(***************************************************************************)
THEOREM SiempreMismosPlots == VSpec => []MismosPlots
<1>1. EIInv /\ Acoplado => MismosPlots
  <2> SUFFICES ASSUME Acoplado PROVE MismosPlots
    OBVIOUS
  <2>1. s_prs = prs
    BY DEF Acoplado, MismoRastreo
  <2>2. ASSUME salida.tipo = "blanco"
        PROVE  /\ s_salida = [salida EXCEPT !.alt = s_salida.alt]
               /\ s_salida.alt # salida.alt => salida.alt = alt_alt
    <3>1. PICK a, r, h, x, s : /\ salida = P!TramaBlanco(a, r, h, s)
                               /\ s_salida = P!TramaBlanco(a, r, x, s)
                               /\ x = h \/ h = alt_alt
      BY <2>2 DEF Acoplado, MismaSalida
    <3> QED
      BY <3>1 DEF P!TramaBlanco
  <2> QED
    BY <2>1, <2>2 DEF MismosPlots
<1>2. EIInv /\ [VNext]_vvars => EIInv'
  BY PasoPrograma, PasoEIInv, ENextEsEPaso
<1>3. EIInv /\ Acoplado /\ [VNext]_vvars => Acoplado'
  BY PasoAcoplado
<1> QED
  BY <1>1, <1>2, <1>3, InicioAcoplado, PTL DEF VSpec

-----------------------------------------------------------------------------
(***************************************************************************)
(* Beside the version it replaced.  The two programs are not step by step  *)
(* the same: the new one has targets in the miles the old one leaves out,  *)
(* and its loop over them takes more turns.  What is compared is what is   *)
(* beyond those miles, in order, as the loop will leave it (Lejanos).      *)
(* First the gates of both, and what their trackers make of a word.        *)
(***************************************************************************)

PuertaAntes ==
  /\ a_fifo = fifo /\ a_lleno = lleno
  /\ a_FlagIni = FlagIni /\ a_DatoAnt = DatoAnt /\ a_AzAnt = AzAnt
  /\ a_lectura = lectura /\ a_pide = pide /\ a_ultimo = ultimo

(* One iteration of both gates: the same decisions on the same words.      *)
LEMMA PasoPuertaAntes ==
  ASSUME PuertaAntes, Sondea, Antes!ChkFlag \/ Antes!CtrlDato
  PROVE  PuertaAntes'
<1> USE DEF PuertaAntes, Ninguna, Antes!X!Ninguna, Reinicia, Antes!X!Reinicia
<1>1. CASE Desborde
  <2>1. Antes!ChkFlag
    BY <1>1 DEF Desborde, Antes!CtrlDato, Antes!X!HayDato, Antes!X!ErrorClase,
      Antes!X!PrimerDato, Antes!X!ErrorAzimut, Antes!X!ErrorAltura, Antes!X!DatoBueno
  <2> QED
    BY <1>1, <2>1 DEF Desborde, Antes!ChkFlag, Antes!X!Desborde
<1>2. CASE HayDato
  <2> DEFINE w == Dato
  <2>1. Antes!CtrlDato /\ Antes!X!HayDato /\ Antes!X!Dato = w
    BY <1>2 DEF HayDato, Antes!ChkFlag, Antes!X!Desborde,
                Dato, Antes!X!Dato, Antes!X!HayDato
  <2> HIDE DEF w
  <2>2. /\ Antes!X!EsValida(w) <=> EsValida(w)
        /\ Antes!X!EsAzimut(w) <=> EsAzimut(w)
        /\ Antes!X!EsAltura(w) <=> EsAltura(w)
        /\ Antes!X!EsAltura(a_DatoAnt) <=> EsAltura(DatoAnt)
        /\ Antes!X!Retrocede(w) <=> Retrocede(w)
    <3> USE DEF AZ, RG, ALT, Antes!X!AZ, Antes!X!RG, Antes!X!ALT
    <3>1. Antes!X!EsAzimut(w) <=> EsAzimut(w)
      BY DEF EsAzimut, Antes!X!EsAzimut
    <3>2. Antes!X!EsAltura(w) <=> EsAltura(w)
      BY DEF EsAltura, Antes!X!EsAltura
    <3>3. Antes!X!EsRango(w) <=> EsRango(w)
      BY DEF EsRango, Antes!X!EsRango
    <3>4. Antes!X!EsAltura(a_DatoAnt) <=> EsAltura(DatoAnt)
      BY DEF EsAltura, Antes!X!EsAltura
    <3>5. Antes!X!Retrocede(w) <=> Retrocede(w)
      BY DEF Retrocede, CambioDeVuelta, Antes!X!Retrocede,
             Antes!X!CambioDeVuelta
    <3> QED
      BY <3>1, <3>2, <3>3, <3>4, <3>5 DEF EsValida, Antes!X!EsValida
  <2>3. EsAzimut(w) => EsValida(w) /\ ~EsAltura(w)
    BY Aparte DEF EsValida
  <2>4. EsAltura(w) => EsValida(w)
    BY DEF EsValida
  <2>5. CASE ~EsValida(w)
    <3>1. ErrorClase
      BY <1>2, <2>3, <2>4, <2>5
        DEF w, Sondea, Pierde, Rechaza, Desborde, HayDato, PrimerDato,
            ErrorAzimut, ErrorAltura, DatoBueno
    <3>2. Antes!X!ErrorClase
      BY <2>1, <2>2, <2>3, <2>4, <2>5
        DEF Antes!CtrlDato, Antes!X!PrimerDato, Antes!X!ErrorAzimut,
            Antes!X!ErrorAltura, Antes!X!DatoBueno
    <3> QED
      BY <3>1, <3>2 DEF ErrorClase, Antes!X!ErrorClase
  <2>6. CASE EsValida(w) /\ FlagIni = 0
    <3>1. PrimerDato
      BY <1>2, <2>6
        DEF w, Sondea, Pierde, Rechaza, Desborde, HayDato, ErrorClase,
            ErrorAzimut, ErrorAltura, DatoBueno
    <3>2. Antes!X!PrimerDato
      BY <2>1, <2>2, <2>6
        DEF Antes!CtrlDato, Antes!X!ErrorClase, Antes!X!ErrorAzimut,
            Antes!X!ErrorAltura, Antes!X!DatoBueno
    <3> QED
      BY <2>1, <2>2, <3>1, <3>2
        DEF PrimerDato, Antes!X!PrimerDato, Pasa, Antes!X!Pasa, w
  <2>7. CASE EsValida(w) /\ FlagIni # 0 /\ EsAzimut(w) /\ Retrocede(w)
    <3>1. ErrorAzimut
      BY <1>2, <2>3, <2>7
        DEF w, Sondea, Pierde, Rechaza, Desborde, HayDato, ErrorClase,
            PrimerDato, ErrorAltura, DatoBueno
    <3>2. Antes!X!ErrorAzimut
      BY <2>1, <2>2, <2>3, <2>7
        DEF Antes!CtrlDato, Antes!X!ErrorClase, Antes!X!PrimerDato,
            Antes!X!ErrorAltura, Antes!X!DatoBueno
    <3> QED
      BY <2>1, <3>1, <3>2 DEF ErrorAzimut, Antes!X!ErrorAzimut, w
  <2>8. CASE EsValida(w) /\ FlagIni # 0 /\ EsAltura(w) /\ EsAltura(DatoAnt)
    <3>1. ErrorAltura
      BY <1>2, <2>3, <2>8
        DEF w, Sondea, Pierde, Rechaza, Desborde, HayDato, ErrorClase,
            PrimerDato, ErrorAzimut, DatoBueno
    <3>2. Antes!X!ErrorAltura
      BY <2>1, <2>2, <2>3, <2>8
        DEF Antes!CtrlDato, Antes!X!ErrorClase, Antes!X!PrimerDato,
            Antes!X!ErrorAzimut, Antes!X!DatoBueno
    <3> QED
      BY <3>1, <3>2 DEF ErrorAltura, Antes!X!ErrorAltura
  <2>9. CASE /\ EsValida(w) /\ FlagIni # 0
             /\ ~(EsAzimut(w) /\ Retrocede(w))
             /\ ~(EsAltura(w) /\ EsAltura(DatoAnt))
    <3>1. DatoBueno
      BY <1>2, <2>9
        DEF w, Sondea, Pierde, Rechaza, Desborde, HayDato, ErrorClase,
            PrimerDato, ErrorAzimut, ErrorAltura
    <3>2. Antes!X!DatoBueno
      BY <2>1, <2>2, <2>9
        DEF Antes!CtrlDato, Antes!X!ErrorClase, Antes!X!PrimerDato,
            Antes!X!ErrorAzimut, Antes!X!ErrorAltura
    <3> QED
      BY <2>1, <2>2, <3>1, <3>2
        DEF DatoBueno, Antes!X!DatoBueno, Pasa, Antes!X!Pasa, w
  <2> QED
    BY <2>5, <2>6, <2>7, <2>8, <2>9
<1> QED
  BY <1>1, <1>2 DEF Sondea, Pierde, Rechaza, ErrorClase, ErrorAzimut, ErrorAltura,
    PrimerDato, DatoBueno

(* Every word that waits is one that may arrive. *)
LEMMA SonPalabras ==
  ASSUME fifo \in Seq(Palabras), Sondea
  PROVE  fifo' \in Seq(Palabras) /\ (lectura' = Ninguna \/ lectura' \in Palabras)
<1>1. CASE Pierde \/ Rechaza
  BY <1>1, EmptySeq DEF Pierde, Rechaza, Desborde, ErrorClase, ErrorAzimut, ErrorAltura,
    Reinicia
<1>2. CASE PrimerDato \/ DatoBueno
  BY <1>2, HeadTailProperties DEF PrimerDato, DatoBueno, Pasa, HayDato, Dato
<1> QED
  BY <1>1, <1>2 DEF Sondea

(* The two trackers tell words apart in the same way, but for the area     *)
(* that is not processed.                                                  *)
LEMMA AntesClases ==
  ASSUME NEW w
  PROVE  /\ P!EsAzimut(w) <=> EsAzimut(w)
         /\ P!EsAltura(w) <=> EsAltura(w)
         /\ P!EsRango(w) <=> EsRango(w)
         /\ P!Procesable(w) <=> EsRango(w) /\ w - RG >= AREA_INHIBICION
         /\ Antes!X!P!EsAzimut(w) <=> EsAzimut(w)
         /\ Antes!X!P!EsAltura(w) <=> EsAltura(w)
         /\ Antes!X!P!EsRango(w) <=> EsRango(w)
         /\ Antes!X!P!Procesable(w) <=> Lejos(w)
         /\ Lejos(w) => P!Procesable(w) /\ EsRango(w)
         /\ P!Procesable(w) => EsRango(w) /\ (Lejos(w) \/ Cerca(w))
         /\ ~(Lejos(w) /\ Cerca(w))
<1>1. /\ P!EsAzimut(w) <=> EsAzimut(w)
      /\ P!EsAltura(w) <=> EsAltura(w)
      /\ P!EsRango(w) <=> EsRango(w)
  BY DEF P!EsAzimut, P!EsAltura, P!EsRango, EsAzimut, EsAltura, EsRango,
         P!AZ, P!RG, P!ALT, AZ, RG, ALT
<1>2. /\ Antes!X!P!EsAzimut(w) <=> EsAzimut(w)
      /\ Antes!X!P!EsAltura(w) <=> EsAltura(w)
      /\ Antes!X!P!EsRango(w) <=> EsRango(w)
  BY DEF Antes!X!P!EsAzimut, Antes!X!P!EsAltura, Antes!X!P!EsRango, EsAzimut,
         EsAltura, EsRango, Antes!X!P!AZ, Antes!X!P!RG, Antes!X!P!ALT, AZ, RG, ALT
<1>3. P!Procesable(w) <=> EsRango(w) /\ w - RG >= AREA_INHIBICION
  BY <1>1 DEF P!Procesable, P!RG, RG
<1>4. Antes!X!P!Procesable(w) <=> Lejos(w)
  BY <1>2 DEF Antes!X!P!Procesable, Antes!X!P!RG, RG, Lejos, QuinceMillas, Antes!AREA_FIJA
<1>5. EsRango(w) => w \in Int
  BY DEF EsRango, RG
<1>6. AREA_INHIBICION \in Int /\ AREA_INHIBICION <= 65
  BY ExtractorAssumption, VersionesAssumption DEF QuinceMillas
<1> QED
  BY <1>1, <1>2, <1>3, <1>4, <1>5, <1>6 DEF Lejos, Cerca, QuinceMillas, RG

(* The search and what it is used for, as functions of the list.           *)
LEMMA AntesCorrelacion ==
  ASSUME NEW r
  PROVE  /\ P!Correlacion(r) = Correlacionan(prs, r)
         /\ P!MasCercano(r) = ElMasCercano(prs, r)
         /\ P!Registra(r) = Anotada(prs, r, aztant)
         /\ Antes!X!P!Correlacion(r) = Correlacionan(a_prs, r)
         /\ Antes!X!P!MasCercano(r) = ElMasCercano(a_prs, r)
         /\ Antes!X!P!Registra(r) = Anotada(a_prs, r, a_aztant)
<1> USE DEF P!Modulo, P!Puerta, Antes!X!P!Modulo, Antes!X!P!Puerta, Modulo, Puerta
<1>1. /\ P!Correlacion(r) = Correlacionan(prs, r)
      /\ Antes!X!P!Correlacion(r) = Correlacionan(a_prs, r)
  BY Zenon DEF P!Correlacion, Antes!X!P!Correlacion, Correlacionan
<1>2. P!MasCercano(r) = ElMasCercano(prs, r)
  BY <1>1, ZenonT(30) DEF P!MasCercano, ElMasCercano
<1>3. Antes!X!P!MasCercano(r) = ElMasCercano(a_prs, r)
  BY <1>1, ZenonT(30) DEF Antes!X!P!MasCercano, ElMasCercano
<1> QED
  BY <1>1, <1>2, <1>3
    DEF P!Registra, Antes!X!P!Registra, P!Nuevo, Antes!X!P!Nuevo, Anotada

(* Each copy keeps its types.                                              *)
Formas ==
  /\ Serie(prs) /\ Serie(a_prs)
  /\ rangoinic \in Oidos /\ a_rangoinic \in Oidos
  /\ aztant \in Int /\ AlturaTemp \in Int
  /\ j \in Nat \ {0} /\ a_j \in Nat \ {0}

(* The echo that waits for its target, when it is one of the far ones.     *)
EsperaLejos == bandera = 0 /\ Lejos(rangoinic)
EsperaLejosAntes == a_bandera = 0 /\ Lejos(a_rangoinic)

MismaVentana ==
  /\ a_banderainic = banderainic /\ a_azimuth = azimuth /\ a_aztant = aztant
  /\ a_bandera_azt = bandera_azt
  /\ a_PrsAltura = PrsAltura /\ a_AlturaTemp = AlturaTemp

MismaEspera ==
  /\ EsperaLejos <=> EsperaLejosAntes
  /\ EsperaLejos => a_rangoinic = rangoinic

MismoFuturo ==
  \A x, y : Seguiran(prs, j, pc, x, y) <=> Seguiran(a_prs, a_j, a_pc, x, y)

Acorde == Formas /\ MismaVentana /\ MismaEspera /\ MismoFuturo

(* Between words MismoFuturo is about the lists themselves.                *)
LEMMA MismosAlLeer ==
  ASSUME MismoFuturo, pc = "lee", a_pc = "lee"
  PROVE  Mismos(prs, a_prs)
  BY AlLeer DEF MismoFuturo, Mismos

LEMMA FuturoAlLeer ==
  ASSUME pc' = "lee", a_pc' = "lee", Mismos(prs', a_prs')
  PROVE  MismoFuturo'
<1>1. \A p, n, x, y : Seguiran(p, n, "lee", x, y) <=> Ordenados(p, x, y)
  BY AlLeer
<1> QED
  BY <1>1 DEF MismoFuturo, Mismos

LEMMA MismosTransitiva ==
  ASSUME NEW p, NEW q, NEW r, NEW s, Mismos(p, q), Mismos(r, p), Mismos(s, q)
  PROVE  Mismos(r, s)
  BY DEF Mismos

LEMMA SerieVacia == Serie(<<>>) /\ Mismos(<<>>, <<>>)
  BY EmptySeq DEF Serie, Mismos

(* The echoes of both, one by one.                                         *)
LEMMA DeVivos ==
  ASSUME NEW O, Vivos \subseteq O
  PROVE  /\ RangosDe(prs) \subseteq O /\ RangosDe(a_prs) \subseteq O
         /\ bandera = 0 => rangoinic \in O
         /\ a_bandera = 0 => a_rangoinic \in O
<1>1. RangosDe(prs) \subseteq O /\ RangosDe(a_prs) \subseteq O
  BY DEF Vivos
<1>2. Pendiente(bandera, rangoinic) \subseteq O
  BY DEF Vivos
<1>3. Pendiente(a_bandera, a_rangoinic) \subseteq O
  BY DEF Vivos
<1> QED
  BY <1>1, <1>2, <1>3 DEF Pendiente

(* The echo that waits is given to a target by both, or by each for its    *)
(* own near ones.                                                          *)
LEMMA AmbosAnotan ==
  ASSUME Acorde, pc = "lee", a_pc = "lee", NEW O, Separadas(O), Vivos \subseteq O,
         NEW t, NEW s,
         t = IF bandera = 0 THEN Anotada(prs, rangoinic, aztant) ELSE prs,
         s = IF a_bandera = 0 THEN Anotada(a_prs, a_rangoinic, a_aztant) ELSE a_prs
  PROVE  Serie(t) /\ Serie(s) /\ Mismos(t, s)
<1>0. /\ Serie(prs) /\ Serie(a_prs) /\ Mismos(prs, a_prs)
      /\ rangoinic \in Oidos /\ a_rangoinic \in Oidos
      /\ aztant \in Int /\ a_aztant = aztant
  BY MismosAlLeer DEF Acorde, Formas, MismaVentana
<1>1. Serie(t) /\ Serie(s)
  BY <1>0, AnotadaSerie
<1>2. CASE EsperaLejos
  <2>1. /\ bandera = 0 /\ a_bandera = 0 /\ a_rangoinic = rangoinic
        /\ Lejos(rangoinic)
    BY <1>2 DEF Acorde, MismaEspera, EsperaLejos, EsperaLejosAntes
  <2> QED
    BY <1>0, <1>1, <2>1, AnotadaLejos, DeVivos
<1>3. CASE ~EsperaLejos
  <2>1. ~EsperaLejosAntes
    BY <1>3 DEF Acorde, MismaEspera
  <2>2. Mismos(prs, prs) /\ Mismos(a_prs, a_prs)
    BY DEF Mismos
  <2>3. Mismos(t, prs)
    BY <1>0, <1>3, <2>2, AnotadaCerca, DeVivos DEF EsperaLejos
  <2>4. Mismos(s, a_prs)
    BY <1>0, <2>1, <2>2, AnotadaCerca, DeVivos DEF EsperaLejosAntes
  <2> QED
    BY <1>0, <1>1, <2>3, <2>4, MismosTransitiva
<1> QED
  BY <1>2, <1>3

(* Both take the azimuth: the echo that waits is given, the loop begins.   *)
LEMMA AntesAzimut ==
  ASSUME Acorde, NEW O, Separadas(O), Vivos \subseteq O,
         NEW w \in Palabras, P!AzimutAceptado(w), Antes!X!P!AzimutAceptado(w)
  PROVE  Acorde'
<1> USE DEF P!altura3, P!alturaFifo, P!sectores, P!seguimiento,
            Antes!X!P!altura3, Antes!X!P!alturaFifo, Antes!X!P!sectores,
            Antes!X!P!seguimiento
<1>0. /\ EsAzimut(w) /\ pc = "lee" /\ a_pc = "lee"
  BY AntesClases DEF P!AzimutAceptado, Antes!X!P!AzimutAceptado
<1>1. PICK t, s :
        /\ t = IF bandera = 0 THEN Anotada(prs, rangoinic, aztant) ELSE prs
        /\ s = IF a_bandera = 0 THEN Anotada(a_prs, a_rangoinic, a_aztant) ELSE a_prs
  OBVIOUS
<1>2. prs' = t /\ a_prs' = s
  BY <1>1, AntesCorrelacion DEF P!AzimutAceptado, Antes!X!P!AzimutAceptado
<1>3. Serie(t) /\ Serie(s) /\ Mismos(t, s)
  BY <1>0, <1>1, AmbosAnotan
<1>4. w \in Int
  BY <1>0 DEF EsAzimut, AZ
<1>5. Formas'
  BY <1>2, <1>3, <1>4
    DEF Acorde, Formas, P!AzimutAceptado, Antes!X!P!AzimutAceptado, P!AZ
<1>6. MismaVentana'
  BY DEF Acorde, MismaVentana, P!AzimutAceptado, Antes!X!P!AzimutAceptado, P!AZ,
    Antes!X!P!AZ
<1>7. MismaEspera'
  BY DEF MismaEspera, EsperaLejos, EsperaLejosAntes, P!AzimutAceptado,
    Antes!X!P!AzimutAceptado
<1>8. \A x, y : Seguiran(t, 1, "barre", x, y) <=> Seguiran(s, 1, "barre", x, y)
  BY <1>3, MismosAlEmpezar
<1>9. /\ prs' = t /\ j' = 1 /\ pc' = "barre"
      /\ a_prs' = s /\ a_j' = 1 /\ a_pc' = "barre"
  BY <1>2 DEF P!AzimutAceptado, Antes!X!P!AzimutAceptado
<1> QED
  BY <1>5, <1>6, <1>7, <1>8, <1>9 DEF Acorde, MismoFuturo

(* Both refuse it: the targets are dropped, or kept, by both.              *)
LEMMA AntesRechaza ==
  ASSUME Acorde, NEW w, P!AzimutRechazado(w), Antes!X!P!AzimutRechazado(w)
  PROVE  Acorde'
<1>1. /\ Serie(prs) /\ Serie(a_prs) /\ Mismos(prs, a_prs)
      /\ a_azimuth = azimuth /\ a_bandera_azt = bandera_azt
  BY MismosAlLeer DEF Acorde, Formas, MismaVentana, P!AzimutRechazado,
    Antes!X!P!AzimutRechazado
<1>2. /\ prs' = IF w = azimuth THEN prs ELSE <<>>
      /\ a_prs' = IF w = azimuth THEN a_prs ELSE <<>>
      /\ pc' = "lee" /\ a_pc' = "lee"
      /\ UNCHANGED <<bandera, rangoinic, azimuth, aztant, AlturaTemp, j>>
      /\ UNCHANGED <<a_bandera, a_rangoinic, a_azimuth, a_aztant, a_AlturaTemp, a_j>>
      /\ PrsAltura' = 0 /\ a_PrsAltura' = 0 /\ banderainic' = 1 /\ a_banderainic' = 1
      /\ a_bandera_azt' = bandera_azt'
  BY <1>1 DEF P!AzimutRechazado, Antes!X!P!AzimutRechazado
<1>3. Serie(prs') /\ Serie(a_prs') /\ Mismos(prs', a_prs')
  BY <1>1, <1>2, SerieVacia
<1>4. Formas'
  BY <1>2, <1>3 DEF Acorde, Formas
<1>5. MismaVentana' /\ MismaEspera'
  BY <1>2 DEF Acorde, MismaVentana, MismaEspera, EsperaLejos, EsperaLejosAntes
<1>6. MismoFuturo'
  BY <1>2, <1>3, FuturoAlLeer
<1> QED
  BY <1>4, <1>5, <1>6 DEF Acorde

RangoDelPrograma(w) ==
  P!RangoIgnorado(w) \/ P!PrimerEco(w) \/ P!OtroEco(w) \/ P!RangoAltura(w)

RangoDeAntes(w) ==
  \/ Antes!X!P!RangoIgnorado(w) \/ Antes!X!P!PrimerEco(w)
  \/ Antes!X!P!OtroEco(w) \/ Antes!X!P!RangoAltura(w)

(* A far echo when the one that waits, if any, is not: it waits now.       *)
LEMMA EsperaNueva ==
  ASSUME Formas, NEW O, Separadas(O), Vivos \subseteq O,
         NEW w \in O, w \in Oidos, Lejos(w), RangoDelPrograma(w),
         PrsAltura = 0, bandera_azt = 1, ~EsperaLejos
  PROVE  /\ bandera' = 0 /\ rangoinic' = w /\ Serie(prs') /\ Mismos(prs', prs)
         /\ UNCHANGED <<banderainic, azimuth, aztant, bandera_azt, PrsAltura,
                        AlturaTemp, pc, j>>
<1> USE DEF P!altura3, P!alturaFifo, P!sectores, P!seguimiento
<1>1. P!Procesable(w) /\ ~P!RangoAltura(w)
  BY AntesClases DEF P!RangoAltura
<1>2. ~P!RangoIgnorado(w)
  <2>1. bandera = 0 => w - rangoinic > tolerancia
    BY Alejados, DeVivos, OidosSon, PalabraAssumption DEF Formas, EsperaLejos
  <2>2. w \in Int /\ rangoinic \in Int /\ tolerancia \in Int
    BY OidosSon, PalabraAssumption DEF Formas
  <2> QED
    BY <1>1, <2>1, <2>2 DEF P!RangoIgnorado
<1>3. CASE P!PrimerEco(w)
  BY <1>3 DEF P!PrimerEco, Formas, Mismos
<1>4. CASE P!OtroEco(w)
  <2>1. bandera = 0 /\ prs' = Anotada(prs, rangoinic, aztant)
    BY <1>4, AntesCorrelacion DEF P!OtroEco
  <2>2. Serie(prs') /\ Mismos(prs', prs)
    BY <2>1, AnotadaSerie, AnotadaCerca, DeVivos DEF Formas, EsperaLejos
  <2> QED
    BY <1>4, <2>1, <2>2 DEF P!OtroEco
<1> QED
  BY <1>1, <1>2, <1>3, <1>4 DEF RangoDelPrograma

(* The same in the old program.                                            *)
LEMMA EsperaNuevaAntes ==
  ASSUME Formas, a_aztant = aztant, NEW O, Separadas(O), Vivos \subseteq O,
         NEW w \in O, w \in Oidos, Lejos(w), RangoDeAntes(w),
         a_PrsAltura = 0, a_bandera_azt = 1, ~EsperaLejosAntes
  PROVE  /\ a_bandera' = 0 /\ a_rangoinic' = w
         /\ Serie(a_prs') /\ Mismos(a_prs', a_prs)
         /\ UNCHANGED <<a_banderainic, a_azimuth, a_aztant, a_bandera_azt,
                        a_PrsAltura, a_AlturaTemp, a_pc, a_j>>
<1> USE DEF Antes!X!P!altura3, Antes!X!P!alturaFifo, Antes!X!P!sectores,
            Antes!X!P!seguimiento
<1>1. Antes!X!P!Procesable(w) /\ ~Antes!X!P!RangoAltura(w)
  BY AntesClases DEF Antes!X!P!RangoAltura
<1>2. ~Antes!X!P!RangoIgnorado(w)
  <2>1. a_bandera = 0 => w - a_rangoinic > tolerancia
    BY Alejados, DeVivos, OidosSon, PalabraAssumption DEF Formas, EsperaLejosAntes
  <2>2. w \in Int /\ a_rangoinic \in Int /\ tolerancia \in Int
    BY OidosSon, PalabraAssumption DEF Formas
  <2> QED
    BY <1>1, <2>1, <2>2 DEF Antes!X!P!RangoIgnorado
<1>3. CASE Antes!X!P!PrimerEco(w)
  BY <1>3 DEF Antes!X!P!PrimerEco, Formas, Mismos
<1>4. CASE Antes!X!P!OtroEco(w)
  <2>1. a_bandera = 0 /\ a_prs' = Anotada(a_prs, a_rangoinic, a_aztant)
    BY <1>4, AntesCorrelacion DEF Antes!X!P!OtroEco
  <2>2. Serie(a_prs') /\ Mismos(a_prs', a_prs)
    BY <2>1, AnotadaSerie, AnotadaCerca, DeVivos DEF Formas, EsperaLejosAntes
  <2> QED
    BY <1>4, <2>1, <2>2 DEF Antes!X!P!OtroEco
<1> QED
  BY <1>1, <1>2, <1>3, <1>4 DEF RangoDeAntes

(* A near echo: the old program ignores it, and whatever the new one does  *)
(* with it, the far targets and the far echo that waits stay.              *)
LEMMA RangoCercano ==
  ASSUME Acorde, pc = "lee", a_pc = "lee", NEW O, Separadas(O), Vivos \subseteq O,
         NEW w \in O, w \in Oidos, Cerca(w), PrsAltura # 1,
         RangoDelPrograma(w), RangoDeAntes(w)
  PROVE  Acorde'
<1> USE DEF P!altura3, P!alturaFifo, P!sectores, P!seguimiento,
            Antes!X!P!altura3, Antes!X!P!alturaFifo, Antes!X!P!sectores,
            Antes!X!P!seguimiento
<1>0. /\ Serie(prs) /\ Serie(a_prs) /\ Mismos(prs, a_prs)
      /\ rangoinic \in Oidos /\ aztant \in Int
      /\ ~Lejos(w) /\ ~Antes!X!P!Procesable(w)
  BY MismosAlLeer, AntesClases DEF Acorde, Formas
<1>1. /\ UNCHANGED <<a_prs, a_bandera, a_rangoinic, a_banderainic, a_azimuth, a_aztant,
                     a_bandera_azt, a_PrsAltura, a_AlturaTemp, a_pc, a_j>>
  BY <1>0 DEF RangoDeAntes, Antes!X!P!RangoIgnorado, Antes!X!P!PrimerEco,
    Antes!X!P!OtroEco, Antes!X!P!RangoAltura
<1>2. /\ UNCHANGED <<banderainic, azimuth, aztant, bandera_azt, PrsAltura,
                     AlturaTemp, pc, j>>
  BY DEF RangoDelPrograma, P!RangoIgnorado, P!PrimerEco, P!OtroEco, P!RangoAltura
<1>3. /\ Serie(prs') /\ Mismos(prs', prs) /\ rangoinic' \in Oidos
      /\ EsperaLejos' <=> EsperaLejos
      /\ EsperaLejos => rangoinic' = rangoinic
  <2>0. Mismos(prs, prs)
    BY DEF Mismos
  <2>1. CASE P!RangoIgnorado(w)
    BY <1>0, <2>0, <2>1 DEF P!RangoIgnorado, EsperaLejos
  <2>2. CASE P!PrimerEco(w)
    BY <1>0, <2>0, <2>2 DEF P!PrimerEco, EsperaLejos
  <2>3. CASE P!OtroEco(w)
    <3>1. bandera = 0 /\ w - rangoinic > tolerancia /\ bandera' = 0 /\ rangoinic' = w
          /\ prs' = Anotada(prs, rangoinic, aztant)
      BY <2>3, AntesCorrelacion DEF P!OtroEco
    <3>2. ~Lejos(rangoinic)
      <4>1. w \in Int /\ rangoinic \in Int /\ tolerancia \in Nat
        BY <1>0, OidosSon, PalabraAssumption
      <4> QED
        BY <3>1, <4>1 DEF Lejos, Cerca, QuinceMillas, RG
    <3> QED
      BY <1>0, <3>1, <3>2, AnotadaSerie, AnotadaCerca, DeVivos DEF EsperaLejos
  <2> QED
    BY <2>1, <2>2, <2>3 DEF RangoDelPrograma, P!RangoAltura
<1>4. Formas'
  BY <1>1, <1>2, <1>3 DEF Acorde, Formas
<1>5. MismaVentana' /\ MismaEspera'
  BY <1>1, <1>2, <1>3 DEF Acorde, MismaVentana, MismaEspera, EsperaLejosAntes, EsperaLejos
<1>6. Mismos(prs', a_prs')
  BY <1>0, <1>1, <1>3 DEF Mismos
<1> QED
  BY <1>1, <1>2, <1>4, <1>5, <1>6, FuturoAlLeer DEF Acorde

(* A far echo.                                                             *)
LEMMA RangoLejano ==
  ASSUME Acorde, pc = "lee", a_pc = "lee", NEW O, Separadas(O), Vivos \subseteq O,
         NEW w \in O, w \in Oidos, Lejos(w),
         RangoDelPrograma(w), RangoDeAntes(w)
  PROVE  Acorde'
<1> USE DEF P!altura3, P!alturaFifo, P!sectores, P!seguimiento,
            Antes!X!P!altura3, Antes!X!P!alturaFifo, Antes!X!P!sectores,
            Antes!X!P!seguimiento
<1>0. /\ Serie(prs) /\ Serie(a_prs) /\ Mismos(prs, a_prs)
      /\ rangoinic \in Oidos /\ a_rangoinic \in Oidos /\ aztant \in Int
      /\ AlturaTemp \in Int
      /\ a_aztant = aztant /\ a_AlturaTemp = AlturaTemp
      /\ a_PrsAltura = PrsAltura /\ a_bandera_azt = bandera_azt
      /\ P!Procesable(w) /\ Antes!X!P!Procesable(w)
  BY MismosAlLeer, AntesClases DEF Acorde, Formas, MismaVentana
<1>1. CASE PrsAltura = 1
  <2>1. P!RangoAltura(w) /\ Antes!X!P!RangoAltura(w)
    BY <1>0, <1>1 DEF RangoDelPrograma, RangoDeAntes, P!RangoIgnorado, P!PrimerEco,
      P!OtroEco, Antes!X!P!RangoIgnorado, Antes!X!P!PrimerEco, Antes!X!P!OtroEco
  <2>2. prs' = ConAltura(prs, w, AlturaTemp)
    <3>1. P!Correlacion(w) = Correlacionan(prs, w)
          /\ P!MasCercano(w) = ElMasCercano(prs, w)
      BY AntesCorrelacion
    <3> QED
      BY <2>1, <3>1 DEF P!RangoAltura, ConAltura
  <2>3. a_prs' = ConAltura(a_prs, w, AlturaTemp)
    <3>1. Antes!X!P!Correlacion(w) = Correlacionan(a_prs, w)
          /\ Antes!X!P!MasCercano(w) = ElMasCercano(a_prs, w)
      BY AntesCorrelacion
    <3> QED
      BY <1>0, <2>1, <3>1 DEF Antes!X!P!RangoAltura, ConAltura
  <2>4. Serie(prs') /\ Serie(a_prs') /\ Mismos(prs', a_prs')
    BY <1>0, <2>2, <2>3, ConAlturaSerie, ConAlturaLejos, DeVivos
  <2>5. Formas'
    BY <2>1, <2>4 DEF Acorde, Formas, P!RangoAltura, Antes!X!P!RangoAltura
  <2>6. MismaVentana' /\ MismaEspera'
    BY <2>1 DEF Acorde, MismaVentana, MismaEspera, EsperaLejos, EsperaLejosAntes,
      P!RangoAltura, Antes!X!P!RangoAltura
  <2>7. pc' = "lee" /\ a_pc' = "lee"
    BY <2>1 DEF P!RangoAltura, Antes!X!P!RangoAltura
  <2> QED
    BY <2>4, <2>5, <2>6, <2>7, FuturoAlLeer DEF Acorde
<1>2. CASE PrsAltura = 0 /\ bandera_azt = 1 /\ EsperaLejos
  <2>1. /\ bandera = 0 /\ a_bandera = 0 /\ a_rangoinic = rangoinic /\ Lejos(rangoinic)
    BY <1>2 DEF Acorde, MismaEspera, EsperaLejos, EsperaLejosAntes
  <2>2. CASE w - rangoinic <= tolerancia
    <3>1. P!RangoIgnorado(w) /\ Antes!X!P!RangoIgnorado(w)
      <4>1. w \in Int /\ rangoinic \in Int /\ tolerancia \in Int
        BY <1>0, OidosSon, PalabraAssumption
      <4>2. ~(w - rangoinic > tolerancia)
        BY <2>2, <4>1
      <4> QED
        BY <1>0, <1>2, <2>1, <4>2
          DEF RangoDelPrograma, RangoDeAntes, P!PrimerEco, P!OtroEco,
              P!RangoAltura, Antes!X!P!PrimerEco, Antes!X!P!OtroEco,
              Antes!X!P!RangoAltura
    <3>2. UNCHANGED <<prs, bandera, rangoinic, banderainic, azimuth, aztant, bandera_azt,
                      PrsAltura, AlturaTemp, pc, j>>
      BY <3>1 DEF P!RangoIgnorado
    <3>3. UNCHANGED <<a_prs, a_bandera, a_rangoinic, a_banderainic, a_azimuth, a_aztant,
                      a_bandera_azt, a_PrsAltura, a_AlturaTemp, a_pc, a_j>>
      BY <3>1 DEF Antes!X!P!RangoIgnorado
    <3> QED
      BY <3>2, <3>3 DEF Acorde, Formas, MismaVentana, MismaEspera, EsperaLejos,
        EsperaLejosAntes, MismoFuturo
  <2>3. CASE ~(w - rangoinic <= tolerancia)
    <3>1. P!OtroEco(w) /\ Antes!X!P!OtroEco(w)
      BY <1>0, <1>2, <2>1, <2>3
        DEF RangoDelPrograma, RangoDeAntes, P!RangoIgnorado, P!PrimerEco,
            P!RangoAltura, Antes!X!P!RangoIgnorado, Antes!X!P!PrimerEco,
            Antes!X!P!RangoAltura
    <3>2. /\ prs' = Anotada(prs, rangoinic, aztant)
          /\ a_prs' = Anotada(a_prs, rangoinic, aztant)
      BY <1>0, <2>1, <3>1, AntesCorrelacion DEF P!OtroEco, Antes!X!P!OtroEco
    <3>3. Serie(prs') /\ Serie(a_prs') /\ Mismos(prs', a_prs')
      BY <1>0, <2>1, <3>2, AnotadaSerie, AnotadaLejos, DeVivos
    <3>4. Formas'
      BY <3>1, <3>3 DEF Acorde, Formas, P!OtroEco, Antes!X!P!OtroEco
    <3>5. MismaVentana' /\ MismaEspera'
      BY <2>1, <3>1 DEF Acorde, MismaVentana, MismaEspera, EsperaLejos,
        EsperaLejosAntes, P!OtroEco, Antes!X!P!OtroEco
    <3>6. pc' = "lee" /\ a_pc' = "lee"
      BY <3>1 DEF P!OtroEco, Antes!X!P!OtroEco
    <3> QED
      BY <3>3, <3>4, <3>5, <3>6, FuturoAlLeer DEF Acorde
  <2> QED
    BY <2>2, <2>3
<1>3. CASE PrsAltura = 0 /\ bandera_azt = 1 /\ ~EsperaLejos
  <2>1. /\ bandera' = 0 /\ rangoinic' = w /\ Serie(prs') /\ Mismos(prs', prs)
        /\ UNCHANGED <<banderainic, azimuth, aztant, bandera_azt, PrsAltura,
                       AlturaTemp, pc, j>>
    BY <1>3, EsperaNueva DEF Acorde
  <2>2. ~EsperaLejosAntes
    BY <1>3 DEF Acorde, MismaEspera
  <2>3. /\ a_bandera' = 0 /\ a_rangoinic' = w
        /\ Serie(a_prs') /\ Mismos(a_prs', a_prs)
        /\ UNCHANGED <<a_banderainic, a_azimuth, a_aztant, a_bandera_azt,
                       a_PrsAltura, a_AlturaTemp, a_pc, a_j>>
    BY <1>0, <1>3, <2>2, EsperaNuevaAntes DEF Acorde
  <2>4. Formas'
    BY <2>1, <2>3 DEF Acorde, Formas
  <2>5. MismaVentana' /\ MismaEspera'
    BY <2>1, <2>3 DEF Acorde, MismaVentana, MismaEspera, EsperaLejos, EsperaLejosAntes
  <2>6. Mismos(prs', a_prs')
    BY <1>0, <2>1, <2>3, MismosTransitiva
  <2> QED
    BY <2>1, <2>3, <2>4, <2>5, <2>6, FuturoAlLeer DEF Acorde
<1>4. CASE PrsAltura # 1 /\ ~(PrsAltura = 0 /\ bandera_azt = 1)
  <2>1. UNCHANGED <<prs, bandera, rangoinic, banderainic, azimuth, aztant, bandera_azt,
                    PrsAltura, AlturaTemp, pc, j>>
    BY <1>4 DEF RangoDelPrograma, P!RangoIgnorado, P!PrimerEco, P!OtroEco, P!RangoAltura
  <2>2. UNCHANGED <<a_prs, a_bandera, a_rangoinic, a_banderainic, a_azimuth, a_aztant,
                    a_bandera_azt, a_PrsAltura, a_AlturaTemp, a_pc, a_j>>
    BY <1>0, <1>4 DEF RangoDeAntes, Antes!X!P!RangoIgnorado, Antes!X!P!PrimerEco,
      Antes!X!P!OtroEco, Antes!X!P!RangoAltura
  <2> QED
    BY <2>1, <2>2 DEF Acorde, Formas, MismaVentana, MismaEspera, EsperaLejos,
      EsperaLejosAntes, MismoFuturo
<1> QED
  BY <1>1, <1>2, <1>3, <1>4

(* Both the same word.                                                     *)
LEMMA AntesLee ==
  ASSUME Acorde, pc = "lee", a_pc = "lee", NEW w \in Palabras,
         NEW O, Separadas(O), Vivos \subseteq O, DeInteres(w) \subseteq O,
         P!Lee(w), Antes!Primario(w), ~(PrsAltura = 1 /\ Cerca(w))
  PROVE  Acorde'
<1>0. /\ P!EsAzimut(w) <=> EsAzimut(w)
      /\ P!EsAltura(w) <=> EsAltura(w)
      /\ P!EsRango(w) <=> EsRango(w)
      /\ P!Procesable(w) => EsRango(w) /\ (Lejos(w) \/ Cerca(w))
      /\ Antes!X!P!EsAzimut(w) <=> EsAzimut(w)
      /\ Antes!X!P!EsAltura(w) <=> EsAltura(w)
      /\ Antes!X!P!EsRango(w) <=> EsRango(w)
      /\ Antes!X!P!Procesable(w) <=> Lejos(w)
      /\ Lejos(w) => EsRango(w)
      /\ EsAzimut(w) => ~EsAltura(w) /\ ~EsRango(w)
      /\ EsAltura(w) => ~EsRango(w)
  BY AntesClases, Aparte
<1>1. Antes!X!P!Aceptable(w) <=> P!Aceptable(w)
  BY DEF Acorde, MismaVentana, P!Aceptable, P!EnVentana, Antes!X!P!Aceptable,
         Antes!X!P!EnVentana, P!AZ, Antes!X!P!AZ
<1> USE DEF RangoDelPrograma, RangoDeAntes
<1>2. CASE P!AzimutAceptado(w)
  <2>1. EsAzimut(w) /\ P!Aceptable(w)
    BY <1>0, <1>2 DEF P!AzimutAceptado
  <2>2. Antes!X!P!AzimutAceptado(w)
    BY <1>0, <1>1, <2>1
      DEF Antes!Primario, Antes!Azimut, Antes!AzimutRechazado, Antes!Rango,
          Antes!Altura, Antes!X!P!AzimutRechazado, Antes!X!P!RangoIgnorado,
          Antes!X!P!PrimerEco, Antes!X!P!OtroEco, Antes!X!P!RangoAltura,
          Antes!X!P!Altura
  <2> QED
    BY <1>2, <2>2, AntesAzimut
<1>3. CASE P!AzimutRechazado(w)
  <2>1. EsAzimut(w) /\ ~P!Aceptable(w)
    BY <1>0, <1>3 DEF P!AzimutRechazado
  <2>2. Antes!X!P!AzimutRechazado(w)
    BY <1>0, <1>1, <2>1
      DEF Antes!Primario, Antes!Azimut, Antes!AzimutRechazado, Antes!Rango,
          Antes!Altura, Antes!X!P!AzimutAceptado, Antes!X!P!RangoIgnorado,
          Antes!X!P!PrimerEco, Antes!X!P!OtroEco, Antes!X!P!RangoAltura,
          Antes!X!P!Altura
  <2> QED
    BY <1>3, <2>2, AntesRechaza
<1>4. CASE EsRango(w)
  <2>1. RangoDelPrograma(w)
    BY <1>0, <1>4 DEF P!Lee, P!AzimutAceptado, P!AzimutRechazado, P!Altura
  <2>2. RangoDeAntes(w)
    BY <1>0, <1>4
      DEF Antes!Primario, Antes!Azimut, Antes!AzimutRechazado, Antes!Altura,
          Antes!Rango, Antes!X!P!AzimutAceptado, Antes!X!P!AzimutRechazado,
          Antes!X!P!Altura
  <2>3. w \in Oidos /\ (Lejos(w) \/ Cerca(w) => w \in O)
    BY <1>4 DEF Oidos, DeInteres
  <2>4. CASE Lejos(w)
    BY <2>1, <2>2, <2>3, <2>4, RangoLejano
  <2>5. CASE Cerca(w)
    BY <2>1, <2>2, <2>3, <2>5, RangoCercano
  <2>6. CASE ~Lejos(w) /\ ~Cerca(w)
    <3>1. UNCHANGED <<prs, bandera, rangoinic, banderainic, azimuth, aztant,
                      bandera_azt, PrsAltura, AlturaTemp, pc, j>>
      BY <1>0, <2>1, <2>6
        DEF P!RangoIgnorado, P!PrimerEco, P!OtroEco, P!RangoAltura, P!altura3,
            P!alturaFifo, P!sectores, P!seguimiento
    <3>2. UNCHANGED <<a_prs, a_bandera, a_rangoinic, a_banderainic, a_azimuth, a_aztant,
                      a_bandera_azt, a_PrsAltura, a_AlturaTemp, a_pc, a_j>>
      BY <1>0, <2>2, <2>6
        DEF Antes!X!P!RangoIgnorado, Antes!X!P!PrimerEco, Antes!X!P!OtroEco,
            Antes!X!P!RangoAltura, Antes!X!P!altura3, Antes!X!P!alturaFifo,
            Antes!X!P!sectores, Antes!X!P!seguimiento
    <3> QED
      BY <3>1, <3>2 DEF Acorde, Formas, MismaVentana, MismaEspera, EsperaLejos,
        EsperaLejosAntes, MismoFuturo
  <2> QED
    BY <2>4, <2>5, <2>6
<1>5. CASE P!Altura(w)
  <2>1. EsAltura(w)
    BY <1>0, <1>5 DEF P!Altura
  <2>2. Antes!X!P!Altura(w)
    BY <1>0, <2>1
      DEF Antes!Primario, Antes!Azimut, Antes!AzimutRechazado, Antes!Rango,
          Antes!Altura, Antes!X!P!AzimutAceptado, Antes!X!P!AzimutRechazado,
          Antes!X!P!RangoIgnorado, Antes!X!P!PrimerEco, Antes!X!P!OtroEco,
          Antes!X!P!RangoAltura
  <2>3. w \in Int
    BY <2>1 DEF EsAltura, ALT
  <2>4. /\ UNCHANGED <<prs, bandera, rangoinic, banderainic, azimuth, aztant,
                       bandera_azt, pc, j>>
        /\ PrsAltura' = 1 /\ AlturaTemp' = w % 256
    BY <1>5 DEF P!Altura, P!seguimiento
  <2>5. /\ UNCHANGED <<a_prs, a_bandera, a_rangoinic, a_banderainic, a_azimuth, a_aztant,
                       a_bandera_azt, a_pc, a_j>>
        /\ a_PrsAltura' = 1 /\ a_AlturaTemp' = w % 256
    BY <2>2 DEF Antes!X!P!Altura, Antes!X!P!seguimiento
  <2>6. w % 256 \in Int
    BY <2>3
  <2> QED
    BY <2>4, <2>5, <2>6 DEF Acorde, Formas, MismaVentana, MismaEspera, EsperaLejos,
        EsperaLejosAntes, MismoFuturo
<1> QED
  BY <1>0, <1>2, <1>3, <1>4, <1>5
    DEF P!Lee, P!RangoIgnorado, P!PrimerEco, P!OtroEco, P!RangoAltura

(* The loop over the targets leaves what was going to be left.             *)
LEMMA PasoDelBarrido ==
  ASSUME Serie(prs), j \in Nat \ {0}, P!Barre
  PROVE  /\ Serie(prs') /\ j' \in Nat \ {0}
         /\ \A x, y : Seguiran(prs', j', pc', x, y) <=> Seguiran(prs, j, pc, x, y)
         /\ UNCHANGED <<bandera, rangoinic, banderainic, azimuth, aztant, bandera_azt,
                        PrsAltura, AlturaTemp>>
<1> USE DEF P!altura3, P!alturaFifo, P!sectores, P!seguimiento
<1>0. Len(prs) \in Nat /\ DOMAIN prs = 1 .. Len(prs)
      /\ (P!Caduca <=> prs[j].auscons + 1 >= max_aus_cons)
  BY LenProperties DEF Serie, P!Caduca
<1>1. j <= Len(prs) => (Dura(prs[j]) <=> ~P!Caduca)
  <2>1. j <= Len(prs) => prs[j].auscons \in Int
    BY <1>0, ElementOfSeq, CamposDe DEF Serie
  <2> QED
    BY <1>0, <2>1, PalabraAssumption DEF Dura
<1>2. CASE P!Envejece
  <2>1. PICK t : t = [prs EXCEPT ![j].auscons = @ + 1]
    OBVIOUS
  <2>2. j \in 1 .. Len(prs) /\ Dura(prs[j])
    BY <1>0, <1>1, <1>2 DEF P!Envejece
  <2>3. Serie(t) /\ Envejecida(prs, j, t)
    BY <2>1, <2>2, SerieAlEnvejecer
  <2>0. PICK l : l = j + 1
    OBVIOUS
  <2>4. ASSUME NEW x, NEW y
        PROVE  Seguiran(t, l, "barre", x, y) <=> Seguiran(prs, j, "barre", x, y)
    BY <2>0, <2>2, <2>3, AlEnvejecer
  <2>5. prs' = t
    BY <1>2, <2>1 DEF P!Envejece
  <2>6. j' = l /\ l \in Nat \ {0} /\ pc = "barre" /\ pc' = "barre"
    BY <1>2, <2>0 DEF P!Envejece
  <2>7. UNCHANGED <<bandera, rangoinic, banderainic, azimuth, aztant,
                    bandera_azt, PrsAltura, AlturaTemp>>
    BY <1>2 DEF P!Envejece
  <2> QED
    BY <2>3, <2>4, <2>5, <2>6, <2>7
<1>3. CASE P!CaducaCorto \/ \E c \in BOOLEAN : P!CaducaBlanco(c)
  <2>1. /\ j \in 1 .. Len(prs) /\ ~Dura(prs[j]) /\ prs' = P!RemoveAt(prs, j)
        /\ j' = j /\ pc = "barre" /\ pc' = "barre"
        /\ UNCHANGED <<bandera, rangoinic, banderainic, azimuth, aztant, bandera_azt,
                       PrsAltura, AlturaTemp>>
    BY <1>0, <1>1, <1>3 DEF P!CaducaCorto, P!CaducaBlanco
  <2>2. PICK t : t = RemoveAt(prs, j)
    OBVIOUS
  <2>3. /\ Serie(t)
        /\ \A x, y : Seguiran(t, j, "barre", x, y) <=> Seguiran(prs, j, "barre", x, y)
    BY <2>1, <2>2, AlQuitar, QuitaUno
  <2>4. prs' = t
    BY <2>1, <2>2 DEF RemoveAt, P!RemoveAt
  <2> QED
    BY <2>1, <2>3, <2>4
<1>4. CASE P!FinBarrido
  <2>1. /\ j > Len(prs) /\ prs' = prs /\ j' = 1 /\ pc = "barre" /\ pc' = "lee"
    BY <1>4 DEF P!FinBarrido
  <2>2. \A x, y : Seguiran(prs, 1, "lee", x, y) <=> Seguiran(prs, j, "barre", x, y)
    BY <2>1, AlTerminar
  <2> QED
    BY <1>4, <2>1, <2>2 DEF P!FinBarrido
<1> QED
  BY <1>2, <1>3, <1>4 DEF P!Barre

(* The same in the old program.                                            *)
LEMMA PasoDelBarridoAntes ==
  ASSUME Serie(a_prs), a_j \in Nat \ {0}, Antes!X!P!Barre
  PROVE  /\ Serie(a_prs') /\ a_j' \in Nat \ {0}
         /\ \A x, y : Seguiran(a_prs', a_j', a_pc', x, y) <=> Seguiran(a_prs, a_j, a_pc, x, y)
         /\ UNCHANGED <<a_bandera, a_rangoinic, a_banderainic, a_azimuth, a_aztant, a_bandera_azt,
                        a_PrsAltura, a_AlturaTemp>>
<1> USE DEF Antes!X!P!altura3, Antes!X!P!alturaFifo, Antes!X!P!sectores, Antes!X!P!seguimiento
<1>0. Len(a_prs) \in Nat /\ DOMAIN a_prs = 1 .. Len(a_prs)
      /\ (Antes!X!P!Caduca <=> a_prs[a_j].auscons + 1 >= max_aus_cons)
  BY LenProperties DEF Serie, Antes!X!P!Caduca
<1>1. a_j <= Len(a_prs) => (Dura(a_prs[a_j]) <=> ~Antes!X!P!Caduca)
  <2>1. a_j <= Len(a_prs) => a_prs[a_j].auscons \in Int
    BY <1>0, ElementOfSeq, CamposDe DEF Serie
  <2> QED
    BY <1>0, <2>1, PalabraAssumption DEF Dura
<1>2. CASE Antes!X!P!Envejece
  <2>1. PICK t : t = [a_prs EXCEPT ![a_j].auscons = @ + 1]
    OBVIOUS
  <2>2. a_j \in 1 .. Len(a_prs) /\ Dura(a_prs[a_j])
    BY <1>0, <1>1, <1>2 DEF Antes!X!P!Envejece
  <2>3. Serie(t) /\ Envejecida(a_prs, a_j, t)
    BY <2>1, <2>2, SerieAlEnvejecer
  <2>0. PICK l : l = a_j + 1
    OBVIOUS
  <2>4. ASSUME NEW x, NEW y
        PROVE  Seguiran(t, l, "barre", x, y) <=> Seguiran(a_prs, a_j, "barre", x, y)
    BY <2>0, <2>2, <2>3, AlEnvejecer
  <2>5. a_prs' = t
    BY <1>2, <2>1 DEF Antes!X!P!Envejece
  <2>6. a_j' = l /\ l \in Nat \ {0} /\ a_pc = "barre" /\ a_pc' = "barre"
    BY <1>2, <2>0 DEF Antes!X!P!Envejece
  <2>7. UNCHANGED <<a_bandera, a_rangoinic, a_banderainic, a_azimuth, a_aztant,
                    a_bandera_azt, a_PrsAltura, a_AlturaTemp>>
    BY <1>2 DEF Antes!X!P!Envejece
  <2> QED
    BY <2>3, <2>4, <2>5, <2>6, <2>7
<1>3. CASE Antes!X!P!CaducaCorto \/ \E c \in BOOLEAN : Antes!X!P!CaducaBlanco(c)
  <2>1. /\ a_j \in 1 .. Len(a_prs) /\ ~Dura(a_prs[a_j]) /\ a_prs' = Antes!X!P!RemoveAt(a_prs, a_j)
        /\ a_j' = a_j /\ a_pc = "barre" /\ a_pc' = "barre"
        /\ UNCHANGED <<a_bandera, a_rangoinic, a_banderainic, a_azimuth, a_aztant, a_bandera_azt,
                       a_PrsAltura, a_AlturaTemp>>
    BY <1>0, <1>1, <1>3 DEF Antes!X!P!CaducaCorto, Antes!X!P!CaducaBlanco
  <2>2. PICK t : t = RemoveAt(a_prs, a_j)
    OBVIOUS
  <2>3. /\ Serie(t)
        /\ \A x, y : Seguiran(t, a_j, "barre", x, y) <=> Seguiran(a_prs, a_j, "barre", x, y)
    BY <2>1, <2>2, AlQuitar, QuitaUno
  <2>4. a_prs' = t
    BY <2>1, <2>2 DEF RemoveAt, Antes!X!P!RemoveAt
  <2> QED
    BY <2>1, <2>3, <2>4
<1>4. CASE Antes!X!P!FinBarrido
  <2>1. /\ a_j > Len(a_prs) /\ a_prs' = a_prs /\ a_j' = 1 /\ a_pc = "barre" /\ a_pc' = "lee"
    BY <1>4 DEF Antes!X!P!FinBarrido
  <2>2. \A x, y : Seguiran(a_prs, 1, "lee", x, y) <=> Seguiran(a_prs, a_j, "barre", x, y)
    BY <2>1, AlTerminar
  <2> QED
    BY <1>4, <2>1, <2>2 DEF Antes!X!P!FinBarrido
<1> QED
  BY <1>2, <1>3, <1>4 DEF Antes!X!P!Barre

(* Either loop goes on, at its own pace.                                   *)
LEMMA AcordeAlBarrer ==
  ASSUME Acorde,
         \/ P!Barre /\ UNCHANGED antes
         \/ Antes!X!P!Barre /\ UNCHANGED evars
  PROVE  Acorde'
<1>1. CASE P!Barre /\ UNCHANGED antes
  <2>1. /\ Serie(prs') /\ j' \in Nat \ {0}
        /\ \A x, y : Seguiran(prs', j', pc', x, y) <=> Seguiran(prs, j, pc, x, y)
        /\ UNCHANGED <<bandera, rangoinic, banderainic, azimuth, aztant, bandera_azt,
                       PrsAltura, AlturaTemp>>
    BY <1>1, PasoDelBarrido DEF Acorde, Formas
  <2>2. UNCHANGED <<a_prs, a_bandera, a_rangoinic, a_banderainic, a_azimuth, a_aztant,
                    a_bandera_azt, a_PrsAltura, a_AlturaTemp, a_pc, a_j>>
    BY <1>1 DEF antes
  <2> QED
    BY <2>1, <2>2 DEF Acorde, Formas, MismaVentana, MismaEspera, EsperaLejos,
      EsperaLejosAntes, MismoFuturo
<1>2. CASE Antes!X!P!Barre /\ UNCHANGED evars
  <2>1. /\ Serie(a_prs') /\ a_j' \in Nat \ {0}
        /\ \A x, y : Seguiran(a_prs', a_j', a_pc', x, y) <=> Seguiran(a_prs, a_j, a_pc, x, y)
        /\ UNCHANGED <<a_bandera, a_rangoinic, a_banderainic, a_azimuth, a_aztant,
                       a_bandera_azt, a_PrsAltura, a_AlturaTemp>>
    BY <1>2, PasoDelBarridoAntes DEF Acorde, Formas
  <2>2. UNCHANGED <<prs, bandera, rangoinic, banderainic, azimuth, aztant, bandera_azt,
                    PrsAltura, AlturaTemp, pc, j>>
    BY <1>2 DEF evars, rastreo
  <2> QED
    BY <2>1, <2>2 DEF Acorde, Formas, MismaVentana, MismaEspera, EsperaLejos,
      EsperaLejosAntes, MismoFuturo
<1> QED
  BY <1>1, <1>2

(* One turn of the main loop, unless a near range takes a height or a far  *)
(* echo is a cell of a near one.                                           *)
LEMMA AntesItera ==
  ASSUME PuertaAntes, fifo \in Seq(Palabras), Acorde, Iteracion, Antes!main,
         ~(PrsAltura = 1 /\ Cerca(lectura')),
         Separadas(Vivos \cup DeInteres(lectura'))
  PROVE  Acorde'
<1>1. /\ PuertaAntes' /\ pc = "lee" /\ a_pc = "lee"
      /\ lectura' = Ninguna \/ lectura' \in Palabras
  BY PasoPuertaAntes, SonPalabras DEF Iteracion, Antes!main
<1>2. a_lectura' = lectura' /\ (a_pide' <=> pide') /\ Antes!X!Ninguna = Ninguna
  BY <1>1 DEF PuertaAntes, Antes!X!Ninguna, Ninguna
<1> DEFINE Quietos ==
      /\ UNCHANGED <<prs, bandera, rangoinic, azimuth, aztant, bandera_azt,
                     PrsAltura, AlturaTemp, pc, j>>
      /\ UNCHANGED <<a_prs, a_bandera, a_rangoinic, a_azimuth, a_aztant,
                     a_bandera_azt, a_PrsAltura, a_AlturaTemp, a_pc, a_j>>
      /\ \/ UNCHANGED <<banderainic, a_banderainic>>
         \/ banderainic' = 1 /\ a_banderainic' = 1
<1>3. Quietos => Acorde'
  BY DEF Acorde, Formas, MismaVentana, MismaEspera, EsperaLejos, EsperaLejosAntes,
    MismoFuturo
<1>4. CASE lectura' # Ninguna /\ ~eco
  <2>1. P!Lee(lectura')
    BY <1>4 DEF Iteracion, Procesa
  <2>2. Antes!Primario(lectura')
    BY <1>2, <1>4 DEF Antes!main, Antes!main_Procesa
  <2>3. PICK w \in Palabras : w = lectura'
    BY <1>1, <1>4
  <2>4. PICK O : O = Vivos \cup DeInteres(w)
    OBVIOUS
  <2>5. Separadas(O)
    BY <2>3, <2>4, Zenon
  <2>6. Vivos \subseteq O /\ DeInteres(w) \subseteq O
    BY <2>4
  <2> QED
    BY <1>1, <2>1, <2>2, <2>3, <2>5, <2>6, AntesLee
<1>5. CASE lectura' # Ninguna /\ eco
  <2>1. UNCHANGED rastreo
    BY <1>5 DEF Iteracion, Procesa
  <2>2. UNCHANGED Antes!rastreo
    BY <1>2, <1>5 DEF Antes!main, Antes!main_Procesa
  <2>3. Quietos
    BY <2>1, <2>2 DEF rastreo, Antes!rastreo
  <2> QED
    BY <1>3, <2>3
<1>6. CASE lectura' = Ninguna /\ pide'
  <2>1. P!PideResincronia
    BY <1>6 DEF Iteracion, Procesa
  <2>2. Antes!X!P!PideResincronia
    BY <1>2, <1>6 DEF Antes!main, Antes!main_Procesa
  <2>3. Quietos
    BY <2>1, <2>2 DEF P!PideResincronia, Antes!X!P!PideResincronia, P!alturaFifo,
      Antes!X!P!alturaFifo
  <2> QED
    BY <1>3, <2>3
<1>7. CASE lectura' = Ninguna /\ ~pide'
  <2>1. UNCHANGED rastreo
    BY <1>7 DEF Iteracion, Procesa
  <2>2. UNCHANGED Antes!rastreo
    BY <1>2, <1>7 DEF Antes!main, Antes!main_Procesa
  <2>3. Quietos
    BY <2>1, <2>2 DEF rastreo, Antes!rastreo
  <2> QED
    BY <1>3, <2>3
<1> QED
  BY <1>4, <1>5, <1>6, <1>7

(* Nothing of what is compared changes.                                    *)
LEMMA AcordeQuieto ==
  ASSUME Acorde,
         UNCHANGED <<prs, bandera, rangoinic, banderainic, azimuth, aztant, bandera_azt,
                     PrsAltura, AlturaTemp, pc, j>>,
         UNCHANGED <<a_prs, a_bandera, a_rangoinic, a_banderainic, a_azimuth, a_aztant,
                     a_bandera_azt, a_PrsAltura, a_AlturaTemp, a_pc, a_j>>
  PROVE  Acorde'
  BY DEF Acorde, Formas, MismaVentana, MismaEspera, EsperaLejos, EsperaLejosAntes,
    MismoFuturo

(* The invariant: the gates are the same, and the trackers agree on all    *)
(* that matters beyond the old area until the old program misses the range *)
(* of a height, or a far echo is a cell of a near one.                     *)
BInv ==
  PuertaAntes /\ fifo \in Seq(Palabras) /\ (~alturaCerca /\ ~vecinas => Acorde)

(* Every step of the comparison keeps the invariant.                       *)
LEMMA PasoBInv ==
  ASSUME BInv, [VNext]_vvars
  PROVE  BInv'
<1>1. CASE Sondean
  <2>1. /\ Iteracion /\ Antes!main
        /\ alturaCerca' = (alturaCerca \/ (PrsAltura = 1 /\ Cerca(lectura')))
        /\ vecinas' = (vecinas \/ ~Separadas(Vivos \cup DeInteres(lectura')))
    BY <1>1 DEF Sondean
  <2>2. PuertaAntes' /\ fifo' \in Seq(Palabras)
    BY <2>1, PasoPuertaAntes, SonPalabras DEF BInv, Iteracion, Antes!main
  <2>3. ASSUME ~alturaCerca', ~vecinas'
        PROVE  Acorde'
    <3>1. ~alturaCerca /\ ~(PrsAltura = 1 /\ Cerca(lectura'))
      BY <2>1, <2>3, Zenon
    <3>2. ~vecinas /\ Separadas(Vivos \cup DeInteres(lectura'))
      BY <2>1, <2>3, Zenon
    <3> QED
      BY <2>1, <3>1, <3>2, AntesItera DEF BInv
  <2> QED
    BY <2>2, <2>3 DEF BInv
<1>2. CASE Recorren
  <2>1. /\ UNCHANGED historia
        /\ \/ P!Barre /\ UNCHANGED vars /\ UNCHANGED antes
           \/ Antes!X!P!Barre /\ UNCHANGED Antes!puerta /\ UNCHANGED evars
    BY <1>2 DEF Recorren, Recorre, Antes!Barrido
  <2>2. PuertaAntes' /\ fifo' \in Seq(Palabras)
    BY <2>1 DEF BInv, PuertaAntes, antes, Antes!puerta, evars, vars, control
  <2> QED
    BY <2>1, <2>2, AcordeAlBarrer DEF BInv, historia
<1>3. ASSUME NEW s \in SectoresCom3, NEW h \in AlturasCom3, LlegaAmbosCom3(s, h)
      PROVE  BInv'
  <2>1. /\ (P!LlegaAltura(s, h) /\ UNCHANGED vars) \/ UNCHANGED evars
        /\ \/ Antes!X!P!LlegaAltura(s, h) /\ UNCHANGED Antes!X!vars
           \/ UNCHANGED antes
        /\ UNCHANGED historia
    BY <1>3 DEF LlegaAmbosCom3, LlegaCom3, Antes!lee_altura, Antes!X!LlegaCom3
  <2>2. PuertaAntes' /\ fifo' \in Seq(Palabras)
    BY <2>1 DEF BInv, PuertaAntes, antes, Antes!X!vars, Antes!X!control, evars, vars,
      control
  <2>3. UNCHANGED <<prs, bandera, rangoinic, banderainic, azimuth, aztant, bandera_azt,
                    PrsAltura, AlturaTemp, pc, j>>
    BY <2>1 DEF P!LlegaAltura, P!seguimiento, P!alturaFifo, evars, rastreo
  <2>4. UNCHANGED <<a_prs, a_bandera, a_rangoinic, a_banderainic, a_azimuth, a_aztant,
                    a_bandera_azt, a_PrsAltura, a_AlturaTemp, a_pc, a_j>>
    BY <2>1 DEF Antes!X!P!LlegaAltura, Antes!X!P!seguimiento, Antes!X!P!alturaFifo,
      antes
  <2> QED
    BY <2>1, <2>2, <2>3, <2>4, AcordeQuieto DEF BInv, historia
<1>4. ASSUME NEW w \in Palabras, LlegaATodos(w)
      PROVE  BInv'
  <2>1. /\ Llega(w) /\ UNCHANGED rastreo
        /\ Antes!X!Llega(w) /\ UNCHANGED Antes!X!rastreo
        /\ UNCHANGED historia
    BY <1>4 DEF LlegaATodos, LlegaPalabra, Antes!LlegaPalabra, Antes!X!LlegaPalabra
  <2>2. PuertaAntes'
    BY <2>1 DEF BInv, PuertaAntes, Llega, Antes!X!Llega, control, Antes!X!control,
      Ninguna, Antes!X!Ninguna
  <2>3. fifo' \in Seq(Palabras)
    BY <2>1, EmptySeq, AppendProperties DEF BInv, Llega
  <2> QED
    BY <2>1, <2>2, <2>3, AcordeQuieto DEF BInv, historia, rastreo, Antes!X!rastreo
<1>5. CASE UNCHANGED vvars
  BY <1>5, AcordeQuieto DEF vvars, evars, vars, control, rastreo, antes, BInv, PuertaAntes,
    historia
<1> QED
  BY <1>1, <1>2, <1>3, <1>4, <1>5 DEF VNext

LEMMA InicioBInv == VInit => BInv
<1> SUFFICES ASSUME VInit PROVE BInv
  OBVIOUS
<1>1. PuertaAntes /\ fifo \in Seq(Palabras)
  BY EmptySeq DEF VInit, EInit, Init, Antes!Inicia, Antes!X!EInit, Antes!X!Init,
    PuertaAntes, Ninguna, Antes!X!Ninguna
<1>2. /\ prs = <<>> /\ bandera = 0 /\ rangoinic = 0 /\ banderainic = 1
      /\ azimuth = 0 /\ aztant = 0 /\ bandera_azt = 0 /\ PrsAltura = 0
      /\ AlturaTemp = 0 /\ pc = "lee" /\ j = 1
  BY DEF VInit, EInit, P!Init
<1>3. /\ a_prs = <<>> /\ a_bandera = 0 /\ a_rangoinic = 0 /\ a_banderainic = 1
      /\ a_azimuth = 0 /\ a_aztant = 0 /\ a_bandera_azt = 0 /\ a_PrsAltura = 0
      /\ a_AlturaTemp = 0 /\ a_pc = "lee" /\ a_j = 1
  BY DEF VInit, Antes!Inicia, Antes!X!EInit, Antes!X!P!Init
<1>4. Formas
  BY <1>2, <1>3, SerieVacia DEF Formas, Oidos
<1>5. MismaVentana /\ MismaEspera /\ MismoFuturo
  BY <1>2, <1>3 DEF MismaVentana, MismaEspera, EsperaLejos, EsperaLejosAntes, MismoFuturo
<1> QED
  BY <1>1, <1>4, <1>5 DEF BInv, Acorde

(* The set of the far targets is part of what the lists agree on.          *)
LEMMA PresentesDe ==
  ASSUME NEW p, NEW q, Serie(p), Serie(q), Mismos(p, q)
  PROVE  Presentes(p) = Presentes(q)
<1>1. ASSUME NEW r, Serie(r), NEW x
      PROVE  x \in Presentes(r) <=> Ordenados(r, x, x)
  <2>1. DOMAIN r \subseteq Int
    BY <1>1, LenProperties DEF Serie
  <2>2. ASSUME x \in Presentes(r)
        PROVE  Ordenados(r, x, x)
    <3>1. PICK i \in DOMAIN r : x = r[i] /\ Lejos(r[i].rangoinic)
      BY <2>2 DEF Presentes
    <3> QED
      BY <2>1, <3>1 DEF Ordenados
  <2>3. ASSUME Ordenados(r, x, x)
        PROVE  x \in Presentes(r)
    BY <2>3 DEF Ordenados, Presentes
  <2> QED
    BY <2>2, <2>3
<1> QED
  BY <1>1 DEF Mismos

(***************************************************************************)
(* Between words the program and the version it replaced follow the same   *)
(* targets beyond fifteen miles, with the same ages and the same heights,  *)
(* whatever the new one finds nearer: until an echo comes within a cell of *)
(* one on the other side of the border, or a height is followed by one of  *)
(* the near ranges, which the old program does not take for the height's.  *)
(***************************************************************************)
THEOREM SiempreMismosBlancos == VSpec => []MismosBlancos
<1>1. BInv => MismosBlancos
  BY MismosAlLeer, PresentesDe DEF BInv, Acorde, Formas, MismosBlancos
<1>2. BInv /\ [VNext]_vvars => BInv'
  BY PasoBInv
<1> QED
  BY <1>1, <1>2, InicioBInv, PTL DEF VSpec
=============================================================================
