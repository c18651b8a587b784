----------------------------- MODULE Deteccion -----------------------------
(***************************************************************************)
(* What a plot extractor promises, without its mechanism.  The antenna     *)
(* turns one azimuth at a time; an object is a presence, the azimuths of   *)
(* its first and last echo; max_aus_cons azimuths after the last echo the  *)
(* presence ends and, if it was at least blancocorto wide, exactly one     *)
(* plot is given, at the middle of the presence.                           *)
(***************************************************************************)
EXTENDS Palabra

CONSTANT Rangos     (* ranges of the objects, further apart than any gate  *)

VARIABLES
  azimut,           (* where the antenna looks; SinAzimut before it is known *)
  presencia,        (* per range, NoHay or the ends of the presence        *)
  plot              (* the plot of this step, or Ninguno                   *)

dvars == <<azimut, presencia, plot>>

SinAzimut == VUELTA
NoHay     == [ini |-> SinAzimut, fin |-> SinAzimut]
Ninguno   == [rg |-> 0, az |-> SinAzimut]

(* Azimuth steps from a to b in the sense the antenna turns. *)
Arco(a, b) == (b - a) % VUELTA

Hay(r)      == presencia[r] # NoHay
Silencio(r) == Arco(presencia[r].fin, azimut)
Vencida(r)  == Hay(r) /\ Silencio(r) >= max_aus_cons

DInit ==
  /\ azimut = SinAzimut
  /\ presencia = [r \in Rangos |-> NoHay]
  /\ plot = Ninguno

(* The first azimuth received. *)
Arranca ==
  /\ azimut = SinAzimut
  /\ azimut' \in Azimuts
  /\ UNCHANGED <<presencia, plot>>

(* The antenna does not move on while an ended presence is unreported. *)
Gira ==
  /\ azimut # SinAzimut
  /\ \A r \in Rangos : ~Vencida(r)
  /\ azimut' = (azimut + 1) % VUELTA
  /\ plot' = Ninguno
  /\ UNCHANGED presencia

Eco(r) ==
  /\ azimut # SinAzimut
  /\ ~Vencida(r)
  /\ presencia' = [presencia EXCEPT ![r] =
       [ini |-> IF Hay(r) THEN @.ini ELSE azimut, fin |-> azimut]]
  /\ plot' = Ninguno
  /\ UNCHANGED azimut

Termina(r) ==
  /\ Vencida(r)
  /\ LET ancho == Arco(presencia[r].ini, presencia[r].fin) IN
       plot' = IF ancho >= blancocorto
               THEN [rg |-> r,
                     az |-> (presencia[r].ini + ancho \div 2) % VUELTA]
               ELSE Ninguno
  /\ presencia' = [presencia EXCEPT ![r] = NoHay]
  /\ UNCHANGED azimut

Calla == plot # Ninguno /\ plot' = Ninguno /\ UNCHANGED <<azimut, presencia>>

DNext ==
  \/ Arranca \/ Gira \/ Calla
  \/ \E r \in Rangos : Eco(r) \/ Termina(r)

(* The antenna keeps turning and every ended presence is reported. *)
DSpec ==
  /\ DInit /\ [][DNext]_dvars
  /\ WF_dvars(Gira)
  /\ \A r \in Rangos : WF_dvars(Termina(r))
=============================================================================
