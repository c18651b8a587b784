CONSTANTS
  VUELTA = 16
  tolerancia = 9
  max_aus_cons = 2
  blancocorto = 1
  AREA_INHIBICION = 13
  SectoresCom3 = {}
  AlturasCom3 = {}
  Lecturas <- MCLecturas
SPECIFICATION Spec
INVARIANTS Separados FueraDeInhibicion
PROPERTIES EcoNoSePierde SoloCaducan
