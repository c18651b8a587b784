CONSTANTS
  VUELTA = 16
  tolerancia = 9
  max_aus_cons = 1
  blancocorto = 16
  AREA_INHIBICION = 14
  SectoresCom3 = {}
  AlturasCom3 = {}
  Capacidad = 2
  Palabras = {12301, 49157}
SPECIFICATION ASpec
INVARIANTS RechazosAcotados
PROPERTIES SoloTrasPerdida Recupera
