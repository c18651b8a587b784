CONSTANTS
  VUELTA = 64
  tolerancia = 9
  max_aus_cons = 2
  blancocorto = 1
  AREA_INHIBICION = 13
  SectoresCom3 = {15}
  AlturasCom3 = {700}
  Capacidad = 2
  Palabras = {32768, 32770, 32826, 32828, 12301, 49157, 4096}
SPECIFICATION ESpec
INVARIANTS Coherentes EcoFiel
PROPERTIES SaltoAcotado RepetidoSoloAlEmpezar AlturaUnaVez
