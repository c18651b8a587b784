CONSTANTS
  VUELTA = 16
  tolerancia = 9
  max_aus_cons = 5
  blancocorto = 3
  AREA_INHIBICION = 13
  SectoresCom3 = {}
  AlturasCom3 = {}
  Lecturas = {}
  AnchoMaximo = 6
  Arranque = {0, 1, 2, 3, 4, 5, 6, 7, 8, 9, 10, 11, 12, 13, 14, 15}
  Rangos = {12301, 12311}
SPECIFICATION BSpec
PROPERTIES ImplementaDeteccion
