CONSTANTS
  VUELTA = 4096
  tolerancia = 9
  max_aus_cons = 5
  blancocorto = 3
  AREA_INHIBICION = 13
  SectoresCom3 = {}
  AlturasCom3 = {}
  Lecturas = {}
  AnchoMaximo = 5
  Arranque = {4086}
  Rangos = {12301}
SPECIFICATION BSpec
INVARIANTS PlotAlBuffer
