SPECIFICATION Spec
CONSTANTS
  Renderers = {r1, r2}
  Keys = {regular, bold}
  Nobody = Nobody
  MaxGlyphs = 2
INVARIANT
  LabelIsOwnText
CHECK_DEADLOCK FALSE
