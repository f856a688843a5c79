SPECIFICATION Spec
CONSTANTS
  Turns = {t1, t2}
  Items = {i1}
  Texts = {a, b}
  MaxCalls = 2
  None = None
SYMMETRY Interchangeable
PROPERTY FinalTextShown
