SPECIFICATION Spec
CONSTANTS
  Origins = {A, B}
  Hellos = {h1, h2}
  Mails = {}
  NoOrigin = NoOrigin
PROPERTIES
  ImprintStays
