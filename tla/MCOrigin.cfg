SPECIFICATION Spec
CONSTANTS
  Origins = {A, B}
  Hellos = {h1}
  Mails = {m1, m2}
  NoOrigin = NoOrigin
INVARIANTS
  AuthoredPinned
  OneContour
PROPERTIES
  ImprintStays
