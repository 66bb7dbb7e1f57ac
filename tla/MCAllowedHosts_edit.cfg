SPECIFICATION Spec
CONSTANTS
  h1 = h1
  h2 = h2
  e1 = e1
  e2 = e2
  None = None
  Nothing = Nothing
  Bad = Bad
  Hosts <- TwoHosts
  Base <- OneBase
  Editors <- Two
  Careful <- One
  Typed <- SomeTexts
INVARIANTS
  TypeOK
  NoSpuriousConflict
  StoredAsParsed
  SavedIsAllowed
PROPERTY
  NoLostUpdate
