\* A client who comes back and another who asks for the same import; a standard edition
\* of two volumes and an art edition of one.
SPECIFICATION ImportSpec
CONSTANTS
  std = std
  art = art
  i1 = i1
  mal = mal
  title = title
  a = a
  b = b
  None = None
  Clients = {a, b}
  Editions = {std, art}
  Arts = {art}
  Clues = {mal, title}
  Isbns = {i1}
  Catalogue <- MCCatalogue
  MangaVolumes = {1}
  Pool = 2
  MaxCrashes = 1
CONSTRAINT OneEdition
INVARIANTS WarmForAll
CHECK_DEADLOCK FALSE
