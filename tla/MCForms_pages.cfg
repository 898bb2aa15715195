\* Two pages and one new publication of the image
SPECIFICATION SpecForms
CONSTANTS
  Name <- MCName
  Definitions <- MCDefinitions
  Tab = {t1, t2}
  MaxPublished = 1
SYMMETRY Symmetry
INVARIANTS
  TypeOK
  EnteredAsSeen
PROPERTIES
  RefusedKeepsEntries
