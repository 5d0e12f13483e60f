CONSTANTS
  a = a
  b = b
  c = c
  home = home
  away = away
  here = here
  there = there
  None = None
  Blocklist = Blocklist
  Ids <- MCIds
  MaxPriority = 2
  Rules <- MCRules
  Contexts <- MCContexts
  Country <- MCCountry
  Intel = {home}
  Default = "allow"
SYMMETRY IdSymmetry
SPECIFICATION Spec
INVARIANTS ListMatchesIndex
PROPERTY DecidesByPriority
