CONSTANTS
  c1 = c1
  c2 = c2
  c3 = c3
  text = text
  other = other
  s1 = s1
  s2 = s2
  r1 = r1
  r2 = r2
  r3 = r3
  Claims <- Drawn3
  Contents = {text, other}
  ContentOf <- Texts
  Evidence <- Lists
  Targets = {c1}
  Callers = {s1, s2}
  MaxCrashes = 1
  Tournaments = {t1}
  Results = {r1, r2, r3}
  NoOne = NoOne
  Declared = 1
  MaxCorrections = 1
  MaxDecisions = 1
SYMMETRY Same
SPECIFICATION Servers
INVARIANTS
  SupersessionIsSound
  TransactionsHoldAlone
  SealedWhenAlone
CHECK_DEADLOCK FALSE
