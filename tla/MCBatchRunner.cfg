SPECIFICATION FairSpec
CONSTANTS
  a = a
  b = b
  copy = copy
  direct = direct
  twin = twin
  docA = docA
  docB = docB
  docC = docC
  here = here
  there = there
  r1 = r1
  r2 = r2
  Pdf = {a, b, copy, direct, twin}
  Doc = {docA, docB, docC}
  DocOf <- MCDocOf
  Longer <- MCLonger
  Site = {here, there}
  Setups <- MCSetups
  NoPdf = NoPdf
  Sync = {direct, twin}
  PageBatches <- MCPageBatches
  MinCoverage = 90
  Runner = {r1, r2}
CHECK_DEADLOCK FALSE
INVARIANTS
  IndexIsSound
PROPERTY EveryDocumentSettles
