SPECIFICATION Spec
CONSTANTS
  Insts = {i1, i2}
  PdpIds <- Cells
  KnownIds = {"7"}
  Blank = "nan"
  Numeral <- Numerals
  Setups <- AllSetups
  MaxFailures = 1
  MaxUploads = 1
  None = None
INVARIANT DeliveredAsPulled
PROPERTY EveryInstitutionServed
