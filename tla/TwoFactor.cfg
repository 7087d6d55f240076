SPECIFICATION Spec
CONSTANTS
  Tabs = {t1, t2}
  MaxSecrets = 2
  MaxCodes = 2
SYMMETRY Symmetry
INVARIANTS EnabledIsScanned CodesWereShown StatusIsTrue
