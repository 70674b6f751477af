\* Room for two records and a gap; seven offers overflow it several times over,
\* so a gap is widened, read and opened again.
CONSTANTS
  Kinds = {telemetry, alert}
  MaxSize = 3
  MaxOffers = 7
  None = None
SPECIFICATION Spec
INVARIANTS
  TypeOK
  GapDated
  NothingSilent
  CurrentView
PROPERTY LedgerSpec
SYMMETRY KindSymmetry
