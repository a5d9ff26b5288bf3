SPECIFICATION Spec
CONSTANTS
  Txns = {t1, t2}
  Plain = Plain
  Nobody = Nobody
  MaxStatements = 5
SYMMETRY Permute
INVARIANTS TypeOK OutcomesAreHonest NoForeignStatements TransactionKeepsItsRoute
PROPERTY RefinesUnitsOfWork
CHECK_DEADLOCK FALSE
