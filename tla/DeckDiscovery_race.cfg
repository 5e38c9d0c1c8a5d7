SPECIFICATION Spec
CONSTANTS
  Workers = {t1, t2}
  Spawns = 2
  Kinds = {"AT deck", "DT deck"}
CHECK_DEADLOCK FALSE
INVARIANT OwnAttributes
