SPECIFICATION Spec
CONSTANTS
  None = None
  c1 = c1
  c2 = c2
  m1 = m1
  m2 = m2
  low = low
  high = high
  exec1 = exec1
  plugin1 = plugin1
  id1 = id1
  id2 = id2
  peer1 = peer1
  title = title
  Calls = {c1, c2}
  Models = {m1, m2}
  InitialModel = m1
  Levels = {low, high}
  InitialLevel = low
  LevelsOf <- MCLevelsOf
  Catalogues <- MCCatalogues
  Approvals = {exec1, plugin1}
  KindOf <- MCKindOf
  Messages = {id1, id2}
  PeerRuns = {peer1}
  KeyOf <- MCKeyOf
  Budgets <- MCBudgets
  Operations <- MCOperations
  Scenarios <- MCScenarios
  AllowedDecisions <- MCAllowed
INVARIANT CompletionMeansEnd
CHECK_DEADLOCK FALSE
