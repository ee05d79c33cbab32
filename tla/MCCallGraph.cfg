SPECIFICATION Spec
CONSTANTS
  f = f
  g = g
  m = m
  h = h
  s1 = s1
  s2 = s2
  nf = nf
  ng = ng
  nm = nm
  TUs = {a, b}
  Fns <- MCFns
  display <- MCDisplay
  EdgeKeys <- MCEdges
  Overrides <- MCOverrides
  Returns <- MCReturns
  Declared = {g, h}
  Untagged = {h}
  MaxSteps = 4
  MaxRemovals = 2
SYMMETRY Symmetry
INVARIANTS
  EdgesMatchRebuild
  TaggedNodesMatchRebuild
  AdjacencyExact
PROPERTIES
  MaintenanceKeepsAnswers
CHECK_DEADLOCK FALSE
