SPECIFICATION Spec
CONSTANTS
  f = f
  g = g
  h = h
  nf = nf
  ng = ng
  s1 = s1
  s2 = s2
  a = a
  b = b
  l1 = l1
  l2 = l2
  try1 = try1
  grd = grd
  ch = ch
  TUs = {a, b}
  display <- MCDisplay
  siteFile <- MCSiteFile
  Contexts <- MCContexts
  Untagged <- MCUntagged
  ChannelKeys <- MCChannelKeys
  MaxSteps = 3
  MaxRemovals = 2
INVARIANTS
  AllChannelSitesMatchRebuild
CHECK_DEADLOCK FALSE
