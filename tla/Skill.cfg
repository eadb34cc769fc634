CONSTANTS
  main = main
  left = left
  right = right
  a = a
  b = b
  c = c
  d = d
  e = e
  f = f
  s = s
  t = t
  Skill = {main, left, right}
  Root = main
  Child <- MCChild
  Node = {a, b, c, d, e, f, s, t}
  Graph <- MCGraph
  Needs <- MCNeeds
  Kind <- MCKind
  Limit <- MCLimit
SPECIFICATION FairSpec
INVARIANTS
  RoutesAreCovered
  NodesDecide
  ReportIsOrderly

  
