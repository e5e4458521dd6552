SPECIFICATION Spec
CONSTANTS
  s1 = s1
  l1 = l1
  l2 = l2
  c1 = c1
  c2 = c2
  q1 = q1
  q2 = q2
  r1 = r1
  Row <- MCRow
  Setting <- MCSetting
  Loader = {l1, l2}
  Computation = {c1, c2}
  Reader = {q1, q2}
  NoOne = NoOne
  MaxCommits <- MCCommits
  MaxGeneration = 1
INVARIANTS AnswersAreFresh
SYMMETRY Alike
