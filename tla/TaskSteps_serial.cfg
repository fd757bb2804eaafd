SPECIFICATION Spec
CONSTANTS
  a = a
  s1 = s1
  s2 = s2
  Steps = {a, b, c}
  Sections = {s1, s2}
  SectionOf <- MCSectionOf
  Wired <- MCWired
  Batching = {s1}
  Users = {u1}
  Asked = {"WORKING", "PAUSED", "COMPLETED", "FAILED"}
  Ends = {"RESOLVED"}
  Flags = {"keep", "on", "off"}
  Txns = {t1}
  MaxEdits = 1
  MaxRaces = 0
SYMMETRY Symmetric
INVARIANTS ReadinessIsTrue TaskFollowsSteps OneActiveStepWhenSelf
