SPECIFICATION Spec
CONSTANTS
  a = a
  s1 = s1
  s2 = s2
  Steps = {a, b}
  Sections = {s1, s2}
  SectionOf <- MCSectionOf
  Wired = {}
  Batching = {}
  Users = {u1}
  Asked = {"WORKING", "PAUSED", "COMPLETED", "FAILED"}
  Ends = {"RESOLVED"}
  Flags = {"keep"}
  Txns = {t1, t2}
  MaxEdits = 1
  MaxRaces = 1
SYMMETRY Symmetric
INVARIANTS CompletionsAreCounted
