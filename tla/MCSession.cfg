SPECIFICATION Spec
CONSTANTS
  Users = {u1, u2}
  Chains <- MCChains
  Keys = {a, b, c}
  Values = {"v"}
  MaxEntries = 2
  MaxAge = 1
  MaxTime = 2
  MaxHeaders = 3
  AnyOrigin = FALSE
  Preflight <- MCPreflight
  AppHeaders = {"Content-Type"}
SYMMETRY Symmetric
INVARIANTS SessionCarried CorsOnEveryReply
