SPECIFICATION Spec
CONSTANTS
  Methods = {"GET", "HEAD"}
  Patterns <- MCPatterns
  Paths <- MCPaths
  Queries <- MCQueries
  MaxRoutes = 3
  MaxParams = 2
  MaxQuery = 1
INVARIANTS FindsBest ParamsExact
PROPERTY AddingIsLocal
