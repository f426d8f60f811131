SPECIFICATION ConfigSpec
CONSTANTS
  Names <- MCNames
  Urls <- MCUrls
  Pems <- MCPems
  Files <- MCFiles
  Broken = broken
  Absent = absent
  Envs <- MCEnvs
  Posted <- MCPosted
  Reloads = {w1, w2}
  MaxEvents = 3
SYMMETRY Symmetry
\* The bounds use up: a process that stopped for the last time stays stopped.
CHECK_DEADLOCK FALSE
INVARIANT EnvironmentWins
