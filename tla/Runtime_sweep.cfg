CONSTANTS
  Envs = {e1}
  NoEnv = none
  GraceCoversCreate = TRUE
  MaxRestarts = 0
  MaxFails = 0
SPECIFICATION RuntimeSpec
INVARIANT RunningHasFiles
