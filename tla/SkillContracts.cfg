CONSTANTS
  Root = "root"
  Registry <- Registries
  MaxDepth = 2
  Handlers = {"known"}
SPECIFICATION ContractSpec
INVARIANTS
  AcceptedSkillsRun
  RunsStayWithinTheirLimits
CHECK_DEADLOCK FALSE
