CONSTANTS
  Threads = {capture, client}
  Nobody = Nobody
  Callbacks = {f, g}
  nullptr = nullptr
  Behaviour = "hasNewFrame"
  Levels = {3, 6, 8}
  Severities = {"WARN", "DEBUG"}
  OnFrame = {"TRACE", "INFO", "WARN", "ERROR"}
SPECIFICATION FairSpec
CHECK_DEADLOCK FALSE
INVARIANTS
  ReplacedCallbackIsSilent
  OnlyWithinLevel
PROPERTIES
  OnlyTheCycleBlocks
