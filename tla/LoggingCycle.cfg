CONSTANTS
  Threads = {capture, client}
  Nobody = Nobody
  Callbacks = {f}
  nullptr = nullptr
  Behaviour = "hasNewFrame"
  Levels = {3, 6}
  Severities = {"WARN"}
  OnFrame = {"TRACE", "INFO", "WARN", "ERROR"}
SPECIFICATION FairSpec
CHECK_DEADLOCK FALSE
PROPERTIES
  CallsReturn
