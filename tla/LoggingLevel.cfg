CONSTANTS
  Threads = {capture, client}
  Nobody = Nobody
  Callbacks = {f, g}
  nullptr = nullptr
  Behaviour = "nothing"
  Levels = {7, 8}
  Severities = {"WARN", "ERROR"}
  OnFrame = {"TRACE", "INFO", "WARN", "ERROR"}
SPECIFICATION Spec
INVARIANTS
  CallbackIsToldApiLevel
