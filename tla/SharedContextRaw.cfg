CONSTANTS
  Threads = {t1, t2}
  NoThread = NoThread
  ReaderCalls = {"getDeviceName", "openStreamRaw"}
  KeptApart = {"getDeviceName"}
  MaxDevices = 2
  MaxRefreshes = 2
SPECIFICATION Spec
INVARIANTS
  UsedDeviceExists
