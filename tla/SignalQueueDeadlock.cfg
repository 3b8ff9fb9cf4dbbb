CONSTANTS
  Message = {mute, subscribe, offer}
  Queuable = {mute, subscribe}
  Restart = restart
  SignalTask = signal_task
  MaxRestarts = 0
SPECIFICATION FairSpec
CHECK_DEADLOCK FALSE
PROPERTY AlwaysCloses
