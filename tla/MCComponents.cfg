CONSTANTS
  Message = {mute, subscribe, offer}
  Queuable = {mute, subscribe}
  Restart = restart
  SignalTask = signal_task
  MaxRestarts = 2
  Writer = {w1, w2}
  Sizes = {1, 2}
  NoTotal = none
  Totals = {none, 2}
  MaxPieces = 2
  MaxResends = 1
  MaxReaders = 2
  Call = {c1}
  Task = {k1, k2}
  MaxTwice = 1
  Identity = {alice}
  RemoteTrack = {cam}
  MaxSid = 2
  MaxChanges = 2
  MaxTries = 2
  MaxMedia = 1
  MediaTrack = {m1, m2, m3}
  NoTrack = none
  Handle = {h1}
  Watcher = {v1, v2}
  Dropper = {d1, d2}
  Session = {s1, s2, s3}
  First = s1
  NoSession = none
  Payload = {}
  Closing = {"user", "server", "retry"}
  Track = {t1, t2}
  MaxRoom = 3
  MaxRounds = 2
  Caller <- MCPub
SPECIFICATION ComponentsSpec
CHECK_DEADLOCK FALSE
INVARIANTS
  TypesOK
  AtMostOnce
  QueueingEnds
  DrainIsExclusive
  LocalTracksAreCurrent
  StreamIntegrity
  RpcAnswers
  ParticipantsAreCurrent
  StreamsAreTold
PROPERTIES
  CallsReturn
  StreamEnds
  TracksEnd
