SPECIFICATION Spec
CONSTANTS
  NONE = NONE
  MinSamples = 2
  Window = 3
  StreamLinks <- StreamHosts
  ProbeResults <- StreamResults
  PeerReadings <- PeerCaches
  WorkloadHealths = {"ok", "unavailable"}
  Underway <- MeasuredOnce
  MaxUpdates = 3
  MaxGenerations = 2
  MaxWindows = 2
  Loads <- Bursts
  Telemetry <- RadioReadings
  Tops = {1, 2}
  CacheSources = {"ip", "arp"}
  MaxPaths = 4
  MaxReceived = 4
  MaxReadings = 3
  MaxInstant = 2
  ShotLinks <- ShotHosts
  ShotResults <- AnyResult
  ShotPeers <- ReportCaches
  ShotDeadline = 2
  Timeout = 3
  DrainGrace = 1
  MaxChunks = 2
  MaxJoin = 2
  Attempts = 3
  Rtts = {1, 3, 40}
  MaxDuplicates = 1
  Programs <- TwoPrograms
  Traffic <- SecondsOfTraffic
  SampleCount = 3
  FILE = FILE
  Packers = {1, 2}
  MaxLogRecords = 2
  MaxAppends = 3
  CaptureRequests <- TwoFrames
  MaxFrames = 2
  Transitions = {2}
  MaxElapsed = 4
  MaxStrangers = 1
CHECK_DEADLOCK FALSE
INVARIANTS
  FinalCloses
  VerdictsSupported
  PlainTells
  DiagnosisBacked
  WindowsRemember
  VerdictsAgree
  CommandReturns
  MeasurementsHonest
  InvocationHonoured
  CapsuleWhole
  CaptureIsWhole
