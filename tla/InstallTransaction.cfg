SPECIFICATION DownloadSpec
CONSTANTS
  Installers = {app, cli}
  Sources = {s, t}
  Ranges = {1, 2}
  Attempts = 2
  Parts = 2
  Blank = Blank
  None = None
  app = app
  cli = cli
  s = s
  t = t
SYMMETRY Symmetry
INVARIANTS
  InstallInv
  FinalIsOfOneSource
  RangesArriveWhole
  CancelReachesTransfer
PROPERTIES
  InstalledModelSurvives
  ResumeReusesWork
  CancellationPauses
