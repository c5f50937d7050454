SPECIFICATION Spec
CONSTANTS
  Installers = {app, cli}
  Sources = {s, t}
  Ranges = {1, 2, 3}
  Blank = Blank
  None = None
  app = app
  cli = cli
  s = s
  t = t
INVARIANTS
  InterruptedInstallsResume
