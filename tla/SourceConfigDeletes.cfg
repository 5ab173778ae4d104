\* One table, one installer at a time, a failure anywhere.
CONSTANTS
  t1 = t1
  t2 = t2
  t3 = t3
  p1 = p1
  Tables <- OneTable
  Keyless <- NoTables
  Unloggable <- NoTables
  Installers <- OneInstaller
  MaxFails = 1
SPECIFICATION Spec
INVARIANT DeletesAreMonitored
