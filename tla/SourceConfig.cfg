\* One installer after the other for three tables, two failures anywhere.
CONSTANTS
  t1 = t1
  t2 = t2
  t3 = t3
  p1 = p1
  Tables <- ThreeTables
  Keyless <- LastTable
  Unloggable <- NoTables
  Installers <- OneInstaller
  MaxFails = 2
SPECIFICATION Spec
INVARIANTS TypeOK InitIsEnough ApplicationsWork RegisteredIsLogged RegisteredIsMonitored BitsDiffer
PROPERTIES RegistrationsKept
