CONSTANTS
  None = None
  boss = boss
  ann = ann
  Users = {boss, ann}
  Bootstrap = {boss}
  Threads = {t1, t2}
  MaxCommands = 1
SPECIFICATION Spec
SYMMETRY Interchangeable
INVARIANTS TypeOK AdminsAreBootstrap DangerByAdmins DeniedStayOut
PROPERTIES EntryByDecision
CHECK_DEADLOCK FALSE
