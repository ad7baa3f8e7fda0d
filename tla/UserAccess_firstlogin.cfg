CONSTANTS
  None = None
  boss = boss
  ann = ann
  Users = {boss, ann}
  Bootstrap = {boss}
  Threads = {t1, t2}
  MaxCommands = 0
SPECIFICATION Spec
INVARIANTS DecisionsStand
CHECK_DEADLOCK FALSE
