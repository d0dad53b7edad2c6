\* Every rename may fail, the process may die, another process uses the database.
CONSTANTS
  cfgdb = cfgdb  wal = wal  tmp = tmp  walwal = walwal  waltmp = waltmp
  notes = notes  noteswal = noteswal  notestmp = notestmp
  Files = {cfgdb, wal, tmp, walwal, waltmp, notes, noteswal, notestmp}
  Side <- Sidecars
  Databases = {cfgdb}
  Names <- DbWalAndPlain
  Missing = {wal, tmp, walwal, waltmp, notes, noteswal, notestmp}
  Faults = {"probe", "lock", "stage", "rename", "crash"}
SPECIFICATION Spec
INVARIANTS NothingLost RolledBackIsUntouched ErrorNamesEveryStuckFile NoStaleLog
PROPERTIES HeldIsNotReplaced
