\* Two callers that plan and import while the files come and go.
CONSTANTS
  c1 = c1  c2 = c2  app = app  peer = peer  yaml = yaml  json = json
  None = None  Empty = Empty
  Actors = {c1, c2}
  Docs = {app}
  Contents = {yaml, json}
  FileContents = {Empty, yaml, json}
  Decisions = {"ActionImport", "ActionUseFile", "ActionUseDB"}
  MaxEdits = 3
SPECIFICATION FairSpec
PROPERTIES EventuallyReconciled
