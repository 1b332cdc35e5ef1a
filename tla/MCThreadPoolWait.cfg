CONSTANTS
  Workers = {w1}
  Clients = {c1}
  Jobs = {j1}
  NoJob = NoJob
SPECIFICATION Spec
PROPERTIES
  WaitersReturn
