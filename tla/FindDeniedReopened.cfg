SPECIFICATION Spec
CONSTANTS
  n1 = n1  n2 = n2  a4 = a4  b4 = b4  a6 = a6  host = host  m1 = m1  g1 = g1
  w1 = w1  w2 = w2  notes1 = notes1  notes2 = notes2
  Names <- mc_OneName  IPv4 <- mc_IPv4  IPv6 <- mc_IPv6
  Hosts = {host}  Manual = {m1}  Guests = {g1}  Target = g1
  Calls = {}  InitLists <- mc_InitLists  CreateAt = "head"
  FaultKinds = {}  MaxFaults = 0  MaxEdits = 0
  Notes = {notes1}  NoNotes = "no notes"
  Workers = {w1, w2}  DnsWorkers = {w1}  SaveWorkers = {w2}
  RefreshWorkers = {}  BootWorkers = {}
  Answers <- mc_OneAnswer  SaveTexts <- mc_AllTexts  EditedLists = {}
  InitStates <- mc_Enabled
  ConfigFaults = {}  MaxConfigFaults = 0  MaxNotesEdits = 0  MaxRestarts = 0  MaxHits = 0
INVARIANT DeniedIsClosed
