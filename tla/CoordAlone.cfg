SPECIFICATION Spec
CONSTANTS
  n1 = n1  n2 = n2  a4 = a4  b4 = b4  a6 = a6  host = host  m1 = m1  g1 = g1
  w1 = w1  w2 = w2  notes1 = notes1  notes2 = notes2
  Names <- mc_TwoNames  IPv4 <- mc_IPv4  IPv6 <- mc_IPv6
  Hosts = {host}  Manual = {m1}  Guests = {g1}  Target = g1
  Calls = {}  InitLists <- mc_InitLists  CreateAt = "head"
  FaultKinds = {}  MaxFaults = 0  MaxEdits = 0
  Notes = {notes1, notes2}  NoNotes = "no notes"
  Workers = {w1}  DnsWorkers = {w1}  SaveWorkers = {w1}
  RefreshWorkers = {w1}  BootWorkers = {w1}
  Answers <- mc_TwoAnswers  SaveTexts <- mc_AllTexts  EditedLists = {}
  InitStates <- mc_Booted
  ConfigFaults = {"rejected"}  MaxConfigFaults = 1  MaxNotesEdits = 1  MaxRestarts = 0  MaxHits = 1
INVARIANT EgressContract
PROPERTY NotesPreserved
PROPERTY LockdownKept
SYMMETRY NameSymmetry
