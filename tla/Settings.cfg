SPECIFICATION Spec
CONSTANTS
  u1 = u1  u2 = u2  g1 = g1  g2 = g2  na = na  nb = nb
  access = access  other = other  none = none
  empty = empty  torn = torn  down = down
  Updaters = {u1, u2}  Guests = {g1, g2}  Nodes = {na, nb}
  Accesses = {access, other}  Home <- mc_Home  Patches <- mc_Patches  None = none
  Empty = empty  Torn = torn  Down = down
INVARIANT SettingsTypeOK
PROPERTY StoreIsAtomic
PROPERTY AccessKept
