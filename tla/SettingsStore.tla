--------------------------- MODULE SettingsStore ----------------------------
(***************************************************************************)
(* UpdateSettings and the settings file, with the start and the end of the *)
(* process.  The bootstrap and the refresh at the end of an update are     *)
(* those of Coordinator.                                                   *)
(*                                                                         *)
(* Of the settings the model keeps the guest (VMID), its node and kind,    *)
(* and `access`: host, token ID and secret, each of which a patch that     *)
(* leaves it blank does not change.  A file is the name of an inode;       *)
(* `file` and `tmp` are the contents under the two names, and a writer's   *)
(* `fd` says under which name its inode is now.                            *)
(***************************************************************************)
CONSTANTS
  Updaters,   \* requests to /api/settings
  Guests, Nodes, Accesses,
  Home,       \* per guest: the node and kind that the cluster lists
  Patches,    \* what requests send
  None,       \* a blank field; no name; nobody
  Empty, Torn,   \* a file with nothing in it yet; with pieces of several writes
  Down        \* memory of a process that does not run

Kinds == {"lxc", "qemu"}

Settings == [ guest : Guests \cup {None}, node : Nodes \cup {None}, kind : Kinds,
              access : Accesses \cup {None} ]

ZeroSettings == [guest |-> None, node |-> None, kind |-> "lxc", access |-> None]

ASSUME SettingsAssumption ==
  /\ None \notin Updaters /\ None \notin Guests /\ None \notin Nodes /\ None \notin Accesses
  /\ Settings \cap {None, Empty, Torn, Down} = {}
  /\ None \notin {Empty, Torn} /\ Empty # Torn
  /\ Home \in [Guests -> [node : Nodes, kind : Kinds]]
  /\ Patches \subseteq Settings

\* What is under a name; None if it does not exist.
Content == Settings \cup {None, Empty, Torn}

VARIABLES
  running,         \* the process runs
  settings,        \* the settings in memory
  file, tmp,       \* the settings file, the temporary file
  pc, merged, fd,  \* per update: where it is; the settings it saves; its open file
  lone,            \* history: the update that has run alone so far, or None
  overlapped       \* history: see AtomicStore

fileVars    == <<file, tmp>>
updateVars  == <<pc, merged, fd>>
historyVars == <<lone, overlapped>>
vars == <<running, settings, fileVars, updateVars, historyVars>>

Init ==
  /\ running = FALSE /\ settings = ZeroSettings
  /\ file \in Patches \cup {None} /\ tmp = None
  /\ pc = [w \in Updaters |-> "idle"]
  /\ merged = [w \in Updaters |-> ZeroSettings]
  /\ fd = [w \in Updaters |-> "closed"]
  /\ lone = None /\ overlapped = FALSE

Goes(w, from, to) == running /\ pc[w] = from /\ pc' = [pc EXCEPT ![w] = to]
Put(f, x, value)  == [f EXCEPT ![x] = value]

\* An update that may still touch the file or the settings.
Updating == {"resolve", "open", "write", "rename", "chmod", "adopt"}
Active(w) == pc[w] \in Updating

-----------------------------------------------------------------------------
(* UpdateSettings, up to the save. *)

OrOld(new, old) == IF new = None THEN old ELSE new

\* Faulty variant: a blank secret is taken as it is.
mergeBlankAccess(patch) ==
  [ guest  |-> OrOld(patch.guest, settings.guest),
    node   |-> OrOld(patch.node, settings.node),
    kind   |-> patch.kind,
    access |-> patch.access ]

mergeSettingsPatch(patch) ==
  [ guest  |-> OrOld(patch.guest, settings.guest),
    node   |-> OrOld(patch.node, settings.node),
    kind   |-> patch.kind,
    access |-> OrOld(patch.access, settings.access) ]

UpdateSettings(u, patch) ==
  /\ Goes(u, "idle", "resolve")
  /\ merged' = Put(merged, u, mergeSettingsPatch(patch))
  /\ IF \A w \in Updaters : ~Active(w)
     THEN lone' = u /\ UNCHANGED overlapped
     ELSE lone' = None /\ overlapped' = TRUE
  /\ UNCHANGED <<running, settings, fileVars, fd>>

CanResolve(s) == s.access # None /\ s.guest # None

\* Exactly one guest of the cluster has the VMID; or nothing is asked.
Resolve(u) ==
  /\ Goes(u, "resolve", "open")
  /\ merged' = IF CanResolve(merged[u])
               THEN [merged EXCEPT ![u].node = Home[merged[u].guest].node,
                                   ![u].kind = Home[merged[u].guest].kind]
               ELSE merged
  /\ UNCHANGED <<running, settings, fileVars, fd, historyVars>>

\* Faulty variant: the open file is forgotten.
AbandonsOpen(u, from) ==
  /\ Goes(u, from, "idle")
  /\ merged' = Put(merged, u, ZeroSettings)
  /\ UNCHANGED fd

Abandons(u, from) ==
  /\ Goes(u, from, "idle")
  /\ merged' = Put(merged, u, ZeroSettings)
  /\ fd' = Put(fd, u, "closed")

\* The host is no URL that a client can be made for: refused, also with a node.
NoClient(u) ==
  /\ CanResolve(merged[u])
  /\ Abandons(u, "resolve")
  /\ UNCHANGED <<running, settings, fileVars, historyVars>>

\* The request fails, or none or several match: without a node the update is refused.
ResolveFails(u) ==
  /\ CanResolve(merged[u])
  /\ IF merged[u].node = None
     THEN Abandons(u, "resolve")
     ELSE Goes(u, "resolve", "open") /\ UNCHANGED <<merged, fd>>
  /\ UNCHANGED <<running, settings, fileVars, historyVars>>

-----------------------------------------------------------------------------
(* config.Save: write the temporary file, rename it, chmod.  Any of them may fail. *)

\* Faulty variant: the settings file itself is written.
OpenFile(u) ==
  /\ Goes(u, "open", "write")
  /\ file' = Empty
  /\ fd' = Put(fd, u, "file")
  /\ UNCHANGED <<running, settings, tmp, merged, historyVars>>

\* Opened with O_TRUNC: also another writer's inode, if it still has the name.
OpenTmp(u) ==
  /\ Goes(u, "open", "write")
  /\ tmp' = Empty
  /\ fd' = Put(fd, u, "tmp")
  /\ UNCHANGED <<running, settings, file, merged, historyVars>>

OpenFails(u) ==
  /\ Abandons(u, "open")
  /\ UNCHANGED <<running, settings, fileVars, historyVars>>

\* Both writes start at offset 0: of a longer text the end stays.
Overwritten(old, new) == IF old \in {Empty, new} THEN {new} ELSE {new, Torn}

\* What a name that holds `old` may hold after u has written to its inode.
Under(u, name, old, outcomes) == IF fd[u] = name THEN outcomes ELSE {old}

WriteTmp(u) ==
  /\ Goes(u, "write", "rename")
  /\ tmp' \in Under(u, "tmp", tmp, Overwritten(tmp, merged[u]))
  /\ file' \in Under(u, "file", file, Overwritten(file, merged[u]))
  /\ fd' = Put(fd, u, "closed")
  /\ UNCHANGED <<running, settings, merged, historyVars>>

WriteFails(u) ==
  /\ Abandons(u, "write")
  /\ tmp' \in Under(u, "tmp", tmp, {tmp, Torn})
  /\ file' \in Under(u, "file", file, {file, Torn})
  /\ UNCHANGED <<running, settings, historyVars>>

\* The inode goes to the other name; whoever has it open still writes to it.
Renamed == [w \in Updaters |-> CASE fd[w] = "tmp" -> "file" [] fd[w] = "file" -> "gone" [] OTHER -> fd[w]]

Rename(u) ==
  /\ tmp # None
  /\ Goes(u, "rename", "chmod")
  /\ file' = tmp /\ tmp' = None
  /\ fd' = Renamed
  /\ UNCHANGED <<running, settings, merged, historyVars>>

\* Then the temporary file is removed, whoever is writing it.
RenameFails(u) ==
  /\ Goes(u, "rename", "idle")
  /\ tmp' = None
  /\ merged' = Put(merged, u, ZeroSettings)
  /\ fd' = [w \in Updaters |-> IF fd[w] = "tmp" THEN "gone" ELSE fd[w]]
  /\ UNCHANGED <<running, settings, file, historyVars>>

Chmod(u) ==
  /\ Goes(u, "chmod", "adopt")
  /\ UNCHANGED <<running, settings, fileVars, merged, fd, historyVars>>

\* The caller is told of an error; the file has the new settings.
ChmodFails(u) ==
  /\ Abandons(u, "chmod")
  /\ UNCHANGED <<running, settings, fileVars, historyVars>>

Adopt(u) ==
  /\ Goes(u, "adopt", "idle")
  /\ settings' = merged[u]
  /\ merged' = Put(merged, u, ZeroSettings)
  /\ overlapped' = (overlapped /\ lone # u)
  /\ UNCHANGED <<running, fileVars, fd, lone>>

-----------------------------------------------------------------------------
(* The process. *)

Crash ==
  /\ running /\ running' = FALSE
  /\ settings' = ZeroSettings
  /\ pc' = [w \in Updaters |-> "idle"]
  /\ merged' = [w \in Updaters |-> ZeroSettings]
  /\ fd' = [w \in Updaters |-> "closed"]
  /\ lone' = None
  /\ UNCHANGED <<fileVars, overlapped>>

\* New, with config.Load: a missing file is no error.
Start ==
  /\ ~running /\ file \in Settings \cup {None}
  /\ running' = TRUE
  /\ settings' = IF file = None THEN ZeroSettings ELSE file
  /\ overlapped' = FALSE
  /\ UNCHANGED <<fileVars, updateVars, lone>>

\* Otherwise the process ends at once, and is started again.
StartFails ==
  /\ ~running /\ file \in {Empty, Torn}
  /\ UNCHANGED vars

-----------------------------------------------------------------------------
Saving(u) ==
  \/ Resolve(u) \/ NoClient(u) \/ ResolveFails(u) \/ OpenTmp(u) \/ OpenFails(u)
  \/ WriteTmp(u) \/ WriteFails(u) \/ Rename(u) \/ RenameFails(u) \/ Chmod(u) \/ ChmodFails(u) \/ Adopt(u)

Next ==
  \/ \E u \in Updaters : Saving(u) \/ \E patch \in Patches : UpdateSettings(u, patch)
  \/ Crash \/ Start \/ StartFails

Spec == Init /\ [][Next]_vars

-----------------------------------------------------------------------------
(* Properties. *)

(* Every variable has its type, and an update has the temporary file open  *)
(* only while it writes it, also if the write fails.                       *)
SettingsTypeOK ==
  /\ running \in BOOLEAN /\ settings \in Settings
  /\ file \in Content /\ tmp \in Content
  /\ pc \in [Updaters -> Updating \cup {"idle"}]
  /\ merged \in [Updaters -> Settings]
  /\ fd \in [Updaters -> {"closed", "tmp", "file", "gone"}]
  /\ \A w \in Updaters : fd[w] = "closed" <=> pc[w] # "write"
  /\ lone \in Updaters \cup {None} /\ overlapped \in BOOLEAN

Store == INSTANCE AtomicStore
  WITH disk <- file, memory <- IF running THEN settings ELSE Down,
       Initial <- ZeroSettings, Missing <- None, Down <- Down

(* The settings store is what AtomicStore says: unless updates overlap, a  *)
(* reader of the file finds whole settings at any time, and memory takes   *)
(* only what the file holds, though a write, rename or chmod may fail and  *)
(* the process may die anywhere.  Overlapping updates, which share one     *)
(* temporary file, can break both; the next lone update or start mends it. *)
StoreIsAtomic == Store!Spec

(* Without overlapping updates a running process never loses its           *)
(* credentials: a form leaves the secret blank, and the update that merged *)
(* it is the only one that can have changed the settings since.            *)
AccessKept ==
  [][running /\ running' /\ settings.access # None /\ ~overlapped => settings'.access # None]_vars
=============================================================================
