------------------------ MODULE SettingsStoreProofs -------------------------
(***************************************************************************)
(* Proofs about SettingsStore: types, the refinement of AtomicStore, and   *)
(* that credentials are kept.                                              *)
(***************************************************************************)
EXTENDS SettingsStore, TLAPS

-----------------------------------------------------------------------------
(* The inductive invariant. *)

\* Without overlapping, and for as long as an update has been alone, it is the only one.
OnlyLone ==
  \A w \in Updaters : Active(w) /\ (lone # None \/ ~overlapped) => w = lone

\* So the files are as it left them.
LoneOwnsFiles ==
  \A w \in Updaters : w = lone =>
    /\ pc[w] = "write" => fd[w] = "tmp" /\ tmp = Empty
    /\ pc[w] = "rename" => tmp = merged[w]
    /\ pc[w] \in {"chmod", "adopt"} => file = merged[w]

WholeFile == ~overlapped => file \in Settings \cup {None}

StoppedIsIdle == ~running => \A w \in Updaters : pc[w] = "idle"

\* What a lone update merged had the credentials of memory, or new ones.
LoneKeepsAccess ==
  \A w \in Updaters :
    ~overlapped /\ Active(w) /\ settings.access # None => merged[w].access # None

StoreInv ==
  SettingsTypeOK /\ OnlyLone /\ LoneOwnsFiles /\ WholeFile /\ StoppedIsIdle /\ LoneKeepsAccess

-----------------------------------------------------------------------------
(* Types. *)

(* A merged patch is settings: blank fields take what memory holds         *)
(* (mergeSettingsPatchLocked).                                             *)
LEMMA MergeIsSettings ==
  ASSUME settings \in Settings, NEW patch \in Settings
  PROVE  mergeSettingsPatch(patch) \in Settings
BY DEF mergeSettingsPatch, Settings, OrOld

(* Where the guest is, as the cluster lists it, fits into the settings     *)
(* (resolveNodeGuestIfPossible).                                           *)
LEMMA ResolvedIsSettings ==
  ASSUME NEW s \in Settings, CanResolve(s)
  PROVE  [s EXCEPT !.node = Home[s.guest].node, !.kind = Home[s.guest].kind] \in Settings
<1>1. s.guest \in Guests
  BY DEF CanResolve, Settings
<1>2. Home[s.guest].node \in Nodes /\ Home[s.guest].kind \in Kinds
  BY <1>1, SettingsAssumption
<1> QED
  BY <1>2 DEF Settings

(* The settings of a process without a file are settings (Load).           *)
LEMMA ZeroIsSettings == ZeroSettings \in Settings
BY DEF ZeroSettings, Settings, Kinds

(* Every step keeps the types, and an update's file open exactly while it  *)
(* writes it.                                                              *)
LEMMA TypeStep ==
  ASSUME SettingsTypeOK, [Next]_vars
  PROVE  SettingsTypeOK'
<1> USE DEF SettingsTypeOK
<1>1. ASSUME NEW u \in Updaters, NEW patch \in Patches, UpdateSettings(u, patch)
      PROVE  SettingsTypeOK'
  <2>1. mergeSettingsPatch(patch) \in Settings
    BY SettingsAssumption, MergeIsSettings
  <2> QED
    BY <1>1, <2>1 DEF UpdateSettings, Goes, Put, Updating, fileVars
<1>2. ASSUME NEW u \in Updaters, Resolve(u)
      PROVE  SettingsTypeOK'
  <2>1. merged' \in [Updaters -> Settings]
    <3>1. CASE CanResolve(merged[u])
      <4> DEFINE found == [merged[u] EXCEPT !.node = Home[merged[u].guest].node,
                                            !.kind = Home[merged[u].guest].kind]
      <4>1. found \in Settings
        BY <3>1, ResolvedIsSettings
      <4>2. merged' = [merged EXCEPT ![u] = found]
        BY <1>2, <3>1 DEF Resolve
      <4> QED
        BY <4>1, <4>2
    <3>2. CASE ~CanResolve(merged[u])
      BY <1>2, <3>2 DEF Resolve
    <3> QED
      BY <3>1, <3>2
  <2> QED
    BY <1>2, <2>1 DEF Resolve, Goes, Updating, historyVars, fileVars
<1>3. ASSUME NEW u \in Updaters, NEW from \in Updating, Abandons(u, from)
      PROVE  /\ pc' \in [Updaters -> Updating \cup {"idle"}]
             /\ merged' \in [Updaters -> Settings]
             /\ fd' \in [Updaters -> {"closed", "tmp", "file", "gone"}]
             /\ \A w \in Updaters : fd'[w] = "closed" <=> pc'[w] # "write"
  BY <1>3, ZeroIsSettings DEF Abandons, Goes, Put, Updating
<1>4. ASSUME NEW u \in Updaters, NoClient(u) \/ ResolveFails(u)
      PROVE  SettingsTypeOK'
  <2>1. CASE Abandons(u, "resolve")
    BY <1>3, <1>4, <2>1 DEF NoClient, ResolveFails, Updating, fileVars, historyVars
  <2>2. CASE Goes(u, "resolve", "open") /\ UNCHANGED <<merged, fd>>
    BY <1>4, <2>2 DEF NoClient, ResolveFails, Goes, Updating, fileVars, historyVars
  <2> QED
    BY <1>4, <2>1, <2>2 DEF NoClient, ResolveFails
<1>5. ASSUME NEW u \in Updaters, OpenTmp(u)
      PROVE  SettingsTypeOK'
  BY <1>5 DEF OpenTmp, Goes, Put, Updating, Content, historyVars
<1>6. ASSUME NEW u \in Updaters, OpenFails(u)
      PROVE  SettingsTypeOK'
  BY <1>3, <1>6 DEF OpenFails, Updating, fileVars, historyVars
<1>7. ASSUME NEW u \in Updaters, WriteTmp(u)
      PROVE  SettingsTypeOK'
  <2>1. tmp' \in Content /\ file' \in Content
    BY <1>7 DEF WriteTmp, Under, Overwritten, Content
  <2> QED
    BY <1>7, <2>1 DEF WriteTmp, Goes, Put, Updating, historyVars
<1>8. ASSUME NEW u \in Updaters, WriteFails(u)
      PROVE  SettingsTypeOK'
  <2>1. tmp' \in Content /\ file' \in Content
    BY <1>8 DEF WriteFails, Under, Content
  <2> QED
    BY <1>3, <1>8, <2>1 DEF WriteFails, Updating, historyVars
<1>9. ASSUME NEW u \in Updaters, Rename(u)
      PROVE  SettingsTypeOK'
  <2>1. /\ fd' \in [Updaters -> {"closed", "tmp", "file", "gone"}]
        /\ \A w \in Updaters : fd'[w] = "closed" <=> fd[w] = "closed"
    BY <1>9 DEF Rename, Renamed
  <2> QED
    BY <1>9, <2>1 DEF Rename, Goes, Updating, Content, historyVars
<1>10. ASSUME NEW u \in Updaters, RenameFails(u)
       PROVE  SettingsTypeOK'
  BY <1>10, ZeroIsSettings DEF RenameFails, Goes, Put, Updating, Content, historyVars
<1>11. ASSUME NEW u \in Updaters, Chmod(u)
       PROVE  SettingsTypeOK'
  BY <1>11 DEF Chmod, Goes, Updating, fileVars, historyVars
<1>12. ASSUME NEW u \in Updaters, ChmodFails(u)
       PROVE  SettingsTypeOK'
  BY <1>3, <1>12 DEF ChmodFails, Updating, fileVars, historyVars
<1>13. ASSUME NEW u \in Updaters, Adopt(u)
       PROVE  SettingsTypeOK'
  BY <1>13, ZeroIsSettings DEF Adopt, Goes, Put, Updating, fileVars
<1>14. CASE Crash
  BY <1>14, ZeroIsSettings DEF Crash, fileVars
<1>15. CASE Start
  BY <1>15, ZeroIsSettings DEF Start, fileVars, updateVars
<1>16. CASE StartFails
  BY <1>16 DEF StartFails, vars, fileVars, updateVars, historyVars
<1>17. CASE UNCHANGED vars
  BY <1>17 DEF vars, fileVars, updateVars, historyVars
<1> QED
  BY <1>1, <1>2, <1>4, <1>5, <1>6, <1>7, <1>8, <1>9, <1>10, <1>11, <1>12, <1>13, <1>14, <1>15,
     <1>16, <1>17 DEF Next, Saving

-----------------------------------------------------------------------------
(* A lone update has the files to itself. *)

Rest == OnlyLone /\ LoneOwnsFiles /\ WholeFile /\ StoppedIsIdle /\ LoneKeepsAccess

(* While a process runs, no step of an update but those of the lone one    *)
(* touches what it relies on (UpdateSettings, config.Save).                *)
LEMMA RestStep ==
  ASSUME SettingsTypeOK, SettingsTypeOK', Rest, [Next]_vars
  PROVE  Rest'
<1> USE SettingsAssumption DEF SettingsTypeOK, Rest, OnlyLone, LoneOwnsFiles, WholeFile, StoppedIsIdle, LoneKeepsAccess
<1>1. ASSUME NEW u \in Updaters, NEW patch \in Patches, UpdateSettings(u, patch)
      PROVE  Rest'
  <2>1. settings.access # None => mergeSettingsPatch(patch).access # None
    BY DEF mergeSettingsPatch, OrOld
  <2>2. CASE \A w \in Updaters : ~Active(w)
    BY <1>1, <2>1, <2>2 DEF UpdateSettings, Goes, Put, Active, Updating, fileVars
  <2>3. CASE ~ \A w \in Updaters : ~Active(w)
    BY <1>1, <2>3 DEF UpdateSettings, Goes, Put, Active, Updating, fileVars
  <2> QED
    BY <2>2, <2>3
<1>2. ASSUME NEW u \in Updaters, Resolve(u)
      PROVE  Rest'
  <2>1. \A w \in Updaters : merged'[w].access = merged[w].access /\ (w # u => merged'[w] = merged[w])
    BY <1>2 DEF Resolve, Settings
  <2> QED
    BY <1>2, <2>1 DEF Resolve, Goes, Active, Updating, fileVars, historyVars
<1>3. ASSUME NEW u \in Updaters, NoClient(u) \/ ResolveFails(u)
      PROVE  Rest'
  BY <1>3 DEF NoClient, ResolveFails, Abandons, Goes, Put, Active, Updating, fileVars, historyVars
<1>4. ASSUME NEW u \in Updaters, OpenTmp(u)
     PROVE  Rest'
  BY <1>4 DEF OpenTmp, Goes, Put, Active, Updating, historyVars
<1>5. ASSUME NEW u \in Updaters, OpenFails(u)
     PROVE  Rest'
  BY <1>5 DEF OpenFails, Abandons, Goes, Put, Active, Updating, fileVars, historyVars
<1>6. ASSUME NEW u \in Updaters, WriteTmp(u)
     PROVE  Rest'
  BY <1>6 DEF WriteTmp, Under, Overwritten, Goes, Put, Active, Updating, historyVars
<1>7. ASSUME NEW u \in Updaters, WriteFails(u)
     PROVE  Rest'
  BY <1>7 DEF WriteFails, Under, Abandons, Goes, Put, Active, Updating, historyVars
<1>8. ASSUME NEW u \in Updaters, Rename(u)
     PROVE  Rest'
  BY <1>8 DEF Rename, Renamed, Goes, Active, Updating, historyVars
<1>9. ASSUME NEW u \in Updaters, RenameFails(u)
     PROVE  Rest'
  BY <1>9 DEF RenameFails, Goes, Put, Active, Updating, historyVars
<1>10. ASSUME NEW u \in Updaters, Chmod(u)
      PROVE  Rest'
  BY <1>10 DEF Chmod, Goes, Active, Updating, fileVars, historyVars
<1>11. ASSUME NEW u \in Updaters, ChmodFails(u)
      PROVE  Rest'
  BY <1>11 DEF ChmodFails, Abandons, Goes, Put, Active, Updating, fileVars, historyVars
<1>12. ASSUME NEW u \in Updaters, Adopt(u)
      PROVE  Rest'
  BY <1>12 DEF Adopt, Goes, Put, Active, Updating, fileVars
<1>13. CASE Crash
  BY <1>13 DEF Crash, Active, Updating, fileVars
<1>14. CASE Start
  BY <1>14 DEF Start, Active, Updating, fileVars, updateVars
<1>15. CASE StartFails \/ UNCHANGED vars
  BY <1>15 DEF StartFails, Active, vars, fileVars, updateVars, historyVars
<1> QED
  BY <1>1, <1>2, <1>3, <1>4, <1>5, <1>6, <1>7, <1>8, <1>9, <1>10, <1>11, <1>12, <1>13, <1>14, <1>15
  DEF Next, Saving

(* The invariant holds when the process has not started yet: the file is   *)
(* whole or missing, and nobody updates.                                   *)
LEMMA StoreInvInit == Init => StoreInv
<1> SUFFICES ASSUME Init PROVE StoreInv
  OBVIOUS
<1>1. file \in Settings \cup {None}
  BY SettingsAssumption DEF Init
<1>2. SettingsTypeOK
  BY <1>1, ZeroIsSettings DEF Init, SettingsTypeOK, Content
<1> QED
  BY <1>1, <1>2, SettingsAssumption
  DEF Init, StoreInv, OnlyLone, LoneOwnsFiles, WholeFile, StoppedIsIdle, LoneKeepsAccess, Active, Updating

(* Every step keeps it.                                                    *)
LEMMA StoreInvStep == StoreInv /\ [Next]_vars => StoreInv'
BY TypeStep, RestStep DEF StoreInv, Rest

(* The inductive invariant of the settings store, for any number of        *)
(* overlapping requests to /api/settings and any failures.                 *)
THEOREM StoreInvariant == Spec => []StoreInv
BY StoreInvInit, StoreInvStep, PTL DEF Spec

(* Type correctness: settings in memory are whole settings, also after     *)
(* merging blank fields and after failures, and no update leaves its file  *)
(* open (UpdateSettings, config.Save).                                     *)
THEOREM SettingsTypeCorrect == Spec => []SettingsTypeOK
<1>1. StoreInv => SettingsTypeOK
  BY DEF StoreInv
<1> QED
  BY <1>1, StoreInvariant, PTL

-----------------------------------------------------------------------------
(* The refinement. *)

(* Before the first start the file is what the store promises.             *)
LEMMA StoreInitRefines == Init => Store!Init
BY SettingsAssumption DEF Init, Store!Init

\* What a step does to the three variables of the store.
memory == IF running THEN settings ELSE Down
Still == UNCHANGED <<file, memory, overlapped>>

(* Each step of the program is a step of the store, or none that a reader  *)
(* of file and memory sees (config.Save, config.Load, UpdateSettings).     *)
LEMMA StoreStepRefines ==
  ASSUME StoreInv, [Next]_vars
  PROVE  [Store!Next]_(Store!vars)
<1> USE SettingsAssumption DEF StoreInv, SettingsTypeOK, OnlyLone, LoneOwnsFiles, WholeFile
<1>1. SUFFICES ASSUME ~overlapped'
               PROVE  [Store!Next]_(Store!vars)
  BY DEF Store!Next
<1>2. Still => [Store!Next]_(Store!vars)
  BY DEF Still, memory, Store!vars
<1>3. ASSUME NEW u \in Updaters, NEW patch \in Patches, UpdateSettings(u, patch)
      PROVE  Still
  BY <1>1, <1>3 DEF UpdateSettings, Still, memory, fileVars
<1>4. ASSUME NEW u \in Updaters,
             \/ Resolve(u) \/ NoClient(u) \/ ResolveFails(u) \/ OpenTmp(u) \/ OpenFails(u) \/ Chmod(u) \/ ChmodFails(u)
             \/ RenameFails(u)
      PROVE  Still
  BY <1>4 DEF Resolve, NoClient, ResolveFails, OpenTmp, OpenFails, Chmod, ChmodFails, RenameFails, Still,
              memory, fileVars, historyVars
<1>5. ASSUME NEW u \in Updaters, WriteTmp(u) \/ WriteFails(u)
      PROVE  Still
  <2>1. pc[u] = "write" /\ UNCHANGED <<running, settings, historyVars>>
    BY <1>5 DEF WriteTmp, WriteFails, Abandons, Goes
  <2>2. u = lone
    BY <1>1, <2>1 DEF Active, Updating, historyVars
  <2>3. fd[u] = "tmp"
    BY <2>1, <2>2
  <2>4. file' = file
    BY <1>5, <2>3 DEF WriteTmp, WriteFails, Under
  <2> QED
    BY <2>1, <2>4 DEF Still, memory, historyVars
<1>6. ASSUME NEW u \in Updaters, Rename(u)
      PROVE  Store!Next
  <2>1. u = lone /\ pc[u] = "rename" /\ ~overlapped
    BY <1>1, <1>6 DEF Rename, Goes, Active, Updating, historyVars
  <2>2. file' \in Settings
    BY <1>6, <2>1 DEF Rename
  <2> QED
    BY <1>1, <1>6, <2>1, <2>2 DEF Rename, Store!Next, Store!Store, historyVars
<1>7. ASSUME NEW u \in Updaters, Adopt(u)
      PROVE  Store!Next
  <2>1. u = lone /\ pc[u] = "adopt" /\ running /\ running'
    BY <1>1, <1>7 DEF Adopt, Goes, Active, Updating
  <2>2. file = merged[u] /\ file \in Settings
    BY <2>1
  <2>3. settings' = file /\ file' = file
    BY <1>7, <2>2 DEF Adopt, fileVars
  <2> QED
    BY <1>1, <2>1, <2>2, <2>3 DEF Store!Next, Store!Adopt, Store!Loaded
<1>8. CASE Crash
  BY <1>1, <1>8 DEF Crash, fileVars, Store!Next, Store!Stop
<1>9. CASE Start
  <2>1. file' = file /\ running' /\ ~running /\ settings' = Store!Loaded(file)
    BY <1>9 DEF Start, fileVars, Store!Loaded
  <2> QED
    BY <1>1, <2>1 DEF Store!Next, Store!Start
<1>10. StartFails \/ UNCHANGED vars => Still
  BY DEF StartFails, vars, fileVars, historyVars, Still, memory
<1> QED
  BY <1>2, <1>3, <1>4, <1>5, <1>6, <1>7, <1>8, <1>9, <1>10 DEF Next, Saving

(* The settings store implements AtomicStore: without overlapping updates  *)
(* config.Save replaces the file whole and memory takes only what the file *)
(* holds, and a lone update or a start mends what overlapping ones broke.  *)
THEOREM StoreRefinement == Spec => StoreIsAtomic
<1>1. Init => Store!Init
  BY StoreInitRefines
<1>2. StoreInv /\ [Next]_vars => [Store!Next]_(Store!vars)
  BY StoreStepRefines
<1> QED
  BY <1>1, <1>2, StoreInvariant, PTL DEF Spec, Store!Spec, StoreIsAtomic

-----------------------------------------------------------------------------
(* Credentials. *)

(* Without overlapping updates the credentials in memory are never lost:   *)
(* only Adopt changes them, to what the lone update merged                 *)
(* (mergeSettingsPatchLocked, UpdateSettings).                             *)
THEOREM AccessIsKept == Spec => AccessKept
<1>1. StoreInv /\ [Next]_vars
        => [running /\ running' /\ settings.access # None /\ ~overlapped => settings'.access # None]_vars
  <2> SUFFICES ASSUME StoreInv, Next, running, running', settings.access # None, ~overlapped
               PROVE  settings'.access # None
    BY DEF StoreInv
  <2>1. ASSUME NEW u \in Updaters, Adopt(u)
        PROVE  settings'.access # None
    BY <2>1 DEF Adopt, Goes, StoreInv, LoneKeepsAccess, Active, Updating
  <2>2. (\A u \in Updaters : ~Adopt(u)) => settings' = settings
    BY DEF Next, Saving, UpdateSettings, Resolve, NoClient, ResolveFails, OpenTmp, OpenFails, WriteTmp, WriteFails,
           Rename, RenameFails, Chmod, ChmodFails, Crash, Start, StartFails, vars
  <2> QED
    BY <2>1, <2>2
<1> QED
  BY <1>1, StoreInvariant, PTL DEF Spec, AccessKept
=============================================================================
