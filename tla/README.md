# Verification of pve-dns-lockdown

TLA+ models of `pve-dns-lockdown`, the DNS resolver that opens a Proxmox guest's
outbound firewall for the names its operator has enabled. The models are
translated from the Go sources under `src/`; TLC checks them on small instances
and TLAPS proves the theorems listed below for every value of the constants.

## 1. The system

### Parts, state and operations

| part | source | state it keeps | operations |
|---|---|---|---|
| Proxmox client: rules | `internal/proxmox/client.go` | none of its own; rules live on the Proxmox side, identified by position only | `SyncOutboundAllow`, `RemoveDynamicRules`, `PruneStaleOutboundAllowsForFQDN`, `RemoveAllManagedEgressForFQDN`, `EnsureBootstrapDNS` |
| rule list cache | same, `RuleSyncCache` | one list, valid for two seconds; a mutex held while it is fetched | `list`, `invalidate` |
| coordinator | `internal/coordinator/coordinator.go` | `lastDesc`, `lastConfigDigest`, `lastMergedAllowText`, `Seen`, `rejectedResolveIPs`, settings, client | `ApplyDNS`, `SaveMergedList`, `Refresh`, `runBootstrap`, `UpdateSettings` |
| allow list text | `internal/allowlist/allowlist.go` | none (pure) | `ParseListed`, `ParseAllowed`, `ExtractBlock`, `SpliceBlock`, `MergeSuggestedLines` |
| view and event stream | `coordinator.go:319-414` | `snap`, `revision`, activity log, subscribers | `finalizeView`, `enqueueFwActivities`, `SubscribeSSE`, `broadcast` |
| settings store | `internal/config/config.go`, `coordinator.go:163-304` | JSON file and its copy in memory | `Load`, `Save`, `mergeSettingsPatchLocked` |
| admin HTTP server and page | `internal/httpserver/httpserver.go` | the page's unsaved text, pending state, save in flight | `/stream`, `/api/save-list`, `/api/settings`, `/api/snapshot` |
| DNS plugin | `plugin/pve-dns-lockdown/lockdown.go` | none | `WriteMsg` calls `ApplyDNS` before the reply is written |
| network detection, main, version, packaging | `internal/netdetect`, `cmd`, `packaging`, `scripts` | none | start-up and builds |

How they interact: CoreDNS runs one goroutine per query; each calls `ApplyDNS`,
which makes several client operations. The HTTP server runs `SaveMergedList` and
`UpdateSettings`, one goroutine per request. Two tickers run `Refresh` (3 s) and
`runBootstrap` (45 s). All of them share the coordinator's fields under one
mutex, which is taken for single reads and writes and *never* for a handler as a
whole, and share the guest, whose firewall and description also change by the
operator's hand in the Proxmox UI.

### What is hard

* a rule is deleted by a position read earlier, while other goroutines create and
  delete rules of the same list;
* handlers act on copies of shared fields taken before requests that may take 30
  seconds;
* every request may be refused, or be applied while its reply is lost;
* refreshes and saves overtake each other; a restart forgets everything that is
  not in the description;
* the cache's mutex is held over a network request.

`PROJECT.json` lists these hazards one by one at the lines where they bite, with
the properties that cover them.

### What makes each part correct

* *client*: an operation that reports success has achieved what its name says,
  touched only rules of its own, and returns; the cache never answers with a list
  the program could know to be old.
* *coordinator*: the firewall opens the current addresses of the enabled names that the
  program knows of and nothing else; the operator's notes survive; what was looked up is suggested; the
  list answers are judged by becomes the guest's list.
* *allow list text*: splice and extract are inverse, notes are kept, a merge never
  enables or drops a name.
* *view*: no activity row is lost between publications; a page that has read its
  channel empty has the last snapshot; nothing a connection does holds up a
  publication; the ticker mends what was dropped or published out of date.
* *page*: what was not saved is rolled back, text being typed is kept, and the page
  ends up showing the guest's list.
* *settings*: a reader of the file finds whole settings; memory takes only what the
  file holds; a patch never loses a secret.

## 2. Modules

| module | models | notes |
|---|---|---|
| `FirewallRules` | rule list of a guest, comment tags, the client's predicates on rules | data only |
| `RuleClient` | the five firewall operations and the cache | extends `FirewallRules` |
| `Lockdown` | *abstract*: what the program promises of the guest's egress | `Coordinator` implements it, one handler at a time |
| `Coordinator` | the handlers; every firewall call is made through the actions of `RuleClient` | extends `RuleClient` |
| `AllowlistText` | the allow list as text: markers, lines, splice, extract, merge | operators only |
| `ViewStream` | view, activity log, publications, subscribers, the `/stream` handler | |
| `AdminPage` | the page's script and the requests it makes | uses what `ViewStream` shows of publications |
| `AtomicStore` | *abstract*: a settings store without partial states | `SettingsStore` implements it |
| `SettingsStore` | `UpdateSettings`, `config.Save` step by step, `config.Load`, crashes | |
| `RuleClientProofs`, `LoneCallProofs` | proofs about `RuleClient` | |
| `CoordinatorProofs`, `LoneHandlerProofs` | proofs about `Coordinator` | use those of `RuleClientProofs` and `LoneCallProofs` |
| `AllowlistTextProofs`, `ViewStreamProofs`, `AdminPageProofs`, `SettingsStoreProofs` | proofs about the module of that name | |
| `MCRuleClient`, `MCCoordinator`, `MCAllowlistText`, `MCViewStream`, `MCAdminPage`, `MCSettingsStore` | instances for TLC | |

### FirewallRules

A rule is a record `[owner, tag, dest]`. `owner` and `tag` stand for the comment:
`pve-dns-lockdown:<name>:<ipv4|ipv6>` for a dynamic rule, `...:<address>` for the
rules of older builds, `pve-dns-lockdown:bootstrap:dns-server` for a bootstrap rule
(its `tag` is the protocol), anything else is the operator's. Action, type and port
are constants of the code and left out. A list is a sequence; `Created` puts a new
rule at the head (`CreateAt = "head"`, what Proxmox does with a POST that names no
position) or at the tail; the proofs hold for both.

### RuleClient

A worker is a goroutine inside one operation. Its control is `pc`:

    idle -> list -> [get -> store ->] apply -> invalidate -> apply ... -> done -> idle

* `list`: `cache.list` takes the mutex; a hit decides the pass on the cached list,
  a miss keeps the mutex (`lock`) and fetches (`get`, `store`).
* `Decide` computes what the code's loops over the list collect: the rules still to
  create (`creates`) and the positions to delete (`deletes`).
* `apply`: one request per step (`CreateRule`, `DeleteRule`), each followed by
  `invalidate`. Deletions go from the highest position down (`DeletedNext`).
* `RemoveAllManagedEgressForFQDN` is two passes (IPv4, IPv6); `EnsureBootstrapDNS`
  deletes one stale rule per pass and lists again (`AnotherPass`).
* errors (`GetFails`, `ChangeRejected`, `ChangeReplyLost`, `DeleteOutOfRange`) end
  the call without invalidating the cache, as the code's early returns do;
  `ReportedOnError` is what `RemoveAllManagedEgressForFQDN` still reports.

`Expire` ends the cache's two seconds at any time. `OperatorEdits` is a rule added or
removed in the Proxmox UI. `drift` is a history variable: the rules changed since the
last GET without any reply telling the program.

### Coordinator

A worker runs one handler at a time; `step` is where it is, `task` its local
variables (the copies it took), `todo` the client calls it still has to make.

| handler | actions |
|---|---|
| `ApplyDNS` | `ApplyDNS` (copy of the list, decision), `NoteDenied`, then `NextCall`/`CallReturned` per address and family, `CallsDone` |
| `SaveMergedList` | `SaveMergedList` (copies), `PutDescription`/`PutRejected`/`PutReplyLost`, `RevokeNext`/`Revoked` per name, `CommitSave`, `NextCall`..., and the refresh at its end |
| `Refresh` | `PeriodicRefresh`, `GetGuestConfig`/`GetGuestConfigFails`, `MergeSeen` (its own section of the mutex), `StoreRefresh` |
| `runBootstrap` | `RunBootstrap`, then the call |
| process | `Restart`: memory as `New` leaves it, the guest as it is |

A *list* maps each name to `absent`, `blocked` (commented out) or `allowed`: what
`ParseListed` and `ParseAllowed` see in a text. A *description* is a list between the
markers and the notes around them. The digest Proxmox returns with a description is
a hash of it, so the model uses the description itself; a save sends
`lastConfigDigest`, or none if it has none. What texts with broken marker pairs, or with a
name on two lines, come down to is in `AllowlistText`.

An answer is a record `[ips, seen]`: its addresses, and the types of its records as
families. The two differ when an AAAA record carries an IPv4-mapped address, which
`ApplyDNS` leaves out of the addresses while it still prunes IPv6; `CoordShared` has such
an answer.

Two history variables say what an operator could expect to be open. `current` has the
addresses of each name by its latest answers, per family: an answer replaces those of the
families it carries. `forgotten` has the families of these that the program has dropped
while the name was not enabled: `rejectedResolveIPs` keeps one answer per name, so a
denied answer drops the other family (coordinator.go:770), and a name taken off the list
is dropped altogether. `Known` is `current` without them. `EgressContract` is stated with
`Known`, `EnabledIsOpen` with `current`: the first holds, the second does not
(`FindFamilyForgotten`).

`Lockdown` knows four things: the enabled names, the known addresses of each name, the
pairs that are open, and whether a handler is under way. At rest the open pairs are the
wanted ones; while a handler is under way one pair at a time is opened if it is wanted,
or closed if it is not. `LockdownKept` is `Coordinator` under the mapping
`Allowed(server.list)`, `Known`, `Opened(rules[Target])`, `~Quiet`. Lockdown lets
addresses of a name that is not enabled be forgotten, and those of no other.

Two conditions on the constants say when handlers do not overlap. `LoneHandler`: one
goroutine, one guest, no failing rule request, no lost reply of a config request, no edit
of rules or of the list in Proxmox, no restart, rules at the start that open enabled names
only, and AAAA records that carry IPv6 addresses.
`OneWriter`: no two saves or refreshes at once, the first refresh done; everything else
may overlap, fail and be edited. The module of `CoordAlone` assumes both, so that TLC
confirms that the instance it checks is one that the theorems are about.

### AllowlistText

A text is the sequence of its lines; a line is a marker, blank, a note, or what it says
of a name. `BeginAt` and `EndAt` are the *last* begin and end marker, as in the loops of
`ExtractBlock` and `SpliceBlock`; there is a block only if the end follows the begin.
`MergeSuggestedLines` gives the set of lines of the result, which the code sorts.
`MCAllowlistText` compares these operators with those of `Coordinator`: for all texts of
up to four lines, blocks of up to two, the description a text stands for is changed by
one as by the other. Left out: spaces, a dot at the end and case (`Normalize`), and the
conversion of line ends, which come before all of this.

### ViewStream

| code | actions |
|---|---|
| `Refresh`, up to `finalizeView` | `Refresh`; `GuestChanges` is what it would read |
| `enqueueFwActivities` | `LogActivity` (its section of the mutex), `Reread` |
| `finalizeView` | `TakeFinal`, `SetSnapshot`, `CopySubscribers`, `Send` per channel, `EndFinal`, all under `finalMu` |
| `SubscribeSSE`, `UnsubscribeSSE` | `Subscribe`; `Unsubscribe` (out of the set), `CloseChannel` (outside that section) |
| `/stream` | `SendSnapshot`, `Forward`; a blocked write is a handler that does not go on |

A `Send` to a full channel drops the event, one to a closed channel panics and is
recovered; `missed` is a history variable for both. A page that subscribes again has a new
channel at once: what a broadcast still sends to the closed one does not reach it. Revision numbers are left out:
nothing reads them.

### AdminPage

The script's variables are a record `page[p]`: the text and the rows shown, the list
last taken over (`clean`), `dirty`, `saving`, `pending`, and whether the rows' buttons
are disabled. `ApplyState`, `SaveEnded`, `Saved`, `SaveFailed`, `SaveBroken` are the
script's functions; the actions are the operator's (`Type`, `Revert`, `ClickSave`,
`Toggle`), what reaches the page (`Receive`, `AnswerFetch`/`ReceiveFetch`,
`ReceiveSaved`, `ReceiveFailed`, `LoseReply`) and the server's (`ServeSave`,
`RejectSave`, `BuildView`, `Reread`, `Publish`, `Connect`, `Disconnect`). A save goes
`posted -> [logging ->] stored -> ok`: in `logging` `enqueueFwActivities` publishes the
snapshot it has read (`SaveLogs`), in `stored` its refresh publishes the list it has read
(`SaveRefreshes`). An answer that changes the firewall publishes the snapshot it has read
in the same way (`AnswerLogs`). Between the reading and the publication others publish, so
an older list can follow a newer one. A publication is one step here, since `ViewStream`
shows that publications do not overlap.

### SettingsStore

An update goes `idle -> resolve -> open -> write -> rename -> chmod -> adopt -> idle`
(`UpdateSettings`, `Resolve`, `OpenTmp`, `WriteTmp`, `Rename`, `Chmod`, `Adopt`); each of
the steps in between may fail, with what the code then leaves behind. The first has two
failures: no client for the host (`NoClient`, the update is refused), and no answer for
the VMID (`ResolveFails`, refused only without a node). `fd` says under
which name the inode an update has open is now: a rename by another update moves it, and
the write then goes to the settings file itself. `Crash` may happen anywhere; `Start` is
`New` with `config.Load`, `StartFails` a file it cannot parse. `overlapped` is a history
variable: updates have overlapped and no lone update or start has come since.

`AtomicStore` is what a reader of the code takes for granted: the file is replaced whole,
memory takes what the file holds. `StoreIsAtomic` is `SettingsStore` implementing it, as
long as updates do not overlap; when they do, anything goes until the next lone update
or start, which has to put it right.

## 3. Runs

| run | question | bounds |
|---|---|---|
| `ClientShared` | type correctness, mutual exclusion, coherence of the cache; does every call come back? | two workers that sync and prune one name, one fault of any kind, one edit |
| `ClientAlone` | does each operation do its job and only its job? | one worker, all operations in any order on five lists with old, legacy and foreign rules, one refused request |
| `CoordAlone` | the egress contract, `Lockdown`, the notes; are lists what the texts say? | two names that share addresses in both families, all nine lists, one edit of the notes or one refused config request; texts of four lines |
| `CoordShared` | what no interleaving or failure breaks; liveness of suggestions and of the list | a worker for answers and the refresh ticker, a worker for saves (and the refresh at their end), one hit: a lost or refused config request, an edit of the list, or a restart |
| `View` | publications, dropped events, connections | the ticker and one handler, one page, a buffer and a log of two, two lists |
| `Page` | the page's list under saves, states and failures | one page, one name (three lists), an answer that publishes, a feed of one, one disturbance |
| `Settings` | atomicity of the store, credentials | two updates, two guests on two nodes, three requests |
| `FindSharedDelete`, `FindBootstrapLoop`, `FindDeniedReopened`, `FindFirstSave`, `FindFamilyForgotten` | see *Findings* | the smallest instance that shows it |

Why the bounds are enough: the operations treat names and addresses by equality
only, so two names (own and foreign) and two addresses of one family and one of the
other (desired, stale, other family) distinguish all cases of the predicates; two
workers give every pairwise interleaving of the cache's steps; one fault or edit
suffices to put a call's error return between any two other steps. In `CoordAlone`
the two names are symmetric, and no liveness property is checked there. `MaxHits` bounds
faults, edits and restarts of `Coordinator` together: with one, each of them falls between
any two steps of the overlapping handlers, and the liveness properties have to hold after it.

In `View` two publishers give every overlap of a copy of the log with a publication,
and pages do not affect each other; a buffer of two is full, and drops, as one of eight
does; a third row in a log of two shows the cut. In `Page` a name has all three statuses,
and the one disturbance is a failed request, a lost reply, a change elsewhere, a late
fetch or an answer that publishes again, at any point of the page's life; the saves, with
the rows they log, are not bounded, so a list that is published late is old by a save. In
`Settings` three overlapping updates would add no step that two cannot take: the file has
two names, and an inode that lost both is out of reach. The theorems of section 5 do not
depend on any of these bounds. Deadlock is checked in every run.

Some definitions are preceded by a *faulty variant* (`TagWithoutFamily`,
`GetFailsLocked`, ...): what a plausible mistake in that place of the code would
make of them. They take part in no specification; substituting one must break the
property of the run it belongs to, which shows that the property depends on the code.

### Fairness

`ClientFairness` and `Fairness` of `Coordinator` say that a goroutine inside a call or a
handler keeps running (Go's scheduler; every request has the client's 30 s timeout and
then is one of the failures modelled), that the refresh ticker goes on (a goroutine of its
own in the code; a worker of the model that does other things as well comes back to it, so
that `PeriodicRefresh` is strongly fair), and that a goroutine waiting for the cache's mutex gets it eventually: `sync.Mutex` hands the lock
to a waiter that waited longer than a millisecond, so these steps are strongly fair.
`StreamFairness` asks the same of publications and `finalMu`, and nothing of a
connection: a write to it may block for ever. `Fairness` of `AdminPage` says that the
server's goroutines and the ticker go on and that a browser handles what has arrived; a
stream need not reconnect. No answer, save, edit or failure is ever obliged to happen.

## 4. What the checks show

* One operation at a time is right: `CallAchieves`, `OthersUntouched`,
  `PruneKeepsDesired`, whatever rules are around and also when a request is refused.
* The cache does what its mutex is for: `MutexGuardsFetch`, `CacheCoherent`. Every call
  comes back, though a fetch may fail while the mutex is held: `EveryCallReturns`.
* One handler at a time keeps the contract of the README as far as the program knows the
  addresses (`EgressContract`; what it drops of a name that is not enabled stays closed
  until DNS is asked again, see finding 5), and gets from one contract to the next without a gap: what stays wanted is never closed on the
  way, what is not wanted is never opened (`LockdownKept`). Both are theorems.
* Handlers that overlap keep less: `EgressJustified` (an opened address belongs to a
  name that was enabled at some time, and an answer carried it), and the list heals:
  `ListConverges`, `SeenIsSuggested`.
* `finalMu` does what it is for: the snapshot has the whole log (`ActivityComplete`), a
  page that keeps up has the snapshot (`LivePageIsCurrent`), and no connection holds up
  a publication (`EveryPublicationEnds`). What it does not prevent is that
  `enqueueFwActivities` publishes an older list again after a newer one; the ticker puts
  that right once the firewall is quiet (`PageCatchesUp`), not before.
* The page is right about its own state (`RowsAreTheList`, `TypedTextKept`) and ends up
  with the guest's list once the firewall is quiet (`PageConverges`). Without that
  condition it does not: answers that log rows again and again can publish an old list
  again each time. Meanwhile a late answer of `/api/snapshot` or
  a state put off during a save can show it an older list, and a save that succeeds
  replaces what was typed while it was in flight.
* The settings file is atomic and memory follows it (`StoreIsAtomic`), credentials stay
  (`AccessKept`), unless updates overlap. Overlapping updates write one temporary file:
  they can tear it, rename it torn, and leave memory and file different; a torn file
  keeps the program from starting.

### Findings

Five runs end in a counterexample to what the repository says of itself.

1. `FindSharedDelete`: an answer creates a rule at the head of the list while an
   overlapping one prunes by the list cached before that; its delete by position hits the
   operator's rule, which the create has moved there (`client.go:664`; comment at line 623).
2. `FindBootstrapLoop`: after the DNS server's address has changed,
   `EnsureBootstrapDNS` deletes at positions its own creates have moved, and calls
   itself for ever (`client.go:735-739`; README, Flow, step 5). With rules created at
   the tail it would be right.
3. `FindDeniedReopened`: an answer judged by a copy of the old list opens its address
   after a save has closed the name (`coordinator.go:713`; README, Flow, step 3).
4. `FindFirstSave`: a save before the first successful refresh writes over the notes
   (`coordinator.go:492-513`; `docs/proxmox-setup.md:54`).
5. `FindFamilyForgotten`: a blocked name is answered for with an IPv4 address and then
   with an IPv6 address; the second answer overwrites the first in `rejectedResolveIPs`,
   and a save that enables the name opens only one of them (`coordinator.go:770`; the
   comment at lines 49-50).

Variations of these instances show the same properties broken in neighbouring ways: a
lost reply or a change of guest leaves a stale cache and a delete goes astray
(`OthersUntouched`); two overlapping answers for one name prune each other's rules
(`EgressContract`); a refresh overtaken by a save restores the old list for a while
(`DeniedIsClosed`), or its digest lets the next save overwrite an edit of the notes
(`NotesPreserved`).

## 5. What is proved

Every theorem holds for every value of the constants that the named assumptions of its
modules allow; TLC evaluates these assumptions in the runs. `RulesAssumption`: IPv4 and
IPv6 addresses are different things and none is the word `ipv4` or `ipv6`; no name is
`bootstrap` or `operator`; created rules go to the head or to the tail.
`ClientAssumption`: calls are well-formed, initial lists are lists of rules, `free` is no
goroutine. `CoordinatorAssumption`: the configured guest exists, answers carry addresses,
texts are lists. `ViewAssumption`: tickers are publishers, buffer and log have room.
`PageAssumption`: the ticker is no page, and an answer is neither. `SettingsAssumption`: a blank, an empty and a
torn file are no settings, the cluster lists every guest on a node. `AllowlistText` has
none.

| theorem | states |
|---|---|
| `ClientTypeCorrect`, `MutexCorrect`, `CacheIsCoherent` | `ClientSpec => []ClientTypeOK`, `[]MutexGuardsFetch`, `[]CacheCoherent`, from `ClientInvariant` |
| `LoneCallAchieves`, `LoneLeavesOthers`, `LonePruneKeepsDesired` | under `LoneCaller`: `ClientSpec => []CallAchieves`, `OthersUntouched`, `PruneKeepsDesired`, from `LoneInvariant` |
| `CoordTypeCorrect`, `EgressIsJustified`, `CacheCoherentUnderHandlers` | `Spec => []CoordTypeOK`, `[]EgressJustified`, `[]CacheCoherent`, from `CoordInvariant` |
| `LoneEgressContract`, `LoneLockdownKept` | under `LoneHandler`: `Spec => []EgressContract`, `LockdownKept` (the refinement of `Lockdown`), from `LoneHandlerInvariant` |
| `NotesArePreserved` | under `OneWriter`: `Spec => NotesPreserved` |
| `ExtractSpliced`, `SpliceKeepsNotes`, `SpliceReplaces`, `MergeKeepsStatus` | laws of the text operators, for every text |
| `StreamTypeCorrect`, `ActivityIsComplete`, `LivePageShowsSnapshot` | `StreamSpec => []...` of the three invariants, from `StreamInvariant` |
| `PageTypeCorrect`, `RowsShowTheList`, `TypedTextIsKept` | `Spec => []PageTypeOK`, `[]RowsAreTheList`, `TypedTextKept`, from `PageInvariant` |
| `SettingsTypeCorrect`, `StoreRefinement`, `AccessIsKept` | `Spec => []SettingsTypeOK`, `StoreIsAtomic`, `AccessKept`, from `StoreInvariant` |

**The client.** `CacheCoherent` alone is not inductive: `Store` puts into the cache what
was fetched two steps earlier, so the fetched list has to be coherent as well
(`FetchCoherent`); that no second fetch and no cache hit come in between is
`MutexGuardsFetch`; that a change of the list is announced by a worker at `invalidate`
until the cache is dead is in the definition of both. Types need that a worker inside a
call has a well-formed call (`InsideCall`) and that a position to delete lies in the
list it was found in and holds a rule of ours (`DoomedAreOurs`). Their conjunction is
`ClientInv`. The lemmas `CoherenceKept` and `ChangeCoherent` cover the steps that leave
the list alone and those that change it; the rest is one case per action.

**A call that runs alone.** `LoneCaller` is the setting of the run `ClientAlone`: one
goroutine, one guest, no edits and no lost replies, requests that are refused at any
point. It has bootstrap calls if Proxmox puts new rules at the tail, or if this DNS server
has only one address, so that they delete nothing: otherwise they delete at positions
their own creates have moved, as `FindBootstrapLoop` shows. The run also has bootstrap calls
on lists where that does no harm. `NextLone` is about every client that is asked
for such calls only, so the composition uses it too. `LoneInv` adds to `ClientInv` that the list
a pass works on is the guest's, up to the last position still to delete
(`DoomedInPlace`), which holds because positions are deleted in descending order; that a
rule to delete which is still there is at such a position (`NoneLeft`); that a rule to
create is there or still to create (`NoneForgotten`); and that the second pass of
`removeAll` finds the first family gone (`FirstFamilyGone`).

**The composition.** `StepOfClient` shows that to the client every step of the
coordinator is a step of some worker with some call, or a stutter, or `Restart`; so
`ClientInv` carries over (`NextClientInv`). `EgressJustified` needs everything an opened
rule can come from to be justified already: calls still to be made and in progress, and
rules a pass still has to create (`CallsJustified`); the lists answers are judged by,
also the copies that a save or a refresh carries (`ListsApproved`); and every address
that can end up in `rejectedResolveIPs` and be opened by a later save, which includes
what a revocation reports as removed and therefore the cached and fetched lists
(`AddressesAnswered`). `HandlersTyped` ties a handler's local variables to where it is.
Their conjunction with `ClientInv` is `CoordInv`. It contains nothing about the order of
handlers, so the theorem is not weakened by the interleavings that break
`DeniedIsClosed`: those reopen a name that *was* enabled.

**One handler at a time.** `EgressContract` speaks of rest only; its invariant has to say
what is open in the middle of a handler. `HandlerInv` adds to `CoordInv` and `LoneInv`
(which carries over, since a lone handler makes only calls as `AsBuilt` has them):

* `OnTheWay`: a pair that is wanted and not open is one the handler has still to open, a
  pair that is open and not wanted is one it has still to close, and it has nothing
  else to open or to close. At rest nothing is left to do, which is the contract;
* `CallsFit`: calls are pending in the phase that makes them, and no call fails;
* `ListsAgree`: the remembered list enables what the guest's does, except between the
  request that stores a new list and `CommitSave`, and the copies of a save or a refresh
  are still what they were copied from;
* `AddressesNoted`: of a name that is denied, `rejectedResolveIPs` has the
  known addresses, and of any other none: a later save opens exactly what is wanted.
  This goes through `Denied`, because a save revokes names one by one;
* `RemovedNoted`: while a name is revoked, its addresses are those that are still open
  and those removed so far, which is what the call will report;
* `WellTagged`: a dynamic rule carries the family of its address, or the address, in its
  tag; without it `prune` and `removeAll` would overlook a rule.

`CallStepIs` ties client and coordinator: a step inside a call opens one pair that the
call opens (`Opens`), closes one that it closes (`Closes`), or changes none; `ReturnedIs`
says that a call which returns has nothing left, from `LoneInv`.
`OpenedAdded` and `OpenedDeleted` are the arithmetic of positions behind it. The rest
is a lemma per action (`AnswerKept`, `NoteKept`, `StoredKept`, `RevokeKept`,
`RevokedKept`, `CommitKept`) and `UntouchedKept` for those that touch no list or address.

The refinement of `Lockdown` follows step by step (`NextLockdown`): an answer is `Answer`
(`AnswerIsAnswer`), the start of another handler is `OtherHandler`, `PutDescription` is
`StoreList`, a step inside a call is `Open`, `Close` or a stutter (`CallStepIsChange`, by
`OnTheWay`), `Revoked` is `Forget` or a stutter, the end of a handler is `Rest`
(`RestIsRest`), everything else is a stutter.

The hypothesis leaves out what breaks the contract in the code: overlapping
handlers (`FindDeniedReopened`), a rule request that fails or an edit (nothing retries
the call), and bootstraps after a change of this server's address. Config requests may
be refused anywhere, and the notes edited.

**The notes.** Proxmox takes a save if the digest fits, so the notes survive if the
digest is that of a description with the notes that are sent. `NotesInv` says so of
`lastDigest` and `lastDesc`, and that both are still what a save has copied. A commit
leaves the digest alone and changes only the list in `lastDesc`; a refresh sets both to
what it has read. That saves and refreshes do not overlap cannot be dispensed with: a refresh
(a save ends with one, too) that ends during another save would replace what the save has copied, and the
commit would then put back the old notes beside a new digest.

**The text.** A set of indices that is not empty has a greatest element (`LastExists`,
from the well-foundedness of `<`), so `BeginAt` and `EndAt` are what the loops find.
`BlockFound` then says that notes, a block without markers in its lines, and notes
without markers are taken apart where they were put together; a spliced text is one of
that form (`SplicedIs`), because what follows the last end marker has no marker that
could win over it (`AfterUnmarked`).

**The stream.** `StreamInv` has who holds `finalMu` (`FinalMutex`), that what is being
sent is the snapshot (`SendsSnapshot`), that a logged row is in the snapshot, or in the
draft that will replace it, or its logger has not published yet (`LogCarried`), that
subscribers are connected pages (`SubsAreConnected`), and that the newest event of a
channel, or what its page shows, is the snapshot, or is about to be (`SnapshotArrived`).

**The page.** A page is *tidy* if its rows and text are the last list taken over, except
for unsaved text, a save in flight, and a save whose reply never came. Each of the
script's functions keeps a page tidy, and each action changes one page by one of them
(`PageTurns`).

**The store.** While updates do not overlap, only the lone one is under way
(`OnlyLone`); the temporary file is its own (`LoneOwnsFiles`), the settings file is whole
(`WholeFile`), and the settings it is about to store have credentials if memory has
(`LoneKeepsAccess`). The refinement then is one case per action: `Rename` is `Store` of
the abstract module, `Adopt` and `Start` are themselves, everything else is a stutter or
has `overlapped'`.

The invariants were first checked by TLC as invariants of the runs' instances.

Only the liveness properties of the runs have no theorem. Out of the prover's reach:
liveness under fairness (`EveryCallReturns`,
`SeenIsSuggested`, `ListConverges`, `EveryPublicationEnds`, `PageCatchesUp`,
`PageConverges`), ENABLED, and what recursive definitions compute for every input.

## 6. Only model-checked, and not modelled

Only model-checked: the liveness properties, and that Coordinator's lists are what the
texts say (for short texts; the operators on texts have theorems of their own).

Not modelled:

* *Network detection, process start, version, builds*: no state between calls, or not
  part of the running program.
* *The guest's node and kind*: that the update asks, and what it does with the outcome,
  is in `SettingsStore`; how one row of the cluster's answer is read is not.
* *The end of a settings update*: its bootstrap and refresh are the handlers of
  `Coordinator`, which keeps one guest. So no run shows that after a change of the guest
  the cache, which has no key, and the list of the other guest are used for a while; both
  are in the code as it stands.
* *The settings form* of the page and its notice of new names. The form has no
  `service_ipv4`, so an update of the settings drops it.
* *Within the modelled parts*: DNS response codes other than success (the handler returns
  at once), log lines, the outbound policy read for the banner, rules whose destination
  is not an address (no operation selects them), addresses in non-canonical spelling,
  revision numbers.

## 7. Plan

What is left, in order of what it would add:

1. A change of the guest: `SettingsStore` composed with `Coordinator` over two guests.
2. What survives a failing rule request: an invariant like `OnTheWay` that names the
   pairs a failed call has left behind.
3. The notice of new names and the settings form on the page.
