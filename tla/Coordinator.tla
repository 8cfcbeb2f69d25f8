---------------------------- MODULE Coordinator ----------------------------
(***************************************************************************)
(* internal/coordinator: what happens to the allow list and to the guest's *)
(* firewall when a DNS answer passes (ApplyDNS), when the operator saves   *)
(* the list (SaveMergedList), when the list is read back from the guest's  *)
(* description (Refresh) and when the bootstrap rules are ensured.  Every  *)
(* handler is a worker; what it does to the firewall are calls of module   *)
(* RuleClient, step by step.  The coordinator's mutex covers single steps  *)
(* of the handlers only, never a handler as a whole.                       *)
(*                                                                         *)
(* A list is what allowlist.ParseListed and ParseAllowed see in a text:    *)
(* the names that have an uncommented line, a commented one, or none.  The *)
(* digest Proxmox gives with a description is a hash of it: here, itself.  *)
(***************************************************************************)
EXTENDS RuleClient

CONSTANTS
  Target,           \* the guest the settings name
  Notes,            \* texts the operator may have around the markers
  NoNotes,          \* the empty text
  Answers,          \* answers that may pass: addresses, and families by record type (A, AAAA)
  SaveTexts,        \* lists the operator may save
  EditedLists,      \* lists the operator may write into the description directly
  InitStates,       \* records [server, rules, loaded] the program may be started on
  DnsWorkers, SaveWorkers, RefreshWorkers, BootWorkers,  \* who runs which handler
  ConfigFaults,     \* what can go wrong with a config request: subset of {"rejected", "lost"}
  MaxConfigFaults, MaxNotesEdits, MaxRestarts,  \* bounds on what the environment does,
  MaxHits                                       \* and on all of it together

Status == {"absent", "blocked", "allowed"}
List   == [Names -> Status]
Description == [list : List, notes : Notes \cup {NoNotes}]

NoDigest  == {}
EmptyList == [n \in Names |-> "absent"]
EmptyDesc == [list |-> EmptyList, notes |-> NoNotes]

Allowed(list) == {n \in Names : list[n] = "allowed"}
Listed(list)  == {n \in Names : list[n] # "absent"}

ASSUME CoordinatorAssumption ==
  /\ Target \in Guests
  /\ SaveTexts \subseteq List /\ EditedLists \subseteq List
  /\ Answers \subseteq [ips : SUBSET IPs, seen : SUBSET Families]
  /\ InitStates \subseteq [server : Description, rules : InitLists, loaded : BOOLEAN]
  /\ UNION {DnsWorkers, SaveWorkers, RefreshWorkers, BootWorkers} \subseteq Workers
  /\ ConfigFaults \subseteq {"rejected", "lost"}
  /\ {MaxConfigFaults, MaxNotesEdits, MaxRestarts, MaxHits} \subseteq Nat

VARIABLES
  server,      \* the guest's description on the Proxmox side
  lastDesc,    \* Coordinator.lastDesc
  lastDigest,  \* Coordinator.lastConfigDigest: the description it is the digest of, or none
  lastList,    \* Coordinator.lastMergedAllowText
  Seen,        \* Coordinator.Seen
  rejected,    \* Coordinator.rejectedResolveIPs
  step,        \* step[w]: where w is in its handler
  task,        \* task[w]: the local variables of w's handler
  todo,        \* todo[w]: client calls w's handler still has to make
  hits,        \* bounded environment: [faults, edits, restarts] so far
  approved,    \* history: names that were allowed in a saved or stored list
  answered,    \* history: pairs <<name, ip>> of DNS answers
  current,     \* history: current[n]: addresses of n by the latest answers, per family
  forgotten    \* history: forgotten[n]: families whose addresses the program has dropped

guestVars   == <<server>>
memoryVars  == <<lastDesc, lastDigest, lastList, Seen, rejected>>
handlerVars == <<step, task, todo>>
ghostVars   == <<approved, answered, current, forgotten>>
coordVars   == <<server, memoryVars, handlerVars, hits, ghostVars>>
vars        == <<clientVars, coordVars>>

NoTask == [kind |-> "none"]

AnotherHit == hits.faults + hits.edits + hits.restarts < MaxHits

-----------------------------------------------------------------------------
(* allowlist: what is merged, and what a save changes. *)

\* Faulty variants: looked-up names are listed as enabled, or not at all.
SuggestEnabled(list, seen) ==
  [n \in Names |-> IF list[n] = "absent" /\ n \in seen THEN "allowed" ELSE list[n]]
SuggestNothing(list, seen) == list

\* MergeSuggestedLines: a name that was looked up and is not listed is suggested, commented out.
MergeSuggestedLines(list, seen) ==
  [n \in Names |-> IF list[n] = "absent" /\ n \in seen THEN "blocked" ELSE list[n]]

\* Faulty variant: the block alone becomes the description.
BlockOnly(desc, list) == [list |-> list]

\* SpliceBlock: the new list between the markers, the rest of the description as it was.
SpliceBlock(desc, list) == [desc EXCEPT !.list = list]

newlyAllowedFQDNs(old, new) == Allowed(new) \ Allowed(old)
newlyRemovedFQDNs(old, new) == Listed(old) \ Listed(new)
newlyDeniedFQDNs(old, new)  == Allowed(old) \ Allowed(new)

\* Faulty variant: only the names no longer listed.
RevokedIfUnlisted(old, new) == newlyRemovedFQDNs(old, new)

\* The names whose rules a save takes back: those no longer listed, and those
\* listed but no longer allowed.
RevokedBySave(old, new) ==
  newlyRemovedFQDNs(old, new) \cup (newlyDeniedFQDNs(old, new) \cap Listed(new))

-----------------------------------------------------------------------------
OfFamily(ips, f) == {ip \in ips : IPFamilyFromIP(ip) = f}
FamiliesOf(ips)  == {f \in Families : OfFamily(ips, f) # {}}
OtherFamilies(old, ips) == {ip \in old : IPFamilyFromIP(ip) \notin FamiliesOf(ips)}

\* Faulty variant: also the family that the answer says nothing of is pruned.
AnswerCallsPruneAll(n, a, ok) ==
  IF ok THEN {SyncOutboundAllow(Target, n, ip) : ip \in a.ips}
             \cup {PruneStale(Target, n, f, OfFamily(a.ips, f)) : f \in Families}
        ELSE {RemoveDynamicRules(Target, n, ip) : ip \in a.ips}

\* The calls ApplyDNS makes for an answer: open what it carries and close what it
\* no longer does, for each type of record seen (an AAAA record with an IPv4-mapped
\* address counts for IPv6 and carries none); or close what it carries.
AnswerCalls(n, a, ok) ==
  IF ok THEN {SyncOutboundAllow(Target, n, ip) : ip \in a.ips}
             \cup {PruneStale(Target, n, f, OfFamily(a.ips, f)) : f \in a.seen}
        ELSE {RemoveDynamicRules(Target, n, ip) : ip \in a.ips}

\* The order of a handler's calls: addresses first, then the prunes, IPv4 before IPv6.
CallRank(c) == CASE c.kind # "prune" -> 0 [] c.family = "ipv4" -> 1 [] OTHER -> 2

Become(w, label, t, calls) ==
  /\ step' = [step EXCEPT ![w] = label]
  /\ task' = [task EXCEPT ![w] = t]
  /\ todo' = [todo EXCEPT ![w] = calls]

At(w, label) ==
  /\ step' = [step EXCEPT ![w] = label]
  /\ UNCHANGED <<task, todo>>

Finish(w) == Become(w, "none", NoTask, {})

RefreshTask == [kind |-> "refresh", got |-> EmptyDesc, merged |-> EmptyList]

-----------------------------------------------------------------------------
(* ApplyDNS *)

\* A successful answer for n passes: the list is read under the mutex, once.  Of a
\* name that is not allowed the program will know what this answer carries and no
\* longer what an earlier one carried in the other family (NoteDenied).
ApplyDNS(w, n, a) ==
  /\ w \in DnsWorkers /\ step[w] = "none"
  /\ LET ok == n \in Allowed(lastList) IN
     /\ Become(w, IF ok THEN "calls" ELSE "note",
               [kind |-> "dns", name |-> n, ips |-> a.ips], AnswerCalls(n, a, ok))
     /\ forgotten' = [forgotten EXCEPT ![n] =
          IF ok \/ a.ips = {} THEN @ \ FamiliesOf(a.ips)
                              ELSE FamiliesOf(current[n]) \ FamiliesOf(a.ips)]
  /\ current' = [current EXCEPT ![n] = OtherFamilies(@, a.ips) \cup a.ips]
  /\ answered' = answered \cup ({n} \X a.ips)
  /\ UNCHANGED <<clientVars, server, memoryVars, hits, approved>>

\* The name is not allowed: it is noted, with its addresses if the answer had any.
NoteDenied(w) ==
  /\ step[w] = "note"
  /\ Seen' = Seen \cup {task[w].name}
  /\ rejected' = IF task[w].ips = {} THEN rejected
                 ELSE [rejected EXCEPT ![task[w].name] = task[w].ips]
  /\ At(w, "calls")
  /\ UNCHANGED <<clientVars, server, lastDesc, lastDigest, lastList, hits, ghostVars>>

-----------------------------------------------------------------------------
(* The calls of a handler, one after the other. *)

NextCall(w) ==
  /\ step[w] = "calls" /\ todo[w] # {}
  /\ \E c \in todo[w] :
       /\ \A d \in todo[w] : CallRank(c) <= CallRank(d)
       /\ Issue(w, c)
       /\ todo' = [todo EXCEPT ![w] = @ \ {c}]
  /\ UNCHANGED <<server, memoryVars, step, task, hits, ghostVars>>

\* The result of a call only goes into the activity log.
CallReturned(w) ==
  /\ step[w] = "calls"
  /\ Return(w)
  /\ UNCHANGED coordVars

CallsDone(w) ==
  /\ step[w] = "calls" /\ todo[w] = {} /\ pc[w] = "idle"
  /\ IF task[w].kind = "save" THEN Become(w, "get", RefreshTask, {}) ELSE Finish(w)
  /\ UNCHANGED <<clientVars, server, memoryVars, hits, ghostVars>>

-----------------------------------------------------------------------------
(* SaveMergedList *)

\* Faulty variant: the digest is not sent along.
SaveWithoutDigest(w, text) ==
  /\ w \in SaveWorkers /\ step[w] = "none"
  /\ Become(w, "put",
       [kind |-> "save", text |-> text, old |-> lastList, desc |-> lastDesc,
        digest |-> NoDigest, revoke |-> RevokedBySave(lastList, text)], {})
  /\ UNCHANGED <<clientVars, server, memoryVars, hits, ghostVars>>

SaveMergedList(w, text) ==
  /\ w \in SaveWorkers /\ step[w] = "none"
  /\ Become(w, "put",
       [kind |-> "save", text |-> text, old |-> lastList, desc |-> lastDesc,
        digest |-> lastDigest, revoke |-> RevokedBySave(lastList, text)], {})
  /\ UNCHANGED <<clientVars, server, memoryVars, hits, ghostVars>>

\* Proxmox stores the description, unless a digest was sent and is not its own.
DigestAccepted(digest) == digest \subseteq {server}

StoreDescription(w) ==
  /\ server' = SpliceBlock(task[w].desc, task[w].text)
  /\ approved' = approved \cup Allowed(task[w].text)
  /\ UNCHANGED <<answered, current, forgotten>>

PutDescription(w) ==
  /\ step[w] = "put" /\ DigestAccepted(task[w].digest)
  /\ StoreDescription(w)
  /\ At(w, "revoke")
  /\ UNCHANGED <<clientVars, memoryVars, hits>>

\* The digest is stale, or the request fails: SaveMergedList returns the error.
PutRejected(w) ==
  /\ step[w] = "put"
  /\ \/ ~DigestAccepted(task[w].digest) /\ UNCHANGED hits
     \/ /\ "rejected" \in ConfigFaults /\ hits.faults < MaxConfigFaults /\ AnotherHit
        /\ hits' = [hits EXCEPT !.faults = @ + 1]
  /\ Finish(w)
  /\ UNCHANGED <<clientVars, server, memoryVars, ghostVars>>

\* The description is stored but the reply is lost: the same error.
PutReplyLost(w) ==
  /\ step[w] = "put" /\ DigestAccepted(task[w].digest)
  /\ "lost" \in ConfigFaults /\ hits.faults < MaxConfigFaults /\ AnotherHit
  /\ hits' = [hits EXCEPT !.faults = @ + 1]
  /\ StoreDescription(w)
  /\ Finish(w)
  /\ UNCHANGED <<clientVars, memoryVars>>

\* The names to revoke, one after the other: first those no longer listed.
RevokeNext(w) ==
  /\ step[w] = "revoke" /\ pc[w] = "idle"
  /\ \E n \in task[w].revoke :
       /\ n \in Listed(task[w].text) => task[w].revoke \subseteq Listed(task[w].text)
       /\ Issue(w, RemoveAllManaged(Target, n))
       /\ task' = [task EXCEPT ![w].revoke = @ \ {n}]
  /\ UNCHANGED <<server, memoryVars, step, todo, hits, ghostVars>>

\* After a revocation, failed or not: a name no longer listed is forgotten, a
\* denied one is noted with the destinations that were closed.
Revoked(w) ==
  /\ step[w] = "revoke"
  /\ Return(w)
  /\ LET n == call[w].name IN
     IF n \in Listed(task[w].text)
     THEN /\ Seen' = Seen \cup {n}
          /\ rejected' = IF removed[w] = {} THEN rejected
                                            ELSE [rejected EXCEPT ![n] = removed[w]]
          /\ UNCHANGED forgotten
     ELSE /\ Seen' = Seen \ {n}
          /\ rejected' = [rejected EXCEPT ![n] = {}]
          /\ forgotten' = [forgotten EXCEPT ![n] = FamiliesOf(current[n])]
  /\ UNCHANGED <<server, lastDesc, lastDigest, lastList, handlerVars, hits,
                 approved, answered, current>>

\* The new list takes effect, and the addresses learnt while a newly allowed
\* name was not allowed are to be opened.
CommitSave(w) ==
  /\ step[w] = "revoke" /\ task[w].revoke = {} /\ pc[w] = "idle"
  /\ lastDesc' = SpliceBlock(task[w].desc, task[w].text)
  /\ lastList' = task[w].text
  /\ LET newly == newlyAllowedFQDNs(task[w].old, task[w].text) IN
     /\ rejected' = [n \in Names |-> IF n \in newly THEN {} ELSE rejected[n]]
     /\ Become(w, "calls", task[w],
               UNION {{SyncOutboundAllow(Target, n, ip) : ip \in rejected[n]} : n \in newly})
  /\ UNCHANGED <<clientVars, server, lastDigest, Seen, hits, ghostVars>>

-----------------------------------------------------------------------------
(* Refresh: every three seconds, and at the end of every save. *)

PeriodicRefresh(w) ==
  /\ w \in RefreshWorkers /\ step[w] = "none"
  /\ Become(w, "get", RefreshTask, {})
  /\ UNCHANGED <<clientVars, server, memoryVars, hits, ghostVars>>

GetGuestConfig(w) ==
  /\ step[w] = "get"
  /\ task' = [task EXCEPT ![w].got = server]
  /\ step' = [step EXCEPT ![w] = "merge"]
  /\ UNCHANGED <<clientVars, server, memoryVars, todo, hits, ghostVars>>

GetGuestConfigFails(w) ==
  /\ step[w] = "get" /\ ConfigFaults # {} /\ hits.faults < MaxConfigFaults /\ AnotherHit
  /\ hits' = [hits EXCEPT !.faults = @ + 1]
  /\ Finish(w)
  /\ UNCHANGED <<clientVars, server, memoryVars, ghostVars>>

\* copySeen has a section of the mutex of its own.
MergeSeen(w) ==
  /\ step[w] = "merge"
  /\ task' = [task EXCEPT ![w].merged = MergeSuggestedLines(task[w].got.list, Seen)]
  /\ step' = [step EXCEPT ![w] = "store"]
  /\ UNCHANGED <<clientVars, server, memoryVars, todo, hits, ghostVars>>

\* Faulty variant: the list answers are judged by is left as it is.
StoreDescriptionOnly(w) ==
  /\ step[w] = "store"
  /\ lastDesc' = task[w].got
  /\ lastDigest' = {task[w].got}
  /\ Finish(w)
  /\ UNCHANGED <<clientVars, server, lastList, Seen, rejected, hits, ghostVars>>

StoreRefresh(w) ==
  /\ step[w] = "store"
  /\ lastDesc' = task[w].got
  /\ lastDigest' = {task[w].got}
  /\ lastList' = task[w].merged
  /\ Finish(w)
  /\ UNCHANGED <<clientVars, server, Seen, rejected, hits, ghostVars>>

\* runBootstrap: every 45 seconds, and whenever the settings change.
RunBootstrap(w, host) ==
  /\ w \in BootWorkers /\ step[w] = "none"
  /\ Become(w, "calls", [kind |-> "bootstrap"], {EnsureBootstrapDNS(Target, host)})
  /\ UNCHANGED <<clientVars, server, memoryVars, hits, ghostVars>>

-----------------------------------------------------------------------------
(* The environment. *)

\* The operator edits the guest's notes in the Proxmox UI, around the markers or between them.
OperatorEditsNotes(desc) ==
  /\ hits.edits < MaxNotesEdits /\ AnotherHit /\ desc # server
  /\ hits' = [hits EXCEPT !.edits = @ + 1]
  /\ server' = desc
  /\ approved' = approved \cup Allowed(desc.list)
  /\ UNCHANGED <<clientVars, memoryVars, handlerVars, answered, current, forgotten>>

EditedDescriptions == [list : EditedLists \cup {server.list}, notes : Notes]

\* The process dies and starts again: New has empty maps, no list and no digest.
Restart ==
  /\ hits.restarts < MaxRestarts /\ AnotherHit
  /\ hits' = [hits EXCEPT !.restarts = @ + 1]
  /\ lastDesc' = EmptyDesc /\ lastDigest' = NoDigest /\ lastList' = EmptyList
  /\ Seen' = {} /\ rejected' = [n \in Names |-> {}]
  /\ step' = [w \in Workers |-> "none"]
  /\ task' = [w \in Workers |-> NoTask]
  /\ todo' = [w \in Workers |-> {}]
  /\ cache' = Dead /\ lock' = "free"
  /\ pc' = [w \in Workers |-> "idle"]
  /\ call' = [w \in Workers |-> NoCall]
  /\ view' = [w \in Workers |-> <<>>]
  /\ creates' = [w \in Workers |-> {}]
  /\ deletes' = [w \in Workers |-> {}]
  /\ removed' = [w \in Workers |-> {}]
  /\ failed' = [w \in Workers |-> FALSE]
  /\ UNCHANGED <<rules, faults, edits, drift, server, ghostVars>>

\* The program was just started, or (s.loaded) its first Refresh has been done.
Init ==
  \E s \in InitStates :
    /\ ClientInit /\ rules[Target] = s.rules
    /\ server = s.server
    /\ lastDesc = IF s.loaded THEN s.server ELSE EmptyDesc
    /\ lastDigest = IF s.loaded THEN {s.server} ELSE NoDigest
    /\ lastList = IF s.loaded THEN s.server.list ELSE EmptyList
    /\ Seen = {} /\ rejected = [n \in Names |-> {}]
    /\ step = [w \in Workers |-> "none"]
    /\ task = [w \in Workers |-> NoTask]
    /\ todo = [w \in Workers |-> {}]
    /\ hits = [faults |-> 0, edits |-> 0, restarts |-> 0]
    /\ approved = Allowed(s.server.list) \cup {p[1] : p \in Opened(s.rules)}
    /\ answered = Opened(s.rules)
    /\ current = [n \in Names |-> {ip \in IPs : <<n, ip>> \in Opened(s.rules)}]
    /\ forgotten = [n \in Names |-> {}]

\* The steps of a handler that has begun.
HandlerStep(w) ==
  \/ NoteDenied(w) \/ NextCall(w) \/ CallReturned(w) \/ CallsDone(w)
  \/ PutDescription(w) \/ PutRejected(w) \/ PutReplyLost(w)
  \/ RevokeNext(w) \/ Revoked(w) \/ CommitSave(w)
  \/ GetGuestConfig(w) \/ GetGuestConfigFails(w) \/ MergeSeen(w) \/ StoreRefresh(w)
  \/ CallStep(w) /\ UNCHANGED coordVars

\* What makes a handler begin.
HandlerStart(w) ==
  \/ \E n \in Names, a \in Answers : ApplyDNS(w, n, a)
  \/ \E text \in SaveTexts : SaveMergedList(w, text)
  \/ PeriodicRefresh(w)
  \/ \E host \in Hosts : RunBootstrap(w, host)

Next ==
  \/ \E w \in Workers : HandlerStart(w) \/ HandlerStep(w)
  \/ EnvStep /\ UNCHANGED coordVars
  \/ \E desc \in EditedDescriptions : OperatorEditsNotes(desc)
  \/ Restart

(***************************************************************************)
(* A handler that has begun keeps running, and the refresh ticker goes on: *)
(* it is a goroutine of its own, so a worker that does other things as     *)
(* well comes back to it (strong fairness).  Steps that wait for the       *)
(* cache's mutex are strongly fair, as in RuleClient.  Answers, saves and  *)
(* edits may stop at any time.                                             *)
(***************************************************************************)
Fairness ==
  /\ \A w \in Workers :
       /\ WF_vars(HandlerStep(w))
       /\ SF_vars((ListHit(w) \/ ListMiss(w) \/ Invalidate(w)) /\ UNCHANGED coordVars)
  /\ \A w \in RefreshWorkers : SF_vars(PeriodicRefresh(w))

Spec     == Init /\ [][Next]_vars
FairSpec == Spec /\ Fairness

-----------------------------------------------------------------------------
(* Properties. *)

DnsTask     == [kind : {"dns"}, name : Names, ips : SUBSET IPs]
SaveTask    == [kind : {"save"}, text : List, old : List, desc : Description,
                digest : SUBSET Description, revoke : SUBSET Names]
RefreshTasks == [kind : {"refresh"}, got : Description, merged : List]
OtherTask   == [kind : {"none", "bootstrap"}]

\* Type correctness.
CoordTypeOK ==
  /\ server \in Description
  /\ lastDesc \in Description /\ lastDigest \subseteq Description
  /\ lastList \in List
  /\ Seen \subseteq Names /\ rejected \in [Names -> SUBSET IPs]
  /\ step \in [Workers -> {"none", "note", "calls", "put", "revoke", "get", "merge", "store"}]
  /\ task \in [Workers -> DnsTask \cup SaveTask \cup RefreshTasks \cup OtherTask]
  /\ todo \in [Workers -> SUBSET Call]
  /\ hits \in [faults : Nat, edits : Nat, restarts : Nat]
  /\ approved \subseteq Names /\ answered \subseteq Names \X IPs
  /\ current \in [Names -> SUBSET IPs] /\ forgotten \in [Names -> SUBSET Families]

(***************************************************************************)
(* Whatever the handlers' interleaving and whatever fails, the firewall    *)
(* opens an address only for a name the operator has enabled at some time  *)
(* and only if an answer for that name carried it (or it was open when the *)
(* program started).  "Only names enabled in the allow list above are      *)
(* opened on the firewall" (httpserver.go:287), the history that a         *)
(* handler's stale snapshot allows included.                               *)
(***************************************************************************)
EgressJustified ==
  \A p \in Opened(rules[Target]) : p[1] \in approved /\ p \in answered

(***************************************************************************)
(* The inductive invariant behind EgressJustified: what a handler carries  *)
(* in its local variables fits where it is, every list in the program's    *)
(* memory enables only names approved at some time, every address in it    *)
(* came with an answer, and a call that will open something is justified.  *)
(***************************************************************************)
HandlersTyped ==
  \A w \in Workers :
    /\ step[w] = "note" => task[w] \in DnsTask
    /\ step[w] \in {"put", "revoke"} => task[w] \in SaveTask
    /\ step[w] \in {"get", "merge", "store"} => task[w] \in RefreshTasks
    /\ step[w] \notin {"revoke", "calls"} => pc[w] = "idle"
    /\ step[w] = "revoke" /\ pc[w] # "idle" => call[w].kind = "removeAll"

ListsApproved ==
  /\ Allowed(server.list) \subseteq approved
  /\ Allowed(lastList) \subseteq approved
  /\ \A w \in Workers :
       /\ step[w] = "revoke" => Allowed(task[w].text) \subseteq approved
       /\ step[w] \in {"merge", "store"} => Allowed(task[w].got.list) \subseteq approved
       /\ step[w] = "store" => Allowed(task[w].merged) \subseteq approved

AddressesAnswered ==
  /\ \A n \in Names : {n} \X rejected[n] \subseteq answered
  /\ Opened(cache.list) \subseteq answered
  /\ \A w \in Workers :
       /\ Opened(view[w]) \subseteq answered
       /\ step[w] = "note" => {task[w].name} \X task[w].ips \subseteq answered
       /\ pc[w] = "idle" => removed[w] = {}
       /\ pc[w] # "idle" /\ call[w].kind # "bootstrap" =>
            /\ {call[w].name} \X removed[w] \subseteq answered
            /\ \A pos \in deletes[w] : <<call[w].name, view[w][pos].dest>> \in answered

CallJustified(c) ==
  /\ c.guest = Target
  /\ c.kind = "sync" => c.name \in approved /\ {c.name} \X c.dests \subseteq answered

CallsJustified ==
  \A w \in Workers :
    /\ \A c \in todo[w] : CallJustified(c)
    /\ pc[w] # "idle" => CallJustified(call[w])
    /\ \A r \in creates[w] :
         r.owner \in Names => r.owner \in approved /\ <<r.owner, r.dest>> \in answered

CoordInv ==
  /\ ClientInv /\ CoordTypeOK /\ HandlersTyped
  /\ ListsApproved /\ AddressesAnswered /\ CallsJustified /\ EgressJustified

Quiet == \A w \in Workers : step[w] = "none"

\* Of the addresses by the latest answers, those the program still knows of.
Known == [n \in Names |-> {ip \in current[n] : IPFamilyFromIP(ip) \notin forgotten[n]}]

(***************************************************************************)
(* Between handlers the firewall opens, of the names enabled in the        *)
(* guest's description, exactly the addresses by the latest answers, with  *)
(* one exception: what the program has dropped while the name was not      *)
(* enabled stays closed until it is answered for again.  That is the other *)
(* family when a name is answered for while it is not enabled (the         *)
(* overwriting in ApplyDNS, coordinator.go:770), and everything when a     *)
(* name is taken off the list.  So a disabled name is closed, an enabled   *)
(* one is open with what is known of it, also from before it was enabled,  *)
(* and addresses DNS no longer lists are closed (README, Flow, step 3).    *)
(***************************************************************************)
EgressContract ==
  Quiet => Opened(rules[Target]) = {p \in Names \X IPs : /\ p[1] \in Allowed(server.list)
                                                        /\ p[2] \in Known[p[1]]}

(***************************************************************************)
(* The contract without the exception: between handlers every latest       *)
(* address of an enabled name is open, "without waiting for DNS again"     *)
(* (coordinator.go:49-50, on the addresses kept while it was not enabled). *)
(***************************************************************************)
EnabledIsOpen ==
  Quiet => \A n \in Allowed(server.list) : {n} \X current[n] \subseteq Opened(rules[Target])

(***************************************************************************)
(* When handlers do not overlap and nothing else changes what they work    *)
(* on: one goroutine, one guest, no failing rule request, no config reply  *)
(* lost, no edit of rules or of the list in Proxmox, no restart after the  *)
(* first refresh.  Config requests may be refused and notes edited.  The   *)
(* program starts on rules of its own making that open enabled names only, *)
(* and its own address does not change, or new rules go to the tail.       *)
(* AAAA records carry IPv6 addresses.                                      *)
(***************************************************************************)
TagFits(r) == r.owner \in Names => r.tag \in {IPFamilyFromIP(r.dest), r.dest}

LoneHandler ==
  /\ \E w \in Workers : Workers = {w}
  /\ Guests = {Target}
  /\ FaultKinds = {} /\ MaxEdits = 0
  /\ "lost" \notin ConfigFaults /\ EditedLists = {} /\ MaxRestarts = 0
  /\ \/ BootWorkers = {} \/ CreateAt = "tail"
     \/ \E host \in Hosts : Hosts = {host}
  /\ \A s \in InitStates :
       /\ s.loaded
       /\ \A i \in DOMAIN s.rules : TagFits(s.rules[i])
       /\ \A p \in Opened(s.rules) : p[1] \in Allowed(s.server.list)
  /\ \A a \in Answers : a.seen = FamiliesOf(a.ips)

Lock == INSTANCE Lockdown
  WITH enabled <- Allowed(server.list), addresses <- Known,
       open <- Opened(rules[Target]), busy <- ~Quiet, FamilyOf <- IPFamilyFromIP

(***************************************************************************)
(* Handlers that do not overlap keep what Lockdown promises: on the way    *)
(* from one contract to the next no request closes an address that stays   *)
(* wanted or opens one that is not, whichever answers, saves, refreshes    *)
(* and bootstraps follow each other (ApplyDNS, SaveMergedList).            *)
(***************************************************************************)
LockdownKept == Lock!Spec

\* The half of it that closes: what the guest's list disables is not open between
\* handlers (README, Flow, step 3: "removes all dynamic egress allows ... immediately").
DeniedIsClosed ==
  Quiet => \A p \in Opened(rules[Target]) : p[1] \in Allowed(server.list)

\* When no two saves or refreshes overlap, and the first refresh has been done.
Writers == SaveWorkers \cup RefreshWorkers

OneWriter ==
  /\ \A v, w \in Writers : v = w
  /\ MaxRestarts = 0
  /\ \A s \in InitStates : s.loaded

\* A save changes what is between the markers and never the operator's notes
\* around them ("Anything outside the markers is untouched by the tool").
NotesPreserved == [][server'.notes # server.notes => hits'.edits # hits.edits]_vars

(***************************************************************************)
(* A name that was looked up while it was not allowed shows up in the list *)
(* the UI gets, whatever refreshes and saves overtake each other.          *)
(***************************************************************************)
SeenIsSuggested == \A n \in Names : n \in Seen ~> (n \in Listed(lastList) \/ n \notin Seen)

(***************************************************************************)
(* Once the operator stops saving, the list answers are judged by is the   *)
(* one in the guest's description, also when a refresh that was overtaken  *)
(* by a save stored an old list after it.                                  *)
(***************************************************************************)
ListConverges ==
  <>[](\A w \in Workers : task[w].kind # "save") => <>[](Allowed(lastList) = Allowed(server.list))
=============================================================================
