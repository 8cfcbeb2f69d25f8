----------------------------- MODULE RuleClient -----------------------------
(***************************************************************************)
(* internal/proxmox: the firewall operations of the API client and the     *)
(* rule list cache they share (RuleSyncCache).  Each worker is a goroutine *)
(* inside one operation; a step is one API request, one pass through the   *)
(* cache's mutex, or local code between two of them.  Proxmox applies a    *)
(* request in one step; between two steps of a worker anything may happen. *)
(***************************************************************************)
EXTENDS FirewallRules

CONSTANTS
  Guests,      \* the guests whose rules the client may be asked to change
  Workers,     \* goroutines that call the client
  Calls,       \* the calls a worker may make when this module runs alone
  InitLists,   \* rule lists a guest may have at start
  FaultKinds,  \* what can go wrong with a request: subset of {"rejected", "lost"}
  MaxFaults,   \* bound on the number of failed requests
  MaxEdits     \* bound on the number of edits by the operator in Proxmox

NameCall == [kind : {"sync", "remove", "prune", "removeAll"}, guest : Guests,
             name : Names, family : Families, dests : SUBSET IPs]
BootCall == [kind : {"bootstrap"}, guest : Guests,
             name : {Bootstrap}, family : Families, dests : SUBSET Hosts]
Call     == NameCall \cup BootCall

NoCall == [kind |-> "none"]

ASSUME ClientAssumption ==
  /\ Calls \subseteq Call
  /\ InitLists \subseteq Seq(Rule)
  /\ "free" \notin Workers
  /\ FaultKinds \subseteq {"rejected", "lost"}
  /\ MaxFaults \in Nat
  /\ MaxEdits \in Nat

\* The arguments of the five operations, as their callers build them.
SyncOutboundAllow(g, n, ip) ==
  [kind |-> "sync", guest |-> g, name |-> n, family |-> IPFamilyFromIP(ip), dests |-> {ip}]
RemoveDynamicRules(g, n, ip) ==
  [kind |-> "remove", guest |-> g, name |-> n, family |-> IPFamilyFromIP(ip), dests |-> {ip}]
PruneStale(g, n, f, desired) ==
  [kind |-> "prune", guest |-> g, name |-> n, family |-> f, dests |-> desired]
RemoveAllManaged(g, n) ==
  [kind |-> "removeAll", guest |-> g, name |-> n, family |-> "ipv4", dests |-> {}]
EnsureBootstrapDNS(g, host) ==
  [kind |-> "bootstrap", guest |-> g, name |-> Bootstrap, family |-> "ipv4", dests |-> {host}]

VARIABLES
  rules,     \* rules[g]: the guest's rule list on the Proxmox side
  cache,     \* RuleSyncCache: live = rules # nil and now before until; of = whose list it is
  lock,      \* the holder of the cache's mutex across a GET, or "free"
  pc,        \* pc[w]: where w is in its call
  call,      \* call[w]: the arguments of w's call
  view,      \* view[w]: the list w's current pass works from
  creates,   \* creates[w]: rules w's pass still has to create
  deletes,   \* deletes[w]: positions w's pass still has to delete
  removed,   \* removed[w]: destinations w reports removed
  failed,    \* failed[w]: w's call returns an error
  faults,    \* requests that failed so far
  edits,     \* edits made by the operator so far
  drift      \* history: since the last GET the rules changed in a way no reply told us of

workVars   == <<pc, call, view, creates, deletes, removed, failed>>
clientVars == <<rules, cache, lock, faults, edits, drift, workVars>>

Dead == [live |-> FALSE, list |-> <<>>, of |-> {}]

ClientInit ==
  /\ rules \in [Guests -> InitLists]
  /\ cache = Dead
  /\ lock = "free"
  /\ pc = [w \in Workers |-> "idle"]
  /\ call = [w \in Workers |-> NoCall]
  /\ view = [w \in Workers |-> <<>>]
  /\ creates = [w \in Workers |-> {}]
  /\ deletes = [w \in Workers |-> {}]
  /\ removed = [w \in Workers |-> {}]
  /\ failed = [w \in Workers |-> FALSE]
  /\ faults = 0
  /\ edits = 0
  /\ drift = FALSE

-----------------------------------------------------------------------------
(* What one pass over a listed rule set decides to do. *)

StaleBootstrap(c, list) ==
  {i \in DOMAIN list : list[i].owner = Bootstrap /\ list[i].dest \notin c.dests}

\* Faulty variant: the desired destinations are not looked at.
DoomedIgnoringDesired(c, list) ==
  {i \in DOMAIN list : c.kind = "prune" /\ ruleManagedForFQDNFamily(list[i], c.name, c.family)}

DoomedPositions(c, list) ==
  CASE c.kind = "remove" ->
         {i \in DOMAIN list : \E ip \in c.dests : dynamicRuleMatchesDest(list[i], c.name, ip)}
    [] c.kind \in {"prune", "removeAll"} ->
         {i \in DOMAIN list : /\ ruleManagedForFQDNFamily(list[i], c.name, c.family)
                              /\ list[i].dest \notin c.dests}
    [] c.kind = "bootstrap" ->
         {i \in StaleBootstrap(c, list) : \A j \in StaleBootstrap(c, list) : i <= j}
    [] OTHER -> {}

WantedRules(c) ==
  CASE c.kind = "sync" ->
         {[owner |-> c.name, tag |-> fqdnOutboundTag(ip), dest |-> ip] : ip \in c.dests}
    [] c.kind = "bootstrap" ->
         {[owner |-> Bootstrap, tag |-> p, dest |-> host] : p \in Protos, host \in c.dests}
    [] OTHER -> {}

AlreadyListed(r, list) ==
  \E i \in DOMAIN list :
    IF r.owner = Bootstrap THEN bootstrapRuleFor(list[i], r.tag, r.dest)
                           ELSE dynamicRuleMatchesDest(list[i], r.owner, r.dest)

MissingRules(c, list) == {r \in WantedRules(c) : ~AlreadyListed(r, list)}

\* The order of creation: the udp bootstrap rule before the tcp one.
CreatedNext(r, S) == r.tag = "tcp" => \A q \in S : q.tag = "tcp"

\* Faulty variant: positions are deleted from the front.
DeletedFromFront(pos, S) == \A q \in S : pos <= q

\* The order of deletion: sort.Slice descending, so a delete leaves the rest in place.
DeletedNext(pos, S) == \A q \in S : q <= pos

\* Faulty variant: IPv4 only, and no second look.
NoSecondPass(c, list) == FALSE

\* After a pass: the other family (removeAll), or list again after a stale delete (bootstrap).
AnotherPass(c, list) ==
  \/ c.kind = "removeAll" /\ c.family = "ipv4"
  \/ c.kind = "bootstrap" /\ StaleBootstrap(c, list) # {}

NextPass(c) == IF c.kind = "removeAll" THEN [c EXCEPT !.family = "ipv6"] ELSE c

\* What a failing call still reports: removeAll forgets the family it failed in.
ReportedOnError(c, gone) ==
  CASE c.kind # "removeAll"  -> gone
    [] c.family = "ipv4"     -> {}
    [] OTHER                 -> gone \cap IPv4

-----------------------------------------------------------------------------
Goto(w, label) == pc' = [pc EXCEPT ![w] = label]

Drop(w) ==
  /\ view' = [view EXCEPT ![w] = <<>>]
  /\ creates' = [creates EXCEPT ![w] = {}]
  /\ deletes' = [deletes EXCEPT ![w] = {}]

\* A worker enters the client with call c.
Issue(w, c) ==
  /\ pc[w] = "idle"
  /\ Goto(w, "list")
  /\ call' = [call EXCEPT ![w] = c]
  /\ UNCHANGED <<rules, cache, lock, view, creates, deletes, removed, failed, faults, edits, drift>>

\* The call's result is handed to its caller.
Return(w) ==
  /\ pc[w] = "done"
  /\ Goto(w, "idle")
  /\ call' = [call EXCEPT ![w] = NoCall]
  /\ removed' = [removed EXCEPT ![w] = {}]
  /\ failed' = [failed EXCEPT ![w] = FALSE]
  /\ UNCHANGED <<rules, cache, lock, view, creates, deletes, faults, edits, drift>>

\* An error return.
Abort(w) ==
  /\ Goto(w, "done")
  /\ failed' = [failed EXCEPT ![w] = TRUE]
  /\ removed' = [removed EXCEPT ![w] = ReportedOnError(call[w], @)]
  /\ Drop(w)
  /\ UNCHANGED call

\* The pass is decided on a list: creations and deletions to come.
Decide(w, list) ==
  /\ Goto(w, "apply")
  /\ view' = [view EXCEPT ![w] = list]
  /\ creates' = [creates EXCEPT ![w] = MissingRules(call[w], list)]
  /\ deletes' = [deletes EXCEPT ![w] = DoomedPositions(call[w], list)]
  /\ UNCHANGED <<call, removed, failed>>

\* cache.list, answered from the cache.  The cache does not know whose list it holds.
ListHit(w) ==
  /\ pc[w] = "list" /\ lock = "free" /\ cache.live
  /\ Decide(w, cache.list)
  /\ UNCHANGED <<rules, cache, lock, faults, edits, drift>>

\* Faulty variant: the mutex is released before the list is fetched.
ListMissUnlocked(w) ==
  /\ pc[w] = "list" /\ lock = "free" /\ ~cache.live
  /\ Goto(w, "get")
  /\ UNCHANGED <<rules, cache, lock, call, view, creates, deletes, removed, failed, faults, edits, drift>>

\* cache.list, stale or empty: the mutex is kept while the list is fetched.
ListMiss(w) ==
  /\ pc[w] = "list" /\ lock = "free" /\ ~cache.live
  /\ lock' = w
  /\ Goto(w, "get")
  /\ UNCHANGED <<rules, cache, call, view, creates, deletes, removed, failed, faults, edits, drift>>

\* Proxmox answers the GET: the list as it is now.
GetAnswered(w) ==
  /\ pc[w] = "get"
  /\ Goto(w, "store")
  /\ view' = [view EXCEPT ![w] = rules[call[w].guest]]
  /\ drift' = FALSE
  /\ UNCHANGED <<rules, cache, lock, call, creates, deletes, removed, failed, faults, edits>>

\* Faulty variant: the error return forgets the mutex.
GetFailsLocked(w) ==
  /\ pc[w] = "get" /\ faults < MaxFaults /\ FaultKinds # {}
  /\ faults' = faults + 1
  /\ Abort(w)
  /\ UNCHANGED <<rules, cache, lock, edits, drift>>

\* The GET fails: nothing is cached.
GetFails(w) ==
  /\ pc[w] = "get" /\ faults < MaxFaults /\ FaultKinds # {}
  /\ faults' = faults + 1
  /\ lock' = "free"
  /\ Abort(w)
  /\ UNCHANGED <<rules, cache, edits, drift>>

\* The reply is stored, the mutex released and the pass decided.
Store(w) ==
  /\ pc[w] = "store"
  /\ cache' = [live |-> TRUE, list |-> view[w], of |-> {call[w].guest}]
  /\ lock' = "free"
  /\ Decide(w, view[w])
  /\ UNCHANGED <<rules, faults, edits, drift>>

\* cache.invalidate after a successful change.
Invalidate(w) ==
  /\ pc[w] = "invalidate" /\ lock = "free"
  /\ cache' = Dead
  /\ Goto(w, "apply")
  /\ UNCHANGED <<rules, lock, call, view, creates, deletes, removed, failed, faults, edits, drift>>

\* Faulty variant: the cache is left as it is.
AfterChangeKeepCache(w) == Goto(w, "apply")

\* A request that changed the list and says so is followed by cache.invalidate.
AfterChange(w) == Goto(w, "invalidate")

CreateRule(w) ==
  /\ pc[w] = "apply"
  /\ \E r \in creates[w] :
       /\ CreatedNext(r, creates[w])
       /\ rules' = [rules EXCEPT ![call[w].guest] = Created(@, r)]
       /\ creates' = [creates EXCEPT ![w] = @ \ {r}]
  /\ AfterChange(w)
  /\ UNCHANGED <<cache, lock, call, view, deletes, removed, failed, faults, edits, drift>>

DeleteRule(w) ==
  /\ pc[w] = "apply" /\ creates[w] = {}
  /\ \E pos \in deletes[w] :
       /\ DeletedNext(pos, deletes[w])
       /\ pos \in DOMAIN rules[call[w].guest]
       /\ rules' = [rules EXCEPT ![call[w].guest] = Deleted(@, pos)]
       /\ deletes' = [deletes EXCEPT ![w] = @ \ {pos}]
       /\ removed' = [removed EXCEPT ![w] = @ \cup {view[w][pos].dest}]
  /\ AfterChange(w)
  /\ UNCHANGED <<cache, lock, call, view, creates, failed, faults, edits, drift>>

\* The position is gone: Proxmox answers with an error.
DeleteOutOfRange(w) ==
  /\ pc[w] = "apply" /\ creates[w] = {}
  /\ \E pos \in deletes[w] : /\ DeletedNext(pos, deletes[w])
                            /\ pos \notin DOMAIN rules[call[w].guest]
  /\ Abort(w)
  /\ UNCHANGED <<rules, cache, lock, faults, edits, drift>>

\* A change is refused, or applied while its reply is lost: an error either
\* way, and an error returns without invalidating the cache.
ChangeRejected(w) ==
  /\ pc[w] = "apply" /\ (creates[w] # {} \/ deletes[w] # {})
  /\ faults < MaxFaults /\ "rejected" \in FaultKinds
  /\ faults' = faults + 1
  /\ Abort(w)
  /\ UNCHANGED <<rules, cache, lock, edits, drift>>

ChangeReplyLost(w) ==
  /\ pc[w] = "apply" /\ faults < MaxFaults /\ "lost" \in FaultKinds
  /\ \/ \E r \in creates[w] :
          /\ CreatedNext(r, creates[w])
          /\ rules' = [rules EXCEPT ![call[w].guest] = Created(@, r)]
     \/ /\ creates[w] = {}
        /\ \E pos \in deletes[w] :
             /\ DeletedNext(pos, deletes[w])
             /\ pos \in DOMAIN rules[call[w].guest]
             /\ rules' = [rules EXCEPT ![call[w].guest] = Deleted(@, pos)]
  /\ faults' = faults + 1
  /\ drift' = TRUE
  /\ Abort(w)
  /\ UNCHANGED <<cache, lock, edits>>

\* A pass with nothing left to do ends the call or starts the next pass.
EndPass(w) ==
  /\ pc[w] = "apply" /\ creates[w] = {} /\ deletes[w] = {}
  /\ IF AnotherPass(call[w], view[w])
     THEN /\ Goto(w, "list")
          /\ call' = [call EXCEPT ![w] = NextPass(@)]
     ELSE /\ Goto(w, "done")
          /\ UNCHANGED call
  /\ Drop(w)
  /\ UNCHANGED <<rules, cache, lock, removed, failed, faults, edits, drift>>

-----------------------------------------------------------------------------
\* Two seconds pass since the list was stored.
Expire ==
  /\ cache.live
  /\ cache' = Dead
  /\ UNCHANGED <<rules, lock, faults, edits, drift, workVars>>

\* The operator adds or removes a rule of their own in the Proxmox UI.
OperatorEdits(g) ==
  /\ edits < MaxEdits
  /\ \/ \E d \in Manual : rules' = [rules EXCEPT ![g] = Created(@, [owner |-> Operator,
                                                                tag |-> "none", dest |-> d])]
     \/ \E i \in DOMAIN rules[g] : /\ rules[g][i].owner = Operator
                                   /\ rules' = [rules EXCEPT ![g] = RemoveAt(@, i)]
  /\ edits' = edits + 1
  /\ drift' = TRUE
  /\ UNCHANGED <<cache, lock, faults, workVars>>

\* Every step of a worker inside a call.
CallStep(w) ==
  \/ ListHit(w) \/ ListMiss(w) \/ GetAnswered(w) \/ GetFails(w) \/ Store(w)
  \/ Invalidate(w) \/ CreateRule(w) \/ DeleteRule(w) \/ DeleteOutOfRange(w)
  \/ ChangeRejected(w) \/ ChangeReplyLost(w) \/ EndPass(w)

EnvStep == Expire \/ \E g \in Guests : OperatorEdits(g)

ClientNext ==
  \/ \E w \in Workers : CallStep(w) \/ Return(w) \/ \E c \in Calls : Issue(w, c)
  \/ EnvStep

(***************************************************************************)
(* A goroutine inside a call keeps running, and Go's mutex is handed to a  *)
(* waiter that has waited too long, so the two steps that wait for it are  *)
(* strongly fair.  Nobody is obliged to make another call.                 *)
(***************************************************************************)
ClientFairness ==
  \A w \in Workers :
    /\ WF_clientVars(CallStep(w) \/ Return(w))
    /\ SF_clientVars(ListHit(w) \/ ListMiss(w))
    /\ SF_clientVars(Invalidate(w))

ClientSpec     == ClientInit /\ [][ClientNext]_clientVars
FairClientSpec == ClientSpec /\ ClientFairness

-----------------------------------------------------------------------------
(* Properties. *)

\* Type correctness.
ClientTypeOK ==
  /\ rules \in [Guests -> Seq(Rule)]
  /\ cache \in [live : BOOLEAN, list : Seq(Rule), of : SUBSET Guests]
  /\ lock \in Workers \cup {"free"}
  /\ pc \in [Workers -> {"idle", "list", "get", "store", "apply", "invalidate", "done"}]
  /\ call \in [Workers -> Call \cup {NoCall}]
  /\ view \in [Workers -> Seq(Rule)]
  /\ creates \in [Workers -> SUBSET Rule]
  /\ deletes \in [Workers -> SUBSET (Nat \ {0})]
  /\ removed \in [Workers -> SUBSET (IPs \cup Hosts)]
  /\ failed \in [Workers -> BOOLEAN]
  /\ faults \in Nat /\ edits \in Nat /\ drift \in BOOLEAN

(***************************************************************************)
(* The cache's mutex is held exactly while its holder fetches and stores a *)
(* list, and the cache answers nobody for as long: two fetches never       *)
(* overlap, so a late answer cannot replace a newer one                    *)
(* (RuleSyncCache.list keeps the lock over the GET).                       *)
(***************************************************************************)
MutexGuardsFetch ==
  /\ \A w \in Workers : lock = w <=> pc[w] \in {"get", "store"}
  /\ lock # "free" => ~cache.live

\* w has changed g's rules and has not yet invalidated the cache.
Invalidating(w, g) == pc[w] = "invalidate" /\ call[w].guest = g

(***************************************************************************)
(* The cache answers with the guest's real list, unless a worker is just   *)
(* about to invalidate it, or the list changed without this process being  *)
(* told (an edit in the Proxmox UI, a request applied while its reply got  *)
(* lost).  This is what keeping the mutex across the GET and invalidating  *)
(* after every change are for (RuleSyncCache).                             *)
(***************************************************************************)
CacheCoherent ==
  (cache.live /\ ~drift) =>
    \A g \in cache.of : (\A w \in Workers : ~Invalidating(w, g)) => cache.list = rules[g]

(***************************************************************************)
(* The inductive invariant behind CacheCoherent: a fetched list that is    *)
(* about to be stored is as coherent as a cached one.                      *)
(***************************************************************************)
InsideCall == \A w \in Workers : pc[w] # "idle" => call[w] \in Call

DoomedAreOurs ==
  \A w \in Workers :
    /\ pc[w] \notin {"apply", "invalidate"} => deletes[w] = {}
    /\ \A pos \in deletes[w] : pos \in DOMAIN view[w] /\ view[w][pos].dest \in IPs \cup Hosts

FetchCoherent ==
  \A w \in Workers :
    /\ pc[w] = "store" /\ ~drift
    /\ \A v \in Workers : ~Invalidating(v, call[w].guest)
    => view[w] = rules[call[w].guest]

ClientInv ==
  /\ ClientTypeOK /\ InsideCall /\ DoomedAreOurs
  /\ MutexGuardsFetch /\ FetchCoherent /\ CacheCoherent

\* Between two lists: one rule of the owner was taken out, or put in.
OneRuleOf(owner, list, new) ==
  \/ \E i \in DOMAIN list : list[i].owner = owner /\ new = Deleted(list, i)
  \/ \E i \in DOMAIN new : new[i].owner = owner /\ list = Deleted(new, i)

(***************************************************************************)
(* A call changes only rules tagged with its own name, one at a time: the  *)
(* operator's rules, the bootstrap rules and the rules of other names stay *)
(* as they are, in their order ("Only rules matching ... comments are      *)
(* touched").                                                              *)
(***************************************************************************)
OthersUntouchedStep ==
  edits' = edits =>
    \A g \in Guests : rules'[g] # rules[g] =>
      \E w \in Workers : /\ call[w] # NoCall /\ call[w].guest = g
                         /\ OneRuleOf(call[w].name, rules[g], rules'[g])

OthersUntouched == [][OthersUntouchedStep]_clientVars

\* Pruning for the addresses of an answer never closes one of these addresses.
PruneKeepsDesired ==
  [][\A w \in Workers : \A d \in IPs :
       (/\ call[w] # NoCall /\ call[w].kind = "prune" /\ d \in call[w].dests
        /\ call'[w] = call[w]
        /\ <<call[w].name, d>> \in Opened(rules[call[w].guest]))
       => <<call[w].name, d>> \in Opened(rules'[call[w].guest])]_clientVars

(***************************************************************************)
(* What a call that reports success has achieved: the rule is there        *)
(* (sync), no rule for the address is left (remove), only desired          *)
(* addresses are left (prune), none at all is left (removeAll), DNS over   *)
(* UDP and TCP to this server is open and to no other (bootstrap).         *)
(***************************************************************************)
Achieved(c, list) ==
  CASE c.kind = "sync" ->
         \A ip \in c.dests : \E i \in DOMAIN list : dynamicRuleMatchesDest(list[i], c.name, ip)
    [] c.kind = "remove" ->
         \A ip \in c.dests : \A i \in DOMAIN list : ~dynamicRuleMatchesDest(list[i], c.name, ip)
    [] c.kind = "prune" ->
         \A i \in DOMAIN list :
           ruleManagedForFQDNFamily(list[i], c.name, c.family) => list[i].dest \in c.dests
    [] c.kind = "removeAll" ->
         \A i \in DOMAIN list : \A f \in Families : ~ruleManagedForFQDNFamily(list[i], c.name, f)
    [] OTHER ->
         /\ \A r \in WantedRules(c) : AlreadyListed(r, list)
         /\ StaleBootstrap(c, list) = {}

CallAchieves ==
  \A w \in Workers :
    pc[w] = "done" /\ ~failed[w] => Achieved(call[w], rules[call[w].guest])

\* Every call comes back: no goroutine is stuck in the client.
EveryCallReturns == \A w \in Workers : pc[w] # "idle" ~> pc[w] = "idle"
=============================================================================
