-------------------------- MODULE LoneHandlerProofs --------------------------
(***************************************************************************)
(* Handlers that do not overlap keep the firewall as the guest's list and  *)
(* DNS have it: for every list, name and answer, every sequence of         *)
(* answers, saves, refreshes and bootstraps, every rule list the guest     *)
(* may start with, and whichever config requests are refused.              *)
(***************************************************************************)
EXTENDS CoordinatorProofs, LoneCallProofs

\* What is to be open (Known leaves out what was dropped), and what is.
IsWanted(n, ip) == n \in Allowed(server.list) /\ ip \in Known[n]
IsOpen(n, ip)   == <<n, ip>> \in Opened(rules[Target])

\* What call c opens and closes.
Opens(c, n, ip)  == c.kind = "sync" /\ c.name = n /\ ip \in c.dests
Closes(c, n, ip) ==
  /\ c.name = n
  /\ \/ c.kind = "remove" /\ ip \in c.dests
     \/ c.kind = "prune" /\ c.family = IPFamilyFromIP(ip) /\ ip \notin c.dests
     \/ c.kind = "removeAll"

Busy(w)  == pc[w] # "idle"
Newly(w) == newlyAllowedFQDNs(task[w].old, task[w].text)

\* w's handler is yet to open ip for n, or to close it.
WillOpen(w, n, ip) ==
  \/ \E c \in todo[w] : Opens(c, n, ip)
  \/ Busy(w) /\ Opens(call[w], n, ip)
  \/ step[w] = "revoke" /\ n \in Newly(w) /\ ip \in rejected[n]
WillClose(w, n, ip) ==
  \/ \E c \in todo[w] : Closes(c, n, ip)
  \/ Busy(w) /\ Closes(call[w], n, ip)
  \/ step[w] = "revoke" /\ n \in task[w].revoke

(***************************************************************************)
(* The inductive invariant.  OnTheWay: what is yet to be opened or closed  *)
(* is all that separates what is open from what is wanted, and nothing in  *)
(* it goes the wrong way.                                                  *)
(***************************************************************************)
OnTheWay(w) ==
  \A n \in Names, ip \in IPs :
    /\ WillOpen(w, n, ip)  => IsWanted(n, ip)
    /\ WillClose(w, n, ip) => ~IsWanted(n, ip)
    /\ IsWanted(n, ip) /\ ~IsOpen(n, ip) => WillOpen(w, n, ip)
    /\ IsOpen(n, ip) /\ ~IsWanted(n, ip) => WillClose(w, n, ip)

\* Calls are made in "calls" and "revoke" only, and as they should be.
CallsFit(w) ==
  /\ step[w] \notin {"note", "calls"} => todo[w] = {}
  /\ \A c \in todo[w] : AsBuilt(c)
  /\ ~failed[w]

\* The list that answers are judged by is the guest's, except between the
\* store of a new list and its commit.
ListsAgree(w) ==
  /\ step[w] = "note" => task[w].name \notin Allowed(lastList)
  /\ step[w] # "revoke" => Allowed(lastList) = Allowed(server.list)
  /\ step[w] = "merge" => Allowed(task[w].got.list) = Allowed(server.list)
  /\ step[w] = "store" => Allowed(task[w].merged) = Allowed(server.list)
  /\ step[w] \in {"put", "revoke"} => task[w].old = lastList
  /\ step[w] = "put" => task[w].revoke = RevokedBySave(lastList, task[w].text)
  /\ step[w] = "revoke" =>
       /\ server.list = task[w].text
       /\ task[w].revoke \subseteq RevokedBySave(lastList, task[w].text)
       /\ Busy(w) => /\ call[w].name \in RevokedBySave(lastList, task[w].text)
                     /\ call[w].name \notin task[w].revoke

\* A revocation of n is to come or under way.
Revoking(w, n) == n \in task[w].revoke \/ (Busy(w) /\ call[w].name = n)

\* n is not allowed, and its rules are gone.
Denied(w, n) ==
  \/ n \notin Allowed(lastList)
  \/ step[w] = "revoke" /\ n \notin Allowed(task[w].text) /\ ~Revoking(w, n)

\* The addresses of a name that is denied are known, and of no other: they are
\* what a save that allows it will open.
AddressesNoted(w) ==
  \A n \in Names :
    IF step[w] = "note" /\ task[w].name = n /\ task[w].ips # {}
    THEN Known[n] = task[w].ips
    ELSE rejected[n] = IF Denied(w, n) THEN Known[n] ELSE {}

\* While n is revoked its addresses are those still open and those removed.
RemovedNoted(w) ==
  \A n \in Allowed(lastList) : step[w] = "revoke" /\ Revoking(w, n) =>
    \A ip \in IPs : ip \in Known[n] <=>
      IsOpen(n, ip) \/ (Busy(w) /\ call[w].name = n /\ ip \in removed[w])

WellTagged == \A i \in DOMAIN rules[Target] : TagFits(rules[Target][i])

HandlerKept(w) == OnTheWay(w) /\ CallsFit(w) /\ ListsAgree(w) /\ AddressesNoted(w) /\ RemovedNoted(w)

HandlerInv == CoordInv /\ LoneInv /\ WellTagged /\ \A w \in Workers : HandlerKept(w)

-----------------------------------------------------------------------------
(* The setting. *)

(* To the client it is a caller that is alone.                             *)
LEMMA HandlerIsAlone ==
  ASSUME LoneHandler
  PROVE  AloneWithGuest
  BY CoordinatorAssumption DEF LoneHandler, AloneWithGuest

(* What the invariant says of the one worker there is.                     *)
LEMMA HandlerFacts ==
  ASSUME LoneHandler, HandlerInv, NEW w \in Workers
  PROVE  /\ Workers = {w} /\ Guests = {Target}
         /\ step \in [Workers -> Labels] /\ task \in [Workers -> Tasks] /\ todo \in [Workers -> SUBSET Call]
         /\ pc \in [Workers -> {"idle", "list", "get", "store", "apply", "invalidate", "done"}]
         /\ call \in [Workers -> Call \cup {NoCall}] /\ removed \in [Workers -> SUBSET (IPs \cup Hosts)]
         /\ failed \in [Workers -> BOOLEAN]
         /\ server \in Description /\ server.list \in List /\ lastList \in List
         /\ Known \in [Names -> SUBSET IPs] /\ rejected \in [Names -> SUBSET IPs]
         /\ rules[Target] \in Seq(Rule)
         /\ pc[w] # "idle" => call[w] \in Call /\ call[w].guest = Target
         /\ step[w] \notin {"calls", "revoke"} => pc[w] = "idle"
         /\ step[w] = "revoke" /\ pc[w] # "idle" => call[w].kind = "removeAll"
         /\ step[w] = "note" => task[w] \in DnsTask
         /\ step[w] \in {"put", "revoke"} => task[w] \in SaveTask
         /\ step[w] \in {"get", "merge", "store"} => task[w] \in RefreshTasks
         /\ OnTheWay(w) /\ CallsFit(w) /\ ListsAgree(w) /\ AddressesNoted(w) /\ RemovedNoted(w)
<1>1. Workers = {w} /\ Guests = {Target} /\ Target \in Guests
  BY CoordinatorAssumption DEF LoneHandler
<1>2. CoordTypeOK /\ ClientTypeOK /\ HandlersTyped /\ InsideCall /\ CallsJustified
  BY DEF HandlerInv, CoordInv, ClientInv
<1>3. server.list \in List /\ rules[Target] \in Seq(Rule)
  BY <1>1, <1>2 DEF CoordTypeOK, ClientTypeOK, Description
<1>4. pc[w] # "idle" => call[w] \in Call /\ call[w].guest = Target
  BY <1>2 DEF InsideCall, CallsJustified, CallJustified
<1>5. HandlerKept(w)
  BY DEF HandlerInv
<1>6. Known \in [Names -> SUBSET IPs]
  BY <1>2 DEF CoordTypeOK, Known
<1> QED
  BY <1>1, <1>2, <1>3, <1>4, <1>5, <1>6 DEF CoordTypeOK, ClientTypeOK, HandlersTyped, Labels, Tasks, HandlerKept

(* A handler asks the client for calls as their callers build them         *)
(* (ApplyDNS, SaveMergedList, RunBootstrap).                               *)
LEMMA NextOfLoneClient ==
  ASSUME LoneHandler, HandlerInv, [Next]_vars
  PROVE  [LoneNext]_clientVars
<1>1. ~Restart
  BY DEF Restart, LoneHandler, HandlerInv, CoordInv, CoordTypeOK
<1>2. [AnyClientNext]_clientVars
  BY <1>1, StepOfClient DEF HandlerInv, CoordInv, CoordTyped
<1>3. ASSUME NEW w \in Workers, HandlerStart(w)
      PROVE  UNCHANGED clientVars
  BY <1>3 DEF HandlerStart, ApplyDNS, SaveMergedList, PeriodicRefresh, RunBootstrap
<1>4. ASSUME NEW w \in Workers, HandlerStep(w)
      PROVE  [LoneNext]_clientVars
  <2>1. CASE NextCall(w)
    <3>1. PICK c \in todo[w] : Issue(w, c)
      BY <2>1 DEF NextCall
    <3>2. c \in Call /\ AsBuilt(c)
      BY <3>1, HandlerFacts DEF CallsFit
    <3> QED
      BY <3>1, <3>2 DEF LoneNext
  <2>2. CASE CallReturned(w) \/ Revoked(w)
    BY <2>2 DEF CallReturned, Revoked, LoneNext
  <2>3. CASE RevokeNext(w)
    <3>1. PICK n \in task[w].revoke : Issue(w, RemoveAllManaged(Target, n))
      BY <2>3 DEF RevokeNext
    <3>2. n \in Names
      BY <2>3, HandlerFacts DEF RevokeNext, SaveTask
    <3>3. RemoveAllManaged(Target, n) \in Call /\ AsBuilt(RemoveAllManaged(Target, n))
      BY <3>2, RemoveAllIsCall DEF AsBuilt, RemoveAllManaged
    <3> QED
      BY <3>1, <3>3 DEF LoneNext
  <2>4. CASE CallStep(w)
    BY <2>4 DEF LoneNext
  <2>5. CASE \/ NoteDenied(w) \/ CallsDone(w) \/ PutDescription(w) \/ PutRejected(w)
             \/ PutReplyLost(w) \/ CommitSave(w) \/ GetGuestConfig(w)
             \/ GetGuestConfigFails(w) \/ MergeSeen(w) \/ StoreRefresh(w)
    BY <2>5 DEF NoteDenied, CallsDone, PutDescription, PutRejected, PutReplyLost, CommitSave,
                GetGuestConfig, GetGuestConfigFails, MergeSeen, StoreRefresh
  <2> QED
    BY <1>4, <2>1, <2>2, <2>3, <2>4, <2>5 DEF HandlerStep
<1>5. CASE EnvStep \/ UNCHANGED vars
  BY <1>5 DEF LoneNext, vars
<1>6. ASSUME NEW desc, OperatorEditsNotes(desc)
      PROVE  UNCHANGED clientVars
  BY <1>6 DEF OperatorEditsNotes
<1> QED
  BY <1>1, <1>3, <1>4, <1>5, <1>6 DEF Next

(* So the client's invariants hold after every step.                       *)
LEMMA NextLoneClient ==
  ASSUME LoneHandler, HandlerInv, [Next]_vars
  PROVE  CoordInv' /\ LoneInv'
  BY HandlerIsAlone, NextOfLoneClient, NextLone, NextCoordInv DEF HandlerInv

-----------------------------------------------------------------------------
(* The steps inside a call. *)

(* A deletion takes out at most what its rule opened.                      *)
LEMMA OpenedDeleted ==
  ASSUME NEW list \in Seq(Rule), NEW pos \in DOMAIN list, NEW n \in Names, NEW ip
  PROVE  /\ <<n, ip>> \in Opened(Deleted(list, pos)) => <<n, ip>> \in Opened(list)
         /\ <<n, ip>> \in Opened(list) =>
              \/ <<n, ip>> \in Opened(Deleted(list, pos))
              \/ list[pos].owner = n /\ list[pos].dest = ip
<1>1. PICK new \in Seq(Rule) : new = Deleted(list, pos)
  BY DeletedIs
<1>2. /\ \A i \in DOMAIN list : i = pos \/ \E j \in DOMAIN new : new[j] = list[i]
      /\ \A j \in DOMAIN new : \E i \in DOMAIN list : new[j] = list[i]
  BY <1>1, DeletedHas
<1>3. ASSUME <<n, ip>> \in Opened(new)
      PROVE  <<n, ip>> \in Opened(list)
  <2>1. PICK j \in DOMAIN new : new[j].owner = n /\ new[j].dest = ip
    BY <1>3 DEF Opened, ToSet
  <2>2. PICK i \in DOMAIN list : new[j] = list[i]
    BY <1>2, <2>1
  <2> QED
    BY <2>1, <2>2 DEF Opened, ToSet
<1>4. ASSUME <<n, ip>> \in Opened(list), list[pos].owner # n \/ list[pos].dest # ip
      PROVE  <<n, ip>> \in Opened(new)
  <2>1. PICK i \in DOMAIN list : list[i].owner = n /\ list[i].dest = ip
    BY <1>4 DEF Opened, ToSet
  <2>2. PICK j \in DOMAIN new : new[j] = list[i]
    BY <1>2, <1>4, <2>1
  <2> QED
    BY <2>1, <2>2 DEF Opened, ToSet
<1> QED
  BY <1>1, <1>3, <1>4

(* A creation opens what its rule opens.                                   *)
LEMMA OpenedAdded ==
  ASSUME NEW list \in Seq(Rule), NEW r \in Rule, NEW n \in Names, NEW ip
  PROVE  <<n, ip>> \in Opened(Created(list, r)) <=>
           <<n, ip>> \in Opened(list) \/ (r.owner = n /\ r.dest = ip)
<1>1. PICK new \in Seq(Rule) : new = Created(list, r)
  BY CreatedIs
<1>2. /\ \A i \in DOMAIN list : \E j \in DOMAIN new : new[j] = list[i]
      /\ \A j \in DOMAIN new : new[j] = r \/ \E i \in DOMAIN list : new[j] = list[i]
      /\ \E j \in DOMAIN new : new[j] = r
  BY <1>1, CreatedHas
<1>3. ASSUME <<n, ip>> \in Opened(new)
      PROVE  <<n, ip>> \in Opened(list) \/ (r.owner = n /\ r.dest = ip)
  <2>1. PICK j \in DOMAIN new : new[j].owner = n /\ new[j].dest = ip
    BY <1>3 DEF Opened, ToSet
  <2> QED
    BY <1>2, <2>1 DEF Opened, ToSet
<1>4. ASSUME <<n, ip>> \in Opened(list)
      PROVE  <<n, ip>> \in Opened(new)
  <2>1. PICK i \in DOMAIN list : list[i].owner = n /\ list[i].dest = ip
    BY <1>4 DEF Opened, ToSet
  <2> QED
    BY <1>2, <2>1 DEF Opened, ToSet
<1>5. ASSUME r.owner = n, r.dest = ip
      PROVE  <<n, ip>> \in Opened(new)
  BY <1>2, <1>5 DEF Opened, ToSet
<1> QED
  BY <1>1, <1>3, <1>4, <1>5

(* No call of a lone handler fails: requests do not, and no position to    *)
(* delete has moved (RemoveDynamicRules, PruneStaleOutboundAllowsForFQDN). *)
LEMMA NoErrorReturn ==
  ASSUME LoneHandler, HandlerInv, NEW w \in Workers
  PROVE  ~GetFails(w) /\ ~DeleteOutOfRange(w) /\ ~ChangeRejected(w) /\ ~ChangeReplyLost(w)
<1>1. ~GetFails(w) /\ ~ChangeRejected(w) /\ ~ChangeReplyLost(w)
  BY DEF LoneHandler, GetFails, ChangeRejected, ChangeReplyLost
<1>2. ASSUME DeleteOutOfRange(w)
      PROVE  FALSE
  <2>1. PICK pos \in deletes[w] : pos \notin DOMAIN rules[call[w].guest] /\ pc[w] = "apply"
    BY <1>2 DEF DeleteOutOfRange
  <2>2. DoomedInPlace(w, rules[call[w].guest]) /\ pos \in Nat \ {0}
    BY <2>1 DEF HandlerInv, LoneInv, InCall, Applying, ClientInv, ClientTypeOK
  <2> QED
    BY <2>1, <2>2 DEF DoomedInPlace
<1> QED
  BY <1>1, <1>2

(* Two sets of opened addresses with the same members are the same.        *)
LEMMA SameOpened ==
  ASSUME NEW s \in SUBSET (Names \X IPs), NEW t \in SUBSET (Names \X IPs),
         \A n \in Names, ip \in IPs : <<n, ip>> \in s <=> <<n, ip>> \in t
  PROVE  s = t
  OBVIOUS

(* A pass of a call deletes only what the call closes.                     *)
LEMMA DoomsCloses ==
  ASSUME NEW c \in Call, NEW r \in Rule, Dooms(c, r), r.owner \in Names
  PROVE  Closes(c, r.owner, r.dest)
<1>1. r.owner = c.name /\ r.owner # Bootstrap
  BY DoomsOwn, RulesAssumption
<1>2. c.kind # "bootstrap"
  BY <1>1 DEF Dooms
<1> QED
  BY <1>1, <1>2 DEF Dooms, Closes, dynamicRuleMatchesDest, ruleManagedForFQDNFamily

(* What a step inside a call does to the firewall: nothing, or it opens    *)
(* what the call opens, or closes what the call closes, one address.       *)
OneAddress(w) ==
  \/ Opened(rules'[Target]) = Opened(rules[Target])
  \/ \E n \in Names, ip \in IPs :
       /\ Opens(call[w], n, ip) /\ ~IsOpen(n, ip)
       /\ Opened(rules'[Target]) = Opened(rules[Target]) \cup {<<n, ip>>}
  \/ \E n \in Names, ip \in IPs :
       /\ Closes(call[w], n, ip) /\ IsOpen(n, ip)
       /\ Opened(rules'[Target]) = Opened(rules[Target]) \ {<<n, ip>>}

(* What a revocation has closed is what it reports (RemoveAllManaged).     *)
ReportsClosed(w) ==
  call[w].kind = "removeAll" =>
    \A ip \in IPs : IsOpen(call[w].name, ip) \/ ip \in removed[w]
                      <=> IsOpen(call[w].name, ip)' \/ ip \in removed'[w]

LEMMA CreateIs ==
  ASSUME LoneHandler, HandlerInv, NEW w \in Workers, CreateRule(w)
  PROVE  OneAddress(w) /\ ReportsClosed(w) /\ WellTagged'
<1> DEFINE c == call[w]
<1>1. PICK list \in Seq(Rule) : list = rules[Target]
  BY HandlerFacts
<1>2. /\ c \in Call /\ c.guest = Target /\ pc[w] = "apply" /\ removed' = removed
  BY HandlerFacts DEF CreateRule
<1>3. PICK r \in creates[w] : rules'[Target] = Created(list, r)
  BY <1>1, <1>2, CoordinatorAssumption DEF CreateRule, HandlerInv, LoneInv, ClientInv, ClientTypeOK
<1>4. r \in WantedRules(c)
  BY <1>2, <1>3 DEF HandlerInv, LoneInv, InCall, Applying, NoneForgotten
<1>5. r \in Rule /\ r.owner = c.name /\ r.dest \in c.dests /\ c.kind \in {"sync", "bootstrap"}
  BY <1>2, <1>4, WantedAre
<1>6. PICK new \in Seq(Rule) : new = Created(list, r)
  BY <1>5, CreatedIs
<1>7. Opened(list) \in SUBSET (Names \X IPs) /\ Opened(new) \in SUBSET (Names \X IPs)
  BY OpenedTyped
<1>8. \A n \in Names, ip \in IPs : <<n, ip>> \in Opened(new) <=> <<n, ip>> \in Opened(list) \/ (r.owner = n /\ r.dest = ip)
  BY <1>5, <1>6, OpenedAdded
<1>9. OneAddress(w)
  <2>1. CASE c.kind = "bootstrap"
    <3>1. r.owner \notin Names
      BY <1>2, <1>5, <2>1, RulesAssumption DEF Call, NameCall, BootCall
    <3>2. Opened(new) = Opened(list)
      BY <1>7, <1>8, <3>1, SameOpened
    <3> QED
      BY <1>1, <1>3, <1>6, <3>2 DEF OneAddress
  <2>2. CASE c.kind = "sync"
    <3>1. r.owner \in Names /\ r.dest \in IPs /\ Opens(c, r.owner, r.dest)
      BY <1>2, <1>5, <2>2 DEF Call, NameCall, BootCall, Opens
    <3>2. PICK n \in Names, ip \in IPs : r.owner = n /\ r.dest = ip
      BY <3>1
    <3>3. Opened(list) \cup {<<n, ip>>} \in SUBSET (Names \X IPs)
      BY <1>7
    <3>4. Opened(new) = Opened(list) \cup {<<n, ip>>}
      BY <1>7, <1>8, <3>2, <3>3, SameOpened
    <3>5. CASE IsOpen(n, ip)
      <4>1. Opened(new) = Opened(list)
        BY <1>1, <3>4, <3>5 DEF IsOpen
      <4> QED
        BY <1>1, <1>3, <1>6, <4>1 DEF OneAddress
    <3>6. CASE ~IsOpen(n, ip)
      BY <1>1, <1>3, <1>6, <3>1, <3>2, <3>4, <3>6 DEF OneAddress
    <3> QED
      BY <3>5, <3>6
  <2> QED
    BY <1>5, <2>1, <2>2
<1>10. ReportsClosed(w)
  BY <1>5 DEF ReportsClosed
<1>11. TagFits(r)
  <2>1. CASE c.kind = "sync"
    <3>1. PICK ip \in c.dests : r = [owner |-> c.name, tag |-> fqdnOutboundTag(ip), dest |-> ip]
      BY <1>4, <2>1 DEF WantedRules
    <3> QED
      BY <3>1 DEF TagFits, fqdnOutboundTag
  <2>2. CASE c.kind = "bootstrap"
    BY <1>2, <1>5, <2>2, RulesAssumption DEF Call, NameCall, BootCall, TagFits
  <2> QED
    BY <1>5, <2>1, <2>2
<1>12. \A j \in DOMAIN new : new[j] = r \/ \E i \in DOMAIN list : new[j] = list[i]
  BY <1>5, <1>6, CreatedHas
<1>13. WellTagged'
  BY <1>1, <1>3, <1>6, <1>11, <1>12 DEF HandlerInv, WellTagged, TagFits
<1> QED
  BY <1>9, <1>10, <1>13

LEMMA DeleteIs ==
  ASSUME LoneHandler, HandlerInv, NEW w \in Workers, DeleteRule(w)
  PROVE  OneAddress(w) /\ ReportsClosed(w) /\ WellTagged'
<1> DEFINE c == call[w]
<1>1. PICK list \in Seq(Rule) : list = rules[Target]
  BY HandlerFacts
<1>2. /\ c \in Call /\ c.guest = Target /\ pc[w] = "apply" /\ call' = call
  BY HandlerFacts DEF DeleteRule
<1>3. PICK pos \in deletes[w] :
        /\ pos \in DOMAIN list /\ rules'[Target] = Deleted(list, pos)
        /\ removed'[w] = removed[w] \cup {view[w][pos].dest}
  BY <1>1, <1>2, CoordinatorAssumption DEF DeleteRule, HandlerInv, LoneInv, ClientInv, ClientTypeOK
<1>4. view[w][pos] = list[pos] /\ Dooms(c, list[pos])
  <2>1. DoomedInPlace(w, list)
    BY <1>1, <1>2 DEF HandlerInv, LoneInv, InCall, Applying
  <2>2. pos \in 1..pos
    BY <1>3
  <2> QED
    BY <1>3, <2>1, <2>2 DEF DoomedInPlace
<1>5. PICK new \in Seq(Rule) : new = Deleted(list, pos)
  BY <1>3, DeletedIs
<1>6. PICK r \in Rule : r = list[pos]
  BY <1>3
<1>7. /\ Opened(list) \in SUBSET (Names \X IPs) /\ Opened(new) \in SUBSET (Names \X IPs)
      /\ r.owner \in Names => <<r.owner, r.dest>> \in Opened(list)
  BY <1>3, <1>6, OpenedTyped
<1>8. \A n \in Names, ip \in IPs :
        /\ <<n, ip>> \in Opened(new) => <<n, ip>> \in Opened(list)
        /\ <<n, ip>> \in Opened(list) => <<n, ip>> \in Opened(new) \/ (r.owner = n /\ r.dest = ip)
  BY <1>3, <1>5, <1>6, OpenedDeleted
<1>9. OneAddress(w)
  <2>1. CASE Opened(new) = Opened(list)
    BY <1>1, <1>3, <1>5, <2>1 DEF OneAddress
  <2>2. CASE Opened(new) # Opened(list)
    <3>1. PICK n \in Names, ip \in IPs : <<n, ip>> \in Opened(list) /\ <<n, ip>> \notin Opened(new)
      BY <1>7, <1>8, <2>2, SameOpened
    <3>2. r.owner = n /\ r.dest = ip
      BY <1>8, <3>1
    <3>3. Opened(list) \ {<<n, ip>>} \in SUBSET (Names \X IPs)
      BY <1>7
    <3>4. \A m \in Names, d \in IPs : <<m, d>> \in Opened(new) <=> <<m, d>> \in Opened(list) \ {<<n, ip>>}
      BY <1>8, <3>1, <3>2
    <3>5. Opened(new) = Opened(list) \ {<<n, ip>>}
      BY <1>7, <3>3, <3>4, SameOpened
    <3>6. Closes(c, n, ip)
      BY <1>2, <1>4, <1>6, <3>2, DoomsCloses
    <3> QED
      BY <1>1, <1>3, <1>5, <3>1, <3>5, <3>6 DEF OneAddress, IsOpen
  <2> QED
    BY <2>1, <2>2
<1>10. ReportsClosed(w)
  <2>1. SUFFICES ASSUME c.kind = "removeAll", NEW ip \in IPs
                 PROVE  <<c.name, ip>> \in Opened(list) \/ ip \in removed[w]
                          <=> <<c.name, ip>> \in Opened(new) \/ ip \in removed'[w]
    BY <1>1, <1>2, <1>3, <1>5 DEF ReportsClosed, IsOpen
  <2>2. r.owner = c.name /\ c.name \in Names
    BY <1>2, <1>4, <1>6, <2>1, DoomsOwn DEF Call, NameCall, BootCall
  <2>3. removed'[w] = removed[w] \cup {r.dest}
    BY <1>3, <1>4, <1>6
  <2> QED
    BY <1>7, <1>8, <2>2, <2>3
<1>11. \A j \in DOMAIN new : \E i \in DOMAIN list : new[j] = list[i]
  BY <1>3, <1>5, DeletedHas
<1>12. WellTagged'
  BY <1>1, <1>3, <1>5, <1>11 DEF HandlerInv, WellTagged, TagFits
<1> QED
  BY <1>9, <1>10, <1>12


(* A step inside a call, seen from the handler that made it.               *)
LEMMA CallStepIs ==
  ASSUME LoneHandler, HandlerInv, NEW w \in Workers, CallStep(w)
  PROVE  /\ Busy(w) /\ Busy(w)' /\ failed'[w] = failed[w]
         /\ call'[w].name = call[w].name /\ call'[w].kind = call[w].kind
         /\ \A n \in Names, ip \in IPs :
              /\ Opens(call'[w], n, ip) <=> Opens(call[w], n, ip)
              /\ Closes(call'[w], n, ip) <=> Closes(call[w], n, ip)
         /\ OneAddress(w) /\ ReportsClosed(w) /\ WellTagged'
<1>0. /\ pc[w] # "idle" /\ pc'[w] # "idle" /\ call[w] \in Call
      /\ call'[w].kind = call[w].kind /\ call'[w].name = call[w].name /\ call'[w].dests = call[w].dests
  BY CallStepFrame DEF HandlerInv, CoordInv
<1>1. call'[w] = call[w] \/ call[w].kind = "removeAll"
  BY DEF CallStep, ListHit, ListMiss, GetAnswered, GetFails, Store, Invalidate, CreateRule, DeleteRule,
         DeleteOutOfRange, ChangeRejected, ChangeReplyLost, EndPass, Decide, Abort, AnotherPass, NextPass,
         HandlerInv, CoordInv, ClientInv, ClientTypeOK
<1>2. \A n \in Names, ip \in IPs :
        /\ Opens(call'[w], n, ip) <=> Opens(call[w], n, ip)
        /\ Closes(call'[w], n, ip) <=> Closes(call[w], n, ip)
  BY <1>0, <1>1 DEF Opens, Closes
<1>3. failed'[w] = failed[w] /\ OneAddress(w) /\ ReportsClosed(w) /\ WellTagged'
  <2>1. CASE CreateRule(w)
    BY <2>1, CreateIs DEF CreateRule
  <2>2. CASE DeleteRule(w)
    BY <2>2, DeleteIs DEF DeleteRule
  <2>3. CASE ListHit(w) \/ ListMiss(w) \/ GetAnswered(w) \/ Store(w) \/ Invalidate(w) \/ EndPass(w)
    <3>1. UNCHANGED <<rules, removed, failed>>
      BY <2>3 DEF ListHit, ListMiss, GetAnswered, Store, Invalidate, EndPass, Decide
    <3> QED
      BY <1>0, <3>1 DEF OneAddress, ReportsClosed, IsOpen, HandlerInv, WellTagged
  <2> QED
    BY <2>1, <2>2, <2>3, NoErrorReturn DEF CallStep
<1> QED
  BY <1>0, <1>2, <1>3 DEF Busy

(* A call that has returned has opened what it opens and closed what it    *)
(* closes.                                                                 *)
LEMMA ReturnedIs ==
  ASSUME LoneHandler, HandlerInv, NEW w \in Workers, pc[w] = "done", NEW n \in Names, NEW ip \in IPs
  PROVE  /\ Opens(call[w], n, ip) => IsOpen(n, ip)
         /\ Closes(call[w], n, ip) => ~IsOpen(n, ip)
<1> DEFINE c == call[w]
<1>1. PICK list \in Seq(Rule) : list = rules[Target]
  BY HandlerFacts
<1>2. c \in Call /\ c.guest = Target /\ ~failed[w]
  BY HandlerFacts DEF CallsFit
<1>3. Achieved(c, list)
  BY <1>1, <1>2 DEF HandlerInv, LoneInv, InCall
<1>4. ASSUME Opens(c, n, ip)
      PROVE  IsOpen(n, ip)
  <2>1. PICK i \in DOMAIN list : dynamicRuleMatchesDest(list[i], n, ip)
    BY <1>3, <1>4 DEF Opens, Achieved
  <2> QED
    BY <1>1, <2>1, OpenedTyped DEF dynamicRuleMatchesDest, IsOpen
<1>5. ASSUME Closes(c, n, ip), IsOpen(n, ip)
      PROVE  FALSE
  <2>1. PICK i \in DOMAIN list : list[i].owner = n /\ list[i].dest = ip
    BY <1>1, <1>5 DEF IsOpen, Opened, ToSet
  <2>2. list[i].tag = IPFamilyFromIP(ip) \/ (list[i].tag = ip /\ list[i].tag \in IPs)
    BY <1>1, <2>1 DEF HandlerInv, WellTagged, TagFits
  <2>3. IPFamilyFromIP(ip) \in Families
    BY DEF IPFamilyFromIP, Families
  <2>4. dynamicRuleMatchesDest(list[i], n, ip) /\ ruleManagedForFQDNFamily(list[i], n, IPFamilyFromIP(ip))
    BY <2>1, <2>2 DEF dynamicRuleMatchesDest, ruleManagedForFQDNFamily
  <2>5. CASE c.kind = "remove"
    BY <1>3, <1>5, <2>4, <2>5 DEF Closes, Achieved
  <2>6. CASE c.kind = "prune"
    BY <1>3, <1>5, <2>1, <2>4, <2>6 DEF Closes, Achieved
  <2>7. CASE c.kind = "removeAll"
    BY <1>3, <1>5, <2>3, <2>4, <2>7 DEF Closes, Achieved
  <2> QED
    BY <1>5, <2>5, <2>6, <2>7 DEF Closes
<1> QED
  BY <1>4, <1>5

(* When nothing is under way, what is open is what is wanted.              *)
LEMMA NothingOwed ==
  ASSUME NEW w \in Workers, OnTheWay(w), ~Busy(w), todo[w] = {}, step[w] # "revoke"
  PROVE  \A n \in Names, ip \in IPs : IsOpen(n, ip) <=> IsWanted(n, ip)
  BY DEF OnTheWay, WillOpen, WillClose

-----------------------------------------------------------------------------
(* What lists and answers come to. *)

(* A save revokes what it no longer allows, and nothing it allows; what it *)
(* revokes and still lists was allowed before (SaveMergedList).            *)
LEMMA RevokedAre ==
  ASSUME NEW old \in List, NEW new \in List
  PROVE  /\ \A n \in RevokedBySave(old, new) : n \in Names /\ n \notin Allowed(new)
         /\ \A n \in Allowed(old) : n \notin Allowed(new) => n \in RevokedBySave(old, new)
         /\ \A n \in RevokedBySave(old, new) : n \in Listed(new) => n \in Allowed(old)
  BY DEF RevokedBySave, newlyRemovedFQDNs, newlyDeniedFQDNs, Allowed, Listed

(* A suggestion allows nothing and takes nothing back                      *)
(* (MergeSuggestedLines).                                                  *)
LEMMA MergeKeepsAllowed ==
  ASSUME NEW list \in List, NEW seen
  PROVE  Allowed(MergeSuggestedLines(list, seen)) = Allowed(list)
  BY DEF MergeSuggestedLines, Allowed

(* The calls of an answer open what it carries for a name that is allowed, *)
(* and close what it no longer carries, in the families it has; of another *)
(* name they close what it carries (ApplyDNS).                             *)
LEMMA AnswerCallsDo ==
  ASSUME NEW n \in Names, NEW a \in Answers, a.seen = FamiliesOf(a.ips), NEW ok \in BOOLEAN
  PROVE  /\ \A c \in AnswerCalls(n, a, ok) : AsBuilt(c)
         /\ \A m \in Names, ip \in IPs :
              /\ (\E c \in AnswerCalls(n, a, ok) : Opens(c, m, ip)) <=> ok /\ m = n /\ ip \in a.ips
              /\ (\E c \in AnswerCalls(n, a, ok) : Closes(c, m, ip)) <=>
                   /\ m = n
                   /\ IF ok THEN IPFamilyFromIP(ip) \in FamiliesOf(a.ips) /\ ip \notin a.ips ELSE ip \in a.ips
<1> DEFINE ips == a.ips
<1>1. CASE ok
  <2> DEFINE syncs == {SyncOutboundAllow(Target, n, ip) : ip \in ips}
             prunes == {PruneStale(Target, n, f, OfFamily(ips, f)) : f \in FamiliesOf(ips)}
  <2>1. AnswerCalls(n, a, ok) = syncs \cup prunes
    BY <1>1 DEF AnswerCalls
  <2>2. ASSUME NEW c \in syncs
        PROVE  \E d \in ips : /\ AsBuilt(c)
                              /\ \A m \in Names, ip \in IPs : (Opens(c, m, ip) <=> m = n /\ ip = d) /\ ~Closes(c, m, ip)
    <3>1. PICK d \in ips : c = SyncOutboundAllow(Target, n, d)
      OBVIOUS
    <3> QED
      BY <3>1 DEF SyncOutboundAllow, AsBuilt, Opens, Closes
  <2>3. ASSUME NEW d \in ips
        PROVE  \E c \in syncs : Opens(c, n, d)
    <3>1. SyncOutboundAllow(Target, n, d) \in syncs
      OBVIOUS
    <3> QED
      BY <3>1 DEF SyncOutboundAllow, Opens
  <2>4. ASSUME NEW c \in prunes
        PROVE  \E f \in FamiliesOf(ips) :
                 /\ AsBuilt(c)
                 /\ \A m \in Names, ip \in IPs :
                      ~Opens(c, m, ip) /\ (Closes(c, m, ip) <=> m = n /\ f = IPFamilyFromIP(ip) /\ ip \notin ips)
    <3>1. PICK f \in FamiliesOf(ips) : c = PruneStale(Target, n, f, OfFamily(ips, f))
      OBVIOUS
    <3> QED
      BY <3>1 DEF PruneStale, OfFamily, AsBuilt, Opens, Closes
  <2>5. ASSUME NEW f \in FamiliesOf(ips), NEW ip \in IPs, f = IPFamilyFromIP(ip), ip \notin ips
        PROVE  \E c \in prunes : Closes(c, n, ip)
    <3>1. PruneStale(Target, n, f, OfFamily(ips, f)) \in prunes
      OBVIOUS
    <3> QED
      BY <2>5, <3>1 DEF PruneStale, OfFamily, Closes
  <2> HIDE DEF syncs, prunes
  <2>6. \A c \in syncs \cup prunes : AsBuilt(c)
    BY <2>2, <2>4
  <2>7. ASSUME NEW m \in Names, NEW ip \in IPs
        PROVE  /\ (\E c \in syncs \cup prunes : Opens(c, m, ip)) <=> m = n /\ ip \in ips
               /\ (\E c \in syncs \cup prunes : Closes(c, m, ip)) <=>
                    m = n /\ IPFamilyFromIP(ip) \in FamiliesOf(ips) /\ ip \notin ips
    BY <2>2, <2>3, <2>4, <2>5
  <2> QED
    BY <1>1, <2>1, <2>6, <2>7
<1>2. CASE ~ok
  <2> DEFINE removes == {RemoveDynamicRules(Target, n, ip) : ip \in ips}
  <2>1. AnswerCalls(n, a, ok) = removes
    BY <1>2 DEF AnswerCalls
  <2>2. ASSUME NEW c \in removes
        PROVE  \E d \in ips : /\ AsBuilt(c)
                              /\ \A m \in Names, ip \in IPs : ~Opens(c, m, ip) /\ (Closes(c, m, ip) <=> m = n /\ ip = d)
    <3>1. PICK d \in ips : c = RemoveDynamicRules(Target, n, d)
      OBVIOUS
    <3> QED
      BY <3>1 DEF RemoveDynamicRules, AsBuilt, Opens, Closes
  <2>3. ASSUME NEW d \in ips
        PROVE  \E c \in removes : Closes(c, n, d)
    <3>1. RemoveDynamicRules(Target, n, d) \in removes
      OBVIOUS
    <3> QED
      BY <3>1 DEF RemoveDynamicRules, Closes
  <2> HIDE DEF removes
  <2> QED
    BY <1>2, <2>1, <2>2, <2>3
<1> QED
  BY <1>1, <1>2

-----------------------------------------------------------------------------
(* What the program knows of a name's addresses. *)

LEMMA KnownStays == UNCHANGED <<current, forgotten>> => UNCHANGED Known
  BY DEF Known

(* An answer's addresses replace those of their family; of a name that is  *)
(* not allowed an answer that has addresses replaces all (ApplyDNS).       *)
LEMMA AnswerKnown ==
  ASSUME CoordTypeOK, NEW w \in Workers, NEW n \in Names, NEW a \in Answers, ApplyDNS(w, n, a)
  PROVE  Known' = [Known EXCEPT ![n] = IF n \in Allowed(lastList) \/ a.ips = {}
                                       THEN OtherFamilies(Known[n], a.ips) \cup a.ips
                                       ELSE a.ips]
<1> DEFINE ips == a.ips
           ok  == n \in Allowed(lastList) \/ ips = {}
<1>1. /\ ips \in SUBSET IPs
      /\ current \in [Names -> SUBSET IPs] /\ forgotten \in [Names -> SUBSET Families]
  BY AnswerTyped DEF CoordTypeOK
<1>2. /\ current' = [current EXCEPT ![n] = OtherFamilies(current[n], ips) \cup ips]
      /\ forgotten' = [forgotten EXCEPT ![n] = IF ok THEN forgotten[n] \ FamiliesOf(ips)
                                                     ELSE FamiliesOf(current[n]) \ FamiliesOf(ips)]
  BY DEF ApplyDNS
<1>3. \A set : \A ip \in set : IPFamilyFromIP(ip) \in FamiliesOf(set)
  BY DEF FamiliesOf, OfFamily, IPFamilyFromIP, Families
<1> HIDE DEF ok, ips
<1>4. \A ip \in IPs : ip \in Known'[n] <=>
        ip \in IF ok THEN OtherFamilies(Known[n], ips) \cup ips ELSE ips
  <2>1. \A ip \in IPs : ip \in Known'[n] <=>
          /\ ip \in OtherFamilies(current[n], ips) \cup ips
          /\ IPFamilyFromIP(ip) \notin forgotten'[n]
    BY <1>1, <1>2 DEF Known
  <2>2. \A ip \in IPs : ip \in Known[n] <=> ip \in current[n] /\ IPFamilyFromIP(ip) \notin forgotten[n]
    BY <1>1 DEF Known
  <2>3. CASE ok
    <3>1. forgotten'[n] = forgotten[n] \ FamiliesOf(ips)
      BY <1>1, <1>2, <2>3
    <3> QED
      BY <1>3, <2>1, <2>2, <2>3, <3>1 DEF OtherFamilies
  <2>4. CASE ~ok
    <3>1. forgotten'[n] = FamiliesOf(current[n]) \ FamiliesOf(ips)
      BY <1>1, <1>2, <2>4
    <3> QED
      BY <1>3, <2>1, <2>4, <3>1 DEF OtherFamilies
  <2> QED
    BY <2>3, <2>4
<1>5. Known'[n] = IF ok THEN OtherFamilies(Known[n], ips) \cup ips ELSE ips
  <2>1. Known'[n] \subseteq IPs /\ Known[n] \subseteq IPs
    BY <1>1, <1>2 DEF Known, OtherFamilies
  <2> QED
    BY <1>1, <1>4, <2>1 DEF OtherFamilies
<1>6. \A m \in Names : m # n => Known'[m] = Known[m]
  BY <1>1, <1>2 DEF Known
<1> QED
  BY <1>5, <1>6 DEF Known, ok, ips

(* What the program knows of a name that is off the list is dropped, and   *)
(* otherwise kept, when the name is revoked (SaveMergedList).              *)
LEMMA RevokedKnown ==
  ASSUME CoordTypeOK, NEW w \in Workers, Revoked(w)
  PROVE  Known' = IF call[w].name \in Listed(task[w].text) THEN Known
                  ELSE [Known EXCEPT ![call[w].name] = {}]
<1> DEFINE n == call[w].name
<1>1. CASE n \in Listed(task[w].text)
  BY <1>1, KnownStays DEF Revoked
<1>2. CASE n \notin Listed(task[w].text)
  <2>1. current' = current /\ forgotten' = [forgotten EXCEPT ![n] = FamiliesOf(current[n])]
    BY <1>2 DEF Revoked
  <2>2. \A ip \in current[n] : IPFamilyFromIP(ip) \in FamiliesOf(current[n])
    BY DEF FamiliesOf, OfFamily, IPFamilyFromIP, Families
  <2>3. \A m \in Names : Known'[m] = IF m = n THEN {} ELSE Known[m]
    BY <2>1, <2>2 DEF CoordTypeOK, Known
  <2>4. Known' = [m \in Names |-> Known'[m]] /\ Known = [m \in Names |-> Known[m]]
    BY DEF Known
  <2> HIDE DEF n
  <2>5. Known' = [Known EXCEPT ![n] = {}]
    BY <2>3, <2>4
  <2> QED
    BY <1>2, <2>5 DEF n
<1> QED
  BY <1>1, <1>2

-----------------------------------------------------------------------------
(* The steps of the handlers. *)

(* A step that changes nothing the invariant speaks of: a cached list that *)
(* expires, an edit of the notes (OperatorEditsNotes).                     *)
LEMMA UntouchedKept ==
  ASSUME LoneHandler, HandlerInv, NEW w \in Workers,
         UNCHANGED <<rules, pc, call, removed, failed, step, task, todo, lastList, Known, rejected>>,
         server'.list = server.list
  PROVE  HandlerKept(w)' /\ WellTagged'
<1>1. HandlerKept(w) /\ WellTagged
  BY DEF HandlerInv
<1>2. OnTheWay(w)'
  <2>1. \A n \in Names, ip \in IPs :
          /\ IsWanted(n, ip)' <=> IsWanted(n, ip)
          /\ IsOpen(n, ip)' <=> IsOpen(n, ip)
          /\ WillOpen(w, n, ip)' <=> WillOpen(w, n, ip)
          /\ WillClose(w, n, ip)' <=> WillClose(w, n, ip)
    BY DEF WillOpen, WillClose, IsWanted, IsOpen, Busy, Newly
  <2> QED
    BY <1>1, <2>1 DEF HandlerKept, OnTheWay
<1>3. CallsFit(w)' /\ AddressesNoted(w)' /\ RemovedNoted(w)' /\ WellTagged'
  BY <1>1 DEF HandlerKept, CallsFit, AddressesNoted, Denied, Revoking, RemovedNoted, IsOpen, Busy, WellTagged
<1>4. ListsAgree(w)'
  BY <1>1 DEF HandlerKept, ListsAgree, Busy
<1> QED
  BY <1>2, <1>3, <1>4 DEF HandlerKept

(* A step inside a call.                                                   *)
LEMMA CallStepKept ==
  ASSUME LoneHandler, HandlerInv, NEW w \in Workers, CallStep(w), UNCHANGED coordVars
  PROVE  HandlerKept(w)' /\ WellTagged'
<1> USE DEF coordVars, memoryVars, handlerVars, ghostVars
<1>1. HandlerKept(w) /\ UNCHANGED Known
  BY KnownStays DEF HandlerInv
<1>2. /\ Busy(w) /\ Busy(w)' /\ failed'[w] = failed[w] /\ call'[w].name = call[w].name
      /\ \A n \in Names, ip \in IPs :
           /\ Opens(call'[w], n, ip) <=> Opens(call[w], n, ip)
           /\ Closes(call'[w], n, ip) <=> Closes(call[w], n, ip)
      /\ OneAddress(w) /\ ReportsClosed(w) /\ WellTagged'
  BY CallStepIs
<1>3. /\ step[w] = "revoke" => call[w].kind = "removeAll"
  BY <1>2, HandlerFacts DEF Busy
<1>4. \A n \in Names, ip \in IPs :
        /\ IsWanted(n, ip)' <=> IsWanted(n, ip)
        /\ WillOpen(w, n, ip)' <=> WillOpen(w, n, ip)
        /\ WillClose(w, n, ip)' <=> WillClose(w, n, ip)
  BY <1>1, <1>2 DEF IsWanted, WillOpen, WillClose, Newly
<1>5. ASSUME NEW n \in Names, NEW ip \in IPs
      PROVE  \/ IsOpen(n, ip)' <=> IsOpen(n, ip)
             \/ IsOpen(n, ip)' /\ Opens(call[w], n, ip)
             \/ ~IsOpen(n, ip)' /\ Closes(call[w], n, ip)
  <2>1. CASE Opened(rules'[Target]) = Opened(rules[Target])
    BY <2>1 DEF IsOpen
  <2>2. ASSUME NEW m \in Names, NEW d \in IPs, Opens(call[w], m, d),
               Opened(rules'[Target]) = Opened(rules[Target]) \cup {<<m, d>>}
        PROVE  (IsOpen(n, ip)' <=> IsOpen(n, ip)) \/ (IsOpen(n, ip)' /\ Opens(call[w], n, ip))
    BY <2>2 DEF IsOpen
  <2>3. ASSUME NEW m \in Names, NEW d \in IPs, Closes(call[w], m, d),
               Opened(rules'[Target]) = Opened(rules[Target]) \ {<<m, d>>}
        PROVE  (IsOpen(n, ip)' <=> IsOpen(n, ip)) \/ (~IsOpen(n, ip)' /\ Closes(call[w], n, ip))
    BY <2>3 DEF IsOpen
  <2> QED
    BY <1>2, <2>1, <2>2, <2>3 DEF OneAddress
<1>6. ASSUME NEW n \in Names, NEW ip \in IPs
      PROVE  /\ Opens(call[w], n, ip) => IsWanted(n, ip) /\ call[w].name = n
             /\ Closes(call[w], n, ip) => ~IsWanted(n, ip) /\ call[w].name = n
  BY <1>1, <1>2 DEF HandlerKept, OnTheWay, WillOpen, WillClose, Opens, Closes
<1>7. OnTheWay(w)'
  BY <1>1, <1>4, <1>5, <1>6 DEF HandlerKept, OnTheWay
<1>8. CallsFit(w)' /\ ListsAgree(w)' /\ AddressesNoted(w)'
  BY <1>1, <1>2 DEF HandlerKept, CallsFit, ListsAgree, AddressesNoted, Denied, Revoking
<1>9. RemovedNoted(w)'
  <2>1. SUFFICES ASSUME NEW n \in Allowed(lastList), step[w] = "revoke", Revoking(w, n), NEW ip \in IPs
                 PROVE  ip \in Known[n] <=> IsOpen(n, ip)' \/ (call[w].name = n /\ ip \in removed'[w])
    BY <1>1, <1>2 DEF RemovedNoted, Revoking
  <2>2. ip \in Known[n] <=> IsOpen(n, ip) \/ (call[w].name = n /\ ip \in removed[w])
    BY <1>1, <1>2, <2>1 DEF HandlerKept, RemovedNoted
  <2>3. n \in Names
    BY <2>1 DEF Allowed
  <2>4. CASE call[w].name = n
    BY <1>2, <1>3, <2>1, <2>2, <2>4 DEF ReportsClosed
  <2>5. CASE call[w].name # n
    BY <1>5, <1>6, <2>2, <2>3, <2>5
  <2> QED
    BY <2>4, <2>5
<1> QED
  BY <1>2, <1>7, <1>8, <1>9 DEF HandlerKept

(* A step between two handlers, or of one that has no call to make: the    *)
(* guest's list and the program's enable what they did (CallsDone,         *)
(* SaveMergedList, Refresh, RunBootstrap).                                 *)
LEMMA CalmKept ==
  ASSUME LoneHandler, HandlerInv, NEW w \in Workers, UNCHANGED <<clientVars, server, rejected, Known>>,
         Allowed(lastList') = Allowed(lastList),
         ~Busy(w), todo[w] = {}, step[w] \notin {"note", "revoke"}, step'[w] \notin {"note", "revoke"},
         step'[w] # "calls" => todo'[w] = {}, \A c \in todo'[w] : c.kind = "bootstrap" /\ AsBuilt(c),
         ListsAgree(w)'
  PROVE  HandlerKept(w)' /\ WellTagged'
<1> USE DEF clientVars, workVars
<1>1. HandlerKept(w) /\ WellTagged
  BY DEF HandlerInv
<1>2. OnTheWay(w)'
  <2>1. \A n \in Names, ip \in IPs : IsOpen(n, ip) <=> IsWanted(n, ip)
    BY <1>1, NothingOwed DEF HandlerKept
  <2>2. \A n \in Names, ip \in IPs : ~WillOpen(w, n, ip)' /\ ~WillClose(w, n, ip)'
    BY DEF WillOpen, WillClose, Opens, Closes, Busy
  <2> QED
    BY <2>1, <2>2 DEF OnTheWay, IsWanted, IsOpen
<1>3. CallsFit(w)' /\ AddressesNoted(w)' /\ RemovedNoted(w)' /\ WellTagged'
  BY <1>1 DEF HandlerKept, CallsFit, AddressesNoted, Denied, RemovedNoted, WellTagged
<1> QED
  BY <1>2, <1>3 DEF HandlerKept

LEMMA StartCalmKept ==
  ASSUME LoneHandler, HandlerInv, NEW w \in Workers,
         \/ \E text \in SaveTexts : SaveMergedList(w, text)
         \/ PeriodicRefresh(w)
         \/ \E host \in Hosts : RunBootstrap(w, host)
  PROVE  HandlerKept(w)' /\ WellTagged'
<1> USE DEF memoryVars, ghostVars
<1>1. /\ step \in [Workers -> Labels] /\ task \in [Workers -> Tasks] /\ todo \in [Workers -> SUBSET Call]
      /\ ListsAgree(w) /\ CallsFit(w)
      /\ step[w] \notin {"calls", "revoke"} => ~Busy(w)
  BY HandlerFacts DEF Busy
<1>2. CASE \E text \in SaveTexts : SaveMergedList(w, text)
  <2>1. PICK text \in SaveTexts : SaveMergedList(w, text)
    BY <1>2
  <2> DEFINE t == [kind |-> "save", text |-> text, old |-> lastList, desc |-> lastDesc,
                   digest |-> lastDigest, revoke |-> RevokedBySave(lastList, text)]
  <2>2. /\ step[w] = "none" /\ step'[w] = "put" /\ task'[w] = t /\ todo'[w] = {}
        /\ UNCHANGED <<clientVars, server, rejected, Known, lastList>>
    BY <1>1, <2>1, KnownStays DEF SaveMergedList, Become
  <2>3. ListsAgree(w)'
    BY <1>1, <2>2 DEF ListsAgree
  <2> QED
    BY <1>1, <2>2, <2>3, CalmKept DEF CallsFit
<1>3. CASE PeriodicRefresh(w)
  <2>1. /\ step[w] = "none" /\ step'[w] = "get" /\ todo'[w] = {}
        /\ UNCHANGED <<clientVars, server, rejected, Known, lastList>>
    BY <1>1, <1>3, KnownStays DEF PeriodicRefresh, Become
  <2>2. ListsAgree(w)'
    BY <1>1, <2>1 DEF ListsAgree
  <2> QED
    BY <1>1, <2>1, <2>2, CalmKept DEF CallsFit
<1>4. CASE \E host \in Hosts : RunBootstrap(w, host)
  <2>1. PICK host \in Hosts : RunBootstrap(w, host)
    BY <1>4
  <2> DEFINE c == EnsureBootstrapDNS(Target, host)
  <2>2. /\ step[w] = "none" /\ step'[w] = "calls" /\ todo'[w] = {c} /\ w \in BootWorkers
        /\ UNCHANGED <<clientVars, server, rejected, Known, lastList>>
    BY <1>1, <2>1, KnownStays DEF RunBootstrap, Become
  <2>3. CreateAt = "tail" \/ Hosts = {host}
    BY <2>2 DEF LoneHandler
  <2>4. c.kind = "bootstrap" /\ AsBuilt(c)
    BY <2>3 DEF EnsureBootstrapDNS, AsBuilt
  <2> HIDE DEF c
  <2>5. ListsAgree(w)'
    BY <1>1, <2>2 DEF ListsAgree
  <2> QED
    BY <1>1, <2>2, <2>4, <2>5, CalmKept DEF CallsFit
<1> QED
  BY <1>2, <1>3, <1>4

LEMMA StepCalmKept ==
  ASSUME LoneHandler, HandlerInv, NEW w \in Workers,
         \/ CallsDone(w) \/ PutRejected(w) \/ GetGuestConfig(w) \/ GetGuestConfigFails(w)
         \/ MergeSeen(w) \/ StoreRefresh(w)
  PROVE  HandlerKept(w)' /\ WellTagged'
<1> USE DEF memoryVars, ghostVars
<1>1. /\ step \in [Workers -> Labels] /\ task \in [Workers -> Tasks] /\ todo \in [Workers -> SUBSET Call]
      /\ ListsAgree(w) /\ CallsFit(w)
      /\ step[w] \notin {"calls", "revoke"} => ~Busy(w)
  BY HandlerFacts DEF Busy
<1>2. CASE CallsDone(w) \/ PutRejected(w) \/ GetGuestConfigFails(w)
  <2>1. /\ step[w] \in {"calls", "put", "get"} /\ step'[w] \in {"get", "none"} /\ todo'[w] = {}
        /\ todo[w] = {} /\ ~Busy(w)
        /\ UNCHANGED <<clientVars, server, rejected, Known, lastList>>
    BY <1>1, <1>2, KnownStays DEF CallsDone, PutRejected, GetGuestConfigFails, Finish, Become, CallsFit, Busy
  <2>2. ListsAgree(w)'
    BY <1>1, <2>1 DEF ListsAgree
  <2> QED
    BY <1>1, <2>1, <2>2, CalmKept
<1>3. CASE GetGuestConfig(w)
  <2>1. /\ step[w] = "get" /\ step'[w] = "merge" /\ todo' = todo
        /\ task' = [task EXCEPT ![w].got = server]
        /\ UNCHANGED <<clientVars, server, rejected, Known, lastList>>
    BY <1>1, <1>3, KnownStays DEF GetGuestConfig
  <2>2. task'[w].got = server
    BY <1>1, <2>1, HandlerFacts DEF RefreshTasks
  <2>3. ListsAgree(w)'
    BY <1>1, <2>1, <2>2 DEF ListsAgree
  <2> QED
    BY <1>1, <2>1, <2>3, CalmKept DEF CallsFit
<1>4. CASE MergeSeen(w)
  <2> DEFINE list == task[w].got.list
  <2>1. /\ step[w] = "merge" /\ step'[w] = "store" /\ todo' = todo
        /\ task' = [task EXCEPT ![w].merged = MergeSuggestedLines(list, Seen)]
        /\ UNCHANGED <<clientVars, server, rejected, Known, lastList>>
    BY <1>1, <1>4, KnownStays DEF MergeSeen
  <2>2. task[w] \in RefreshTasks /\ list \in List
    BY <2>1, HandlerFacts DEF RefreshTasks, Description
  <2>3. task'[w].merged = MergeSuggestedLines(list, Seen)
    BY <1>1, <2>1, <2>2 DEF RefreshTasks
  <2>4. Allowed(task'[w].merged) = Allowed(server.list)
    BY <1>1, <2>1, <2>2, <2>3, MergeKeepsAllowed DEF ListsAgree
  <2>5. ListsAgree(w)'
    BY <1>1, <2>1, <2>4 DEF ListsAgree
  <2> QED
    BY <1>1, <2>1, <2>5, CalmKept DEF CallsFit
<1>5. CASE StoreRefresh(w)
  <2>1. /\ step[w] = "store" /\ step'[w] = "none" /\ todo'[w] = {} /\ lastList' = task[w].merged
        /\ UNCHANGED <<clientVars, server, rejected, Known>>
    BY <1>1, <1>5, KnownStays DEF StoreRefresh, Finish, Become
  <2>2. Allowed(lastList') = Allowed(lastList)
    BY <1>1, <2>1 DEF ListsAgree
  <2>3. ListsAgree(w)'
    BY <1>1, <2>1, <2>2 DEF ListsAgree
  <2> QED
    BY <1>1, <2>1, <2>2, <2>3, CalmKept DEF CallsFit
<1> QED
  BY <1>2, <1>3, <1>4, <1>5

(* A call to come becomes the call under way, and one that is done has     *)
(* nothing left to open or close.                                          *)
LEMMA CallsKept ==
  ASSUME LoneHandler, HandlerInv, NEW w \in Workers, NextCall(w) \/ CallReturned(w)
  PROVE  HandlerKept(w)' /\ WellTagged'
<1> USE DEF memoryVars, ghostVars
<1>1. /\ step \in [Workers -> Labels] /\ todo \in [Workers -> SUBSET Call]
      /\ OnTheWay(w) /\ ListsAgree(w) /\ CallsFit(w) /\ AddressesNoted(w) /\ WellTagged
      /\ pc \in [Workers -> {"idle", "list", "get", "store", "apply", "invalidate", "done"}]
      /\ call \in [Workers -> Call \cup {NoCall}] /\ failed \in [Workers -> BOOLEAN]
  BY HandlerFacts DEF HandlerInv
<1>2. /\ UNCHANGED <<rules, server, lastList, Known, rejected, step, task>>
      /\ step[w] = "calls" /\ todo'[w] \subseteq todo[w] /\ ~failed'[w]
  BY <1>1, KnownStays DEF NextCall, CallReturned, Issue, Return, coordVars, handlerVars, CallsFit
<1>3. \A n \in Names, ip \in IPs :
        /\ WillOpen(w, n, ip)' => WillOpen(w, n, ip)
        /\ WillClose(w, n, ip)' => WillClose(w, n, ip)
        /\ WillOpen(w, n, ip) /\ ~IsOpen(n, ip) => WillOpen(w, n, ip)'
        /\ WillClose(w, n, ip) /\ IsOpen(n, ip) => WillClose(w, n, ip)'
  <2>1. CASE NextCall(w)
    <3>1. PICK c \in todo[w] : Issue(w, c) /\ todo' = [todo EXCEPT ![w] = @ \ {c}]
      BY <2>1 DEF NextCall
    <3>2. ~Busy(w) /\ Busy(w)' /\ call'[w] = c /\ todo'[w] = todo[w] \ {c}
      BY <1>1, <3>1 DEF Issue, Goto, Busy
    <3> QED
      BY <1>2, <3>2 DEF WillOpen, WillClose
  <2>2. CASE CallReturned(w)
    <3>1. pc[w] = "done" /\ Busy(w) /\ ~Busy(w)' /\ todo' = todo
      BY <1>1, <2>2 DEF CallReturned, Return, Goto, Busy, coordVars, handlerVars
    <3>2. \A n \in Names, ip \in IPs : /\ Opens(call[w], n, ip) => IsOpen(n, ip)
                                       /\ Closes(call[w], n, ip) => ~IsOpen(n, ip)
      BY <3>1, ReturnedIs
    <3> QED
      BY <1>2, <3>1, <3>2 DEF WillOpen, WillClose
  <2> QED
    BY <2>1, <2>2
<1>4. OnTheWay(w)'
  <2>1. \A n \in Names, ip \in IPs : (IsWanted(n, ip)' <=> IsWanted(n, ip)) /\ (IsOpen(n, ip)' <=> IsOpen(n, ip))
    BY <1>2 DEF IsWanted, IsOpen
  <2> QED
    BY <1>1, <1>3, <2>1 DEF OnTheWay
<1>5. CallsFit(w)' /\ ListsAgree(w)' /\ AddressesNoted(w)' /\ RemovedNoted(w)' /\ WellTagged'
  BY <1>1, <1>2 DEF CallsFit, ListsAgree, AddressesNoted, Denied, RemovedNoted, WellTagged
<1> QED
  BY <1>4, <1>5 DEF HandlerKept

(* An answer: what it carries is to be opened, what it no longer carries   *)
(* is to be closed (ApplyDNS).                                             *)
LEMMA AnswerKept ==
  ASSUME LoneHandler, HandlerInv, NEW w \in Workers, NEW n \in Names, NEW a \in Answers, ApplyDNS(w, n, a)
  PROVE  HandlerKept(w)' /\ WellTagged'
<1> USE DEF memoryVars, ghostVars, clientVars, workVars
<1>1. /\ step \in [Workers -> Labels] /\ task \in [Workers -> Tasks] /\ todo \in [Workers -> SUBSET Call]
      /\ OnTheWay(w) /\ ListsAgree(w) /\ CallsFit(w) /\ AddressesNoted(w) /\ WellTagged
      /\ Known \in [Names -> SUBSET IPs]
  BY HandlerFacts DEF HandlerInv
<1> DEFINE ips == a.ips
           ok  == n \in Allowed(lastList)
           t   == [kind |-> "dns", name |-> n, ips |-> ips]
<1>2. /\ ips \in SUBSET IPs /\ step[w] = "none" /\ ~Busy(w) /\ todo[w] = {}
      /\ Allowed(lastList) = Allowed(server.list)
  BY <1>1, HandlerFacts, AnswerTyped DEF ApplyDNS, Busy, CallsFit, ListsAgree
<1>3. /\ step'[w] = IF ok THEN "calls" ELSE "note"
      /\ task'[w] = t /\ todo'[w] = AnswerCalls(n, a, ok)
      /\ UNCHANGED <<rules, pc, call, removed, failed, server, lastList, rejected>>
      /\ Known'[n] = IF ok \/ ips = {}
                     THEN OtherFamilies(Known[n], ips) \cup ips
                     ELSE ips
      /\ \A m \in Names : m # n => Known'[m] = Known[m]
  <2>1. CoordTypeOK
    BY DEF HandlerInv, CoordInv
  <2>2. Known' = [Known EXCEPT ![n] = IF ok \/ ips = {} THEN OtherFamilies(Known[n], ips) \cup ips ELSE ips]
    BY <2>1, AnswerKnown
  <2>3. /\ step'[w] = IF ok THEN "calls" ELSE "note"
        /\ task'[w] = t /\ todo'[w] = AnswerCalls(n, a, ok)
        /\ UNCHANGED <<rules, pc, call, removed, failed, server, lastList, rejected>>
    BY <1>1 DEF ApplyDNS, Become
  <2> HIDE DEF ok, ips, t
  <2> QED
    BY <1>1, <2>2, <2>3
<1>4. /\ task'[w].name = n /\ task'[w].ips = ips
      /\ \A ip \in ips : IPFamilyFromIP(ip) \in FamiliesOf(ips)
      /\ ips = {} => FamiliesOf(ips) = {}
  BY <1>3 DEF FamiliesOf, OfFamily, IPFamilyFromIP, Families
<1> HIDE DEF t, ips
<1>5. \A m \in Names, ip \in IPs : IsOpen(m, ip) <=> IsWanted(m, ip)
  BY <1>1, <1>2, NothingOwed
<1>6. ok \in BOOLEAN
  OBVIOUS
<1> HIDE DEF ok
<1>7. /\ \A c \in todo'[w] : AsBuilt(c)
      /\ \A m \in Names, ip \in IPs :
           /\ WillOpen(w, m, ip)' <=> ok /\ m = n /\ ip \in ips
           /\ WillClose(w, m, ip)' <=>
                /\ m = n
                /\ IF ok THEN IPFamilyFromIP(ip) \in FamiliesOf(ips) /\ ip \notin ips ELSE ip \in ips
  <2>1. ~Busy(w)' /\ step'[w] # "revoke"
    BY <1>2, <1>3 DEF Busy
  <2>2. /\ \A c \in todo'[w] : AsBuilt(c)
        /\ \A m \in Names, ip \in IPs :
             /\ (\E c \in todo'[w] : Opens(c, m, ip)) <=> ok /\ m = n /\ ip \in ips
             /\ (\E c \in todo'[w] : Closes(c, m, ip)) <=>
                  /\ m = n
                  /\ IF ok THEN IPFamilyFromIP(ip) \in FamiliesOf(ips) /\ ip \notin ips ELSE ip \in ips
    BY <1>2, <1>3, <1>6, AnswerCallsDo DEF LoneHandler, ips
  <2> QED
    BY <2>1, <2>2 DEF WillOpen, WillClose
<1>8. OnTheWay(w)'
  <2>1. \A m \in Names, ip \in IPs : IsOpen(m, ip)' <=> IsOpen(m, ip)
    BY <1>3 DEF IsOpen
  <2>2. \A m \in Names, ip \in IPs : m # n => (IsWanted(m, ip)' <=> IsWanted(m, ip))
    BY <1>3 DEF IsWanted
  <2>3. CASE ok
    <3>1. \A ip \in IPs : IsWanted(n, ip)' <=>
            ip \in ips \/ (IsWanted(n, ip) /\ IPFamilyFromIP(ip) \notin FamiliesOf(ips))
      BY <1>2, <1>3, <2>3 DEF IsWanted, OtherFamilies, ok
    <3> QED
      BY <1>4, <1>5, <1>7, <2>1, <2>2, <2>3, <3>1 DEF OnTheWay
  <2>4. CASE ~ok
    <3>1. \A ip \in IPs : ~IsWanted(n, ip)' /\ ~IsWanted(n, ip)
      BY <1>2, <1>3, <2>4 DEF IsWanted, ok
    <3> QED
      BY <1>5, <1>7, <2>1, <2>2, <2>4, <3>1 DEF OnTheWay
  <2> QED
    BY <2>3, <2>4
<1>9. CallsFit(w)'
  BY <1>1, <1>3, <1>7 DEF CallsFit
<1>10. ListsAgree(w)'
  BY <1>1, <1>2, <1>3, <1>4 DEF ListsAgree, ok
<1>11. AddressesNoted(w)'
  <2>1. \A m \in Names : rejected[m] = IF m \notin Allowed(lastList) THEN Known[m] ELSE {}
    BY <1>1, <1>2 DEF AddressesNoted, Denied
  <2>2. step'[w] # "revoke" /\ (step'[w] = "note" <=> ~ok)
    BY <1>3
  <2>3. ASSUME NEW m \in Names
        PROVE  IF ~ok /\ m = n /\ ips # {} THEN Known'[m] = ips
               ELSE rejected[m] = IF m \notin Allowed(lastList) THEN Known'[m] ELSE {}
    <3>1. CASE m # n \/ ok
      BY <1>3, <2>1, <3>1 DEF ok
    <3>2. CASE m = n /\ ~ok /\ ips = {}
      <4>1. Known'[n] = Known[n]
        BY <1>3, <1>4, <3>2 DEF OtherFamilies
      <4> QED
        BY <2>1, <3>2, <4>1
    <3>3. CASE m = n /\ ~ok /\ ips # {}
      BY <1>3, <3>3
    <3> QED
      BY <3>1, <3>2, <3>3
  <2> QED
    BY <1>3, <1>4, <2>2, <2>3 DEF AddressesNoted, Denied
<1>12. RemovedNoted(w)' /\ WellTagged'
  BY <1>1, <1>3 DEF RemovedNoted, WellTagged
<1> QED
  BY <1>8, <1>9, <1>10, <1>11, <1>12 DEF HandlerKept

(* The addresses of a name that is not allowed are noted (ApplyDNS).       *)
LEMMA NoteKept ==
  ASSUME LoneHandler, HandlerInv, NEW w \in Workers, NoteDenied(w)
  PROVE  HandlerKept(w)' /\ WellTagged'
<1> USE DEF memoryVars, ghostVars, clientVars, workVars
<1>1. /\ step \in [Workers -> Labels] /\ task[w] \in DnsTask
      /\ OnTheWay(w) /\ ListsAgree(w) /\ CallsFit(w) /\ AddressesNoted(w) /\ WellTagged
      /\ rejected \in [Names -> SUBSET IPs] /\ ~Busy(w)
  BY HandlerFacts DEF HandlerInv, NoteDenied, Busy
<1> DEFINE n   == task[w].name
           ips == task[w].ips
<1>2. n \in Names /\ n \notin Allowed(lastList)
  BY <1>1 DEF DnsTask, ListsAgree, NoteDenied
<1>3. /\ step[w] = "note" /\ step'[w] = "calls"
      /\ UNCHANGED <<rules, pc, call, removed, failed, server, lastList, Known, task, todo>>
      /\ rejected' = IF ips = {} THEN rejected ELSE [rejected EXCEPT ![n] = ips]
  BY <1>1, KnownStays DEF NoteDenied, At
<1> HIDE DEF n, ips
<1>4. OnTheWay(w)'
  <2>1. \A m \in Names, ip \in IPs :
          /\ (IsWanted(m, ip)' <=> IsWanted(m, ip)) /\ (IsOpen(m, ip)' <=> IsOpen(m, ip))
          /\ (WillOpen(w, m, ip)' <=> WillOpen(w, m, ip)) /\ (WillClose(w, m, ip)' <=> WillClose(w, m, ip))
    BY <1>3 DEF IsWanted, IsOpen, WillOpen, WillClose, Busy
  <2> QED
    BY <1>1, <2>1 DEF OnTheWay
<1>5. AddressesNoted(w)'
  <2>1. \A m \in Names : IF n = m /\ ips # {} THEN Known[m] = ips
                         ELSE rejected[m] = IF m \notin Allowed(lastList) THEN Known[m] ELSE {}
    BY <1>1, <1>3 DEF AddressesNoted, Denied, n, ips
  <2>2. \A m \in Names : rejected'[m] = IF m = n /\ ips # {} THEN ips ELSE rejected[m]
    BY <1>1, <1>2, <1>3
  <2> QED
    BY <1>2, <1>3, <2>1, <2>2 DEF AddressesNoted, Denied
<1>6. CallsFit(w)' /\ ListsAgree(w)' /\ RemovedNoted(w)' /\ WellTagged'
  BY <1>1, <1>3 DEF CallsFit, ListsAgree, RemovedNoted, WellTagged
<1> QED
  BY <1>4, <1>5, <1>6 DEF HandlerKept

(* What a save comes to: its new list is in the guest's description, and   *)
(* the names to revoke and to open are known (SaveMergedList).             *)
LEMMA StoredKept ==
  ASSUME LoneHandler, HandlerInv, NEW w \in Workers, PutDescription(w)
  PROVE  HandlerKept(w)' /\ WellTagged'
<1> USE DEF memoryVars, ghostVars, clientVars, workVars
<1>1. /\ step \in [Workers -> Labels] /\ task[w] \in SaveTask /\ server \in Description
      /\ OnTheWay(w) /\ ListsAgree(w) /\ CallsFit(w) /\ AddressesNoted(w) /\ WellTagged
      /\ lastList \in List /\ ~Busy(w)
  BY HandlerFacts DEF HandlerInv, PutDescription, Busy
<1> DEFINE text == task[w].text
<1>2. /\ step[w] = "put" /\ step'[w] = "revoke" /\ task' = task /\ todo' = todo /\ todo[w] = {}
      /\ UNCHANGED <<rules, pc, call, removed, failed, lastList, Known, rejected>>
      /\ text \in List /\ server'.list = text
      /\ task[w].old = lastList /\ task[w].revoke = RevokedBySave(lastList, text)
      /\ Allowed(lastList) = Allowed(server.list)
  BY <1>1, KnownStays DEF PutDescription, StoreDescription, SpliceBlock, Description, SaveTask, At, ListsAgree, CallsFit
<1>3. /\ \A n \in task[w].revoke : n \in Names /\ n \notin Allowed(text)
      /\ \A n \in Allowed(lastList) : n \notin Allowed(text) => n \in task[w].revoke
  BY <1>1, <1>2, RevokedAre
<1>4. \A n \in Names, ip \in IPs : IsOpen(n, ip) <=> n \in Allowed(lastList) /\ ip \in Known[n]
  <2>1. \A n \in Names, ip \in IPs : IsOpen(n, ip) <=> IsWanted(n, ip)
    BY <1>1, <1>2, NothingOwed
  <2> QED
    BY <1>2, <2>1 DEF IsWanted
<1>5. \A n \in Names : rejected[n] = IF n \notin Allowed(lastList) THEN Known[n] ELSE {}
  BY <1>1, <1>2 DEF AddressesNoted, Denied
<1> HIDE DEF text
<1>6. OnTheWay(w)'
  <2>1. \A n \in Names, ip \in IPs :
          /\ IsOpen(n, ip)' <=> IsOpen(n, ip)
          /\ IsWanted(n, ip)' <=> n \in Allowed(text) /\ ip \in Known[n]
          /\ WillOpen(w, n, ip)' <=> n \in Allowed(text) /\ n \notin Allowed(lastList) /\ ip \in rejected[n]
          /\ WillClose(w, n, ip)' <=> n \in task[w].revoke
    <3>1. ~Busy(w)' /\ todo'[w] = {} /\ Newly(w)' = Allowed(text) \ Allowed(lastList)
      BY <1>1, <1>2 DEF Busy, Newly, newlyAllowedFQDNs, text
    <3> QED
      BY <1>2, <3>1 DEF IsOpen, IsWanted, WillOpen, WillClose
  <2> QED
    BY <1>3, <1>4, <1>5, <2>1 DEF OnTheWay
<1>7. CallsFit(w)' /\ WellTagged'
  BY <1>1, <1>2 DEF CallsFit, WellTagged
<1>8. ListsAgree(w)'
  BY <1>1, <1>2 DEF ListsAgree, Busy, text
<1>9. AddressesNoted(w)'
  BY <1>1, <1>2, <1>3, <1>5 DEF AddressesNoted, Denied, Revoking, Busy, text
<1>10. RemovedNoted(w)'
  <2>1. ~Busy(w)' /\ Allowed(lastList) \subseteq Names
    BY <1>1, <1>2 DEF Busy, Allowed
  <2>2. ASSUME NEW n \in Allowed(lastList), NEW ip \in IPs
        PROVE  ip \in Known[n] <=> IsOpen(n, ip)'
    BY <1>2, <1>4, <2>1, <2>2 DEF IsOpen
  <2> QED
    BY <1>2, <2>1, <2>2 DEF RemovedNoted
<1> QED
  BY <1>6, <1>7, <1>8, <1>9, <1>10 DEF HandlerKept

(* A name to revoke becomes the one that is being revoked                  *)
(* (revokeDynamicRulesForFQDNs).                                           *)
LEMMA RevokeKept ==
  ASSUME LoneHandler, HandlerInv, NEW w \in Workers, RevokeNext(w)
  PROVE  HandlerKept(w)' /\ WellTagged'
<1> USE DEF memoryVars, ghostVars
<1>1. /\ task \in [Workers -> Tasks] /\ task[w] \in SaveTask
      /\ pc \in [Workers -> {"idle", "list", "get", "store", "apply", "invalidate", "done"}]
      /\ call \in [Workers -> Call \cup {NoCall}]
      /\ OnTheWay(w) /\ ListsAgree(w) /\ CallsFit(w) /\ AddressesNoted(w) /\ RemovedNoted(w) /\ WellTagged
  BY HandlerFacts DEF HandlerInv, RevokeNext
<1>2. PICK n \in task[w].revoke : /\ Issue(w, RemoveAllManaged(Target, n))
                                 /\ task' = [task EXCEPT ![w].revoke = @ \ {n}]
  BY DEF RevokeNext
<1>3. /\ step[w] = "revoke" /\ ~Busy(w) /\ Busy(w)' /\ call'[w] = RemoveAllManaged(Target, n)
      /\ task'[w].revoke = task[w].revoke \ {n}
      /\ task'[w].text = task[w].text /\ task'[w].old = task[w].old
      /\ UNCHANGED <<rules, removed, failed, server, lastList, Known, rejected, step, todo>>
  BY <1>1, <1>2, KnownStays DEF RevokeNext, Issue, Goto, Busy, SaveTask
<1>4. call'[w].name = n /\ call'[w].kind = "removeAll"
  BY <1>3 DEF RemoveAllManaged
<1>5. OnTheWay(w)'
  <2>1. \A m \in Names, ip \in IPs : (IsWanted(m, ip)' <=> IsWanted(m, ip)) /\ (IsOpen(m, ip)' <=> IsOpen(m, ip))
    BY <1>3 DEF IsWanted, IsOpen
  <2>2. \A m \in Names, ip \in IPs :
          /\ WillOpen(w, m, ip)' <=> WillOpen(w, m, ip)
          /\ WillClose(w, m, ip)' <=> WillClose(w, m, ip)
    BY <1>2, <1>3, <1>4 DEF WillOpen, WillClose, Opens, Closes, Newly
  <2> QED
    BY <1>1, <2>1, <2>2 DEF OnTheWay
<1>6. CallsFit(w)' /\ WellTagged'
  BY <1>1, <1>3 DEF CallsFit, WellTagged
<1>7. ListsAgree(w)'
  BY <1>1, <1>2, <1>3, <1>4 DEF ListsAgree
<1>8. \A m : Revoking(w, m)' <=> Revoking(w, m)
  BY <1>2, <1>3, <1>4 DEF Revoking
<1>9. AddressesNoted(w)'
  BY <1>1, <1>3, <1>8 DEF AddressesNoted, Denied
<1>10. RemovedNoted(w)'
  <2>1. removed[w] = {}
    BY <1>3 DEF HandlerInv, CoordInv, AddressesAnswered, Busy
  <2> QED
    BY <1>1, <1>3, <1>8, <2>1 DEF RemovedNoted, IsOpen
<1> QED
  BY <1>5, <1>6, <1>7, <1>9, <1>10 DEF HandlerKept

(* A name that has been revoked is closed; if it is still listed, what was *)
(* closed are its addresses, and they are noted                            *)
(* (revokeDynamicRulesForFQDNs).                                           *)
LEMMA RevokedKept ==
  ASSUME LoneHandler, HandlerInv, NEW w \in Workers, Revoked(w), rejected' \in [Names -> SUBSET IPs]
  PROVE  HandlerKept(w)' /\ WellTagged'
<1> USE DEF memoryVars, ghostVars, handlerVars
<1>1. /\ task[w] \in SaveTask /\ lastList \in List /\ step[w] = "revoke" /\ pc[w] = "done"
      /\ pc \in [Workers -> {"idle", "list", "get", "store", "apply", "invalidate", "done"}]
      /\ failed \in [Workers -> BOOLEAN]
      /\ Known \in [Names -> SUBSET IPs] /\ rejected \in [Names -> SUBSET IPs]
      /\ OnTheWay(w) /\ ListsAgree(w) /\ CallsFit(w) /\ AddressesNoted(w) /\ RemovedNoted(w) /\ WellTagged
  BY HandlerFacts DEF HandlerInv, Revoked, Return
<1>n. PICK n : n = call[w].name
  OBVIOUS
<1> DEFINE text == task[w].text
<1>2. /\ Busy(w) /\ ~Busy(w)' /\ ~failed'[w]
      /\ UNCHANGED <<rules, server, lastList, step, task, todo>>
  BY <1>1 DEF Revoked, Return, Goto, Busy
<1>3. /\ text \in List /\ server.list = text /\ call[w].kind = "removeAll"
      /\ task[w].old = lastList
      /\ n \in RevokedBySave(lastList, text) /\ n \notin task[w].revoke
  BY <1>1, <1>2, <1>n, HandlerFacts DEF ListsAgree, SaveTask, Busy
<1>4. n \in Names /\ n \notin Allowed(text) /\ (n \in Listed(text) => n \in Allowed(lastList))
  BY <1>1, <1>3, RevokedAre
<1>5. \A ip \in IPs : ~IsOpen(n, ip)
  BY <1>1, <1>3, <1>4, <1>n, ReturnedIs DEF Closes
<1>6. IF n \in Listed(text)
      THEN /\ Known' = Known
           /\ rejected' = IF removed[w] = {} THEN rejected ELSE [rejected EXCEPT ![n] = removed[w]]
      ELSE /\ Known' = [Known EXCEPT ![n] = {}]
           /\ rejected' = [rejected EXCEPT ![n] = {}]
  BY <1>n, RevokedKnown DEF Revoked, HandlerInv, CoordInv
<1> HIDE DEF text
<1>7. \A m \in Names : m # n => Known'[m] = Known[m] /\ rejected'[m] = rejected[m]
  BY <1>1, <1>4, <1>6
<1>8. OnTheWay(w)'
  <2>1. \A m \in Names, ip \in IPs : (IsWanted(m, ip)' <=> IsWanted(m, ip)) /\ (IsOpen(m, ip)' <=> IsOpen(m, ip))
    BY <1>2, <1>3, <1>4, <1>7 DEF IsWanted, IsOpen
  <2>2. \A m \in Newly(w) : m \in Allowed(text)
    BY DEF Newly, newlyAllowedFQDNs, text
  <2>3. \A m \in Names, ip \in IPs :
          /\ ~Opens(call[w], m, ip)
          /\ Closes(call[w], m, ip) => ~IsOpen(m, ip)
    BY <1>3, <1>5, <1>n DEF Opens, Closes
  <2>4. \A m \in Names, ip \in IPs :
          /\ WillOpen(w, m, ip)' <=> WillOpen(w, m, ip)
          /\ WillClose(w, m, ip)' => WillClose(w, m, ip)
          /\ WillClose(w, m, ip) /\ IsOpen(m, ip) => WillClose(w, m, ip)'
    BY <1>2, <1>4, <1>7, <2>2, <2>3 DEF WillOpen, WillClose, Newly
  <2> QED
    BY <1>1, <2>1, <2>4 DEF OnTheWay
<1>9. CallsFit(w)' /\ WellTagged'
  BY <1>1, <1>2 DEF CallsFit, WellTagged
<1>10. ListsAgree(w)'
  BY <1>1, <1>2 DEF ListsAgree
<1>11. /\ ~Revoking(w, n)' /\ Revoking(w, n)
       /\ \A m : m # n => (Revoking(w, m)' <=> Revoking(w, m))
  BY <1>2, <1>3, <1>n DEF Revoking
<1>12. AddressesNoted(w)'
  <2>1. rejected'[n] = Known'[n]
    <3>1. CASE n \in Listed(text)
      <4>1. \A ip \in IPs : ip \in Known[n] <=> ip \in removed[w]
        BY <1>1, <1>2, <1>4, <1>5, <1>11, <1>n, <3>1 DEF RemovedNoted
      <4>2. CASE removed[w] = {}
        <5>1. Known[n] = {}
          BY <1>1, <1>4, <4>1, <4>2
        <5>2. rejected[n] = {}
          BY <1>1, <1>4, <1>11, <3>1 DEF AddressesNoted, Denied
        <5> QED
          BY <1>6, <3>1, <4>2, <5>1, <5>2
      <4>3. CASE removed[w] # {}
        <5>1. rejected'[n] = removed[w] /\ removed[w] \subseteq IPs
          BY <1>1, <1>4, <1>6, <3>1, <4>3
        <5>2. Known[n] = removed[w]
          BY <1>1, <1>4, <4>1, <5>1
        <5> QED
          BY <1>6, <3>1, <5>1, <5>2
      <4> QED
        BY <4>2, <4>3
    <3>2. CASE n \notin Listed(text)
      BY <1>1, <1>4, <1>6, <3>2
    <3> QED
      BY <3>1, <3>2
  <2>2. Denied(w, n)'
    BY <1>1, <1>2, <1>4, <1>11 DEF Denied, text
  <2>3. \A m : m # n => (Denied(w, m)' <=> Denied(w, m))
    BY <1>2, <1>11 DEF Denied
  <2> QED
    BY <1>1, <1>2, <1>7, <2>1, <2>2, <2>3 DEF AddressesNoted
<1>13. RemovedNoted(w)'
  <2>1. ASSUME NEW m \in Allowed(lastList), Revoking(w, m)', NEW ip \in IPs
        PROVE  ip \in Known'[m] <=> IsOpen(m, ip)'
    <3>1. m \in Names /\ m # n
      BY <1>11, <2>1 DEF Allowed
    <3>2. ip \in Known[m] <=> IsOpen(m, ip)
      BY <1>1, <1>11, <1>n, <2>1, <3>1 DEF RemovedNoted
    <3> QED
      BY <1>2, <1>7, <3>1, <3>2 DEF IsOpen
  <2> QED
    BY <1>2, <2>1 DEF RemovedNoted
<1> QED
  BY <1>8, <1>9, <1>10, <1>12, <1>13 DEF HandlerKept

(* The new list is the one answers are judged by, and what was noted of    *)
(* the names it allows newly is to be opened (SaveMergedList).             *)
LEMMA CommitKept ==
  ASSUME LoneHandler, HandlerInv, NEW w \in Workers, CommitSave(w)
  PROVE  HandlerKept(w)' /\ WellTagged'
<1> USE DEF memoryVars, ghostVars, clientVars, workVars
<1>1. /\ step \in [Workers -> Labels] /\ task \in [Workers -> Tasks] /\ todo \in [Workers -> SUBSET Call]
      /\ task[w] \in SaveTask /\ step[w] = "revoke" /\ task[w].revoke = {} /\ ~Busy(w)
      /\ OnTheWay(w) /\ ListsAgree(w) /\ CallsFit(w) /\ AddressesNoted(w) /\ WellTagged
      /\ rejected \in [Names -> SUBSET IPs]
  BY HandlerFacts DEF HandlerInv, CommitSave, Busy
<1> DEFINE text  == task[w].text
           syncs == UNION {{SyncOutboundAllow(Target, n, ip) : ip \in rejected[n]} : n \in Newly(w)}
<1>2. /\ step'[w] = "calls" /\ todo'[w] = syncs /\ lastList' = text
      /\ UNCHANGED <<rules, pc, call, removed, failed, server, Known>>
      /\ rejected' = [n \in Names |-> IF n \in Newly(w) THEN {} ELSE rejected[n]]
  BY <1>1, KnownStays DEF CommitSave, Become, Newly
<1>3. server.list = text /\ todo[w] = {} /\ Newly(w) = Allowed(text) \ Allowed(lastList)
  BY <1>1 DEF ListsAgree, CallsFit, Newly, newlyAllowedFQDNs
<1>4. Newly(w) \subseteq Names
  BY <1>3 DEF Allowed
<1>5. /\ \A c \in syncs : AsBuilt(c)
      /\ \A n \in Names, ip \in IPs :
           /\ (\E c \in syncs : Opens(c, n, ip)) <=> n \in Newly(w) /\ ip \in rejected[n]
           /\ ~\E c \in syncs : Closes(c, n, ip)
  <2>1. ASSUME NEW c \in syncs
        PROVE  \E m \in Newly(w) : \E d \in rejected[m] :
                 /\ AsBuilt(c)
                 /\ \A n \in Names, ip \in IPs : (Opens(c, n, ip) <=> n = m /\ ip = d) /\ ~Closes(c, n, ip)
    <3>1. PICK m \in Newly(w) : c \in {SyncOutboundAllow(Target, m, ip) : ip \in rejected[m]}
      BY <2>1
    <3>2. PICK d \in rejected[m] : c = SyncOutboundAllow(Target, m, d)
      BY <3>1
    <3> QED
      BY <3>2 DEF SyncOutboundAllow, AsBuilt, Opens, Closes
  <2>2. ASSUME NEW m \in Newly(w), NEW d \in rejected[m]
        PROVE  \E c \in syncs : Opens(c, m, d)
    <3>1. SyncOutboundAllow(Target, m, d) \in syncs
      OBVIOUS
    <3> QED
      BY <3>1 DEF SyncOutboundAllow, Opens
  <2> HIDE DEF syncs
  <2> QED
    BY <2>1, <2>2
<1> HIDE DEF syncs, text
<1>6. OnTheWay(w)'
  <2>1. \A n \in Names, ip \in IPs : (IsWanted(n, ip)' <=> IsWanted(n, ip)) /\ (IsOpen(n, ip)' <=> IsOpen(n, ip))
    BY <1>2 DEF IsWanted, IsOpen
  <2>2. \A n \in Names, ip \in IPs :
          /\ WillOpen(w, n, ip)' <=> n \in Newly(w) /\ ip \in rejected[n]
          /\ ~WillClose(w, n, ip)'
    BY <1>1, <1>2, <1>5 DEF WillOpen, WillClose, Busy
  <2>3. \A n \in Names, ip \in IPs :
          /\ WillOpen(w, n, ip) <=> n \in Newly(w) /\ ip \in rejected[n]
          /\ ~WillClose(w, n, ip)
    BY <1>1, <1>3 DEF WillOpen, WillClose
  <2> QED
    BY <1>1, <2>1, <2>2, <2>3 DEF OnTheWay
<1>7. CallsFit(w)' /\ WellTagged'
  BY <1>1, <1>2, <1>5 DEF CallsFit, WellTagged
<1>8. ListsAgree(w)'
  BY <1>2, <1>3 DEF ListsAgree
<1>9. AddressesNoted(w)'
  <2>1. \A n \in Names : rejected[n] = IF n \notin Allowed(lastList) \/ n \notin Allowed(text) THEN Known[n] ELSE {}
    BY <1>1 DEF AddressesNoted, Denied, Revoking, text
  <2>2. \A n \in Names : rejected'[n] = IF n \notin Allowed(text) THEN Known[n] ELSE {}
    BY <1>2, <1>3, <2>1
  <2> QED
    BY <1>2, <2>2 DEF AddressesNoted, Denied
<1>10. RemovedNoted(w)'
  BY <1>2 DEF RemovedNoted
<1> QED
  BY <1>6, <1>7, <1>8, <1>9, <1>10 DEF HandlerKept

-----------------------------------------------------------------------------
(* The inductive invariant. *)

LEMMA InitHandler ==
  ASSUME LoneHandler, Init
  PROVE  HandlerInv
<1>1. CoordInv /\ LoneInv
  BY InitCoordInv, InitLone DEF Init
<1>2. PICK s \in InitStates :
        /\ ClientInit /\ rules[Target] = s.rules /\ server = s.server
        /\ lastList = IF s.loaded THEN s.server.list ELSE EmptyList
        /\ rejected = [n \in Names |-> {}]
        /\ step = [w \in Workers |-> "none"] /\ todo = [w \in Workers |-> {}]
        /\ current = [n \in Names |-> {ip \in IPs : <<n, ip>> \in Opened(s.rules)}]
        /\ forgotten = [n \in Names |-> {}]
  BY DEF Init
<1>k. Known = [n \in Names |-> {ip \in IPs : <<n, ip>> \in Opened(s.rules)}]
  BY <1>2 DEF Known
<1>3. /\ s.loaded /\ lastList = server.list
      /\ \A i \in DOMAIN s.rules : TagFits(s.rules[i])
      /\ \A p \in Opened(s.rules) : p[1] \in Allowed(s.server.list)
  BY <1>2 DEF LoneHandler
<1>4. \A n \in Names, ip \in IPs : <<n, ip>> \in Opened(s.rules) => n \in Allowed(server.list)
  BY <1>2, <1>3
<1>5. WellTagged
  BY <1>2, <1>3 DEF WellTagged
<1>6. ASSUME NEW w \in Workers
      PROVE  HandlerKept(w)
  <2>1. step[w] = "none" /\ todo[w] = {} /\ ~Busy(w) /\ ~failed[w]
    BY <1>2 DEF ClientInit, Busy
  <2>2. OnTheWay(w)
    BY <1>2, <1>k, <1>4, <2>1 DEF OnTheWay, WillOpen, WillClose, IsOpen, IsWanted
  <2>3. AddressesNoted(w)
    <3>1. \A n \in Names : n \notin Allowed(lastList) => Known[n] = {}
      BY <1>2, <1>k, <1>3, <1>4
    <3> QED
      BY <1>2, <2>1, <3>1 DEF AddressesNoted, Denied
  <2>4. CallsFit(w) /\ ListsAgree(w) /\ RemovedNoted(w)
    BY <1>3, <2>1 DEF CallsFit, ListsAgree, RemovedNoted
  <2> QED
    BY <2>2, <2>3, <2>4 DEF HandlerKept
<1> QED
  BY <1>1, <1>5, <1>6 DEF HandlerInv

(* What a lone handler does not meet: a lost reply, a restart, an edit of  *)
(* the list or of the rules.                                               *)
LEMMA NothingElse ==
  ASSUME LoneHandler, HandlerInv
  PROVE  /\ ~Restart /\ \A w \in Workers : ~PutReplyLost(w)
         /\ EnvStep => UNCHANGED <<rules, workVars>>
         /\ \A desc \in EditedDescriptions : desc.list = server.list
<1>1. ~Restart /\ \A w \in Workers : ~PutReplyLost(w)
  BY DEF Restart, PutReplyLost, LoneHandler, HandlerInv, CoordInv, CoordTypeOK
<1>2. EnvStep => UNCHANGED <<rules, workVars>>
  BY DEF EnvStep, Expire, OperatorEdits, LoneHandler, HandlerInv, LoneInv, NothingHidden
<1>3. \A desc \in EditedDescriptions : desc.list = server.list
  BY DEF EditedDescriptions, LoneHandler
<1> QED
  BY <1>1, <1>2, <1>3

LEMMA NextHandler == LoneHandler /\ HandlerInv /\ [Next]_vars => HandlerInv'
<1> SUFFICES ASSUME LoneHandler, HandlerInv, [Next]_vars
             PROVE  HandlerInv'
  OBVIOUS
<1>1. CoordInv' /\ LoneInv'
  BY NextLoneClient
<1>2. PICK w \in Workers : Workers = {w}
  BY DEF LoneHandler
<1>3. SUFFICES HandlerKept(w)' /\ WellTagged'
  BY <1>1, <1>2 DEF HandlerInv
<1> USE DEF coordVars, memoryVars, handlerVars, ghostVars, clientVars, workVars
<1>4. CASE HandlerStart(w)
  BY <1>4, StartCalmKept, AnswerKept DEF HandlerStart
<1>5. CASE HandlerStep(w)
  <2>1. rejected' \in [Names -> SUBSET IPs]
    BY <1>1 DEF CoordInv, CoordTypeOK
  <2> QED
    BY <1>5, <2>1, NothingElse, NoteKept, CallsKept, StepCalmKept, StoredKept, RevokeKept, RevokedKept,
       CommitKept, CallStepKept DEF HandlerStep
<1>6. CASE EnvStep /\ UNCHANGED coordVars
  BY <1>6, KnownStays, NothingElse, UntouchedKept
<1>7. ASSUME NEW desc \in EditedDescriptions, OperatorEditsNotes(desc)
      PROVE  HandlerKept(w)' /\ WellTagged'
  BY <1>7, KnownStays, NothingElse, UntouchedKept DEF OperatorEditsNotes
<1>8. CASE UNCHANGED vars
  BY <1>8, KnownStays, UntouchedKept DEF vars
<1> QED
  BY <1>2, <1>4, <1>5, <1>6, <1>7, <1>8, NothingElse DEF Next

-----------------------------------------------------------------------------
(* The theorems. *)

(* What is yet to be opened or closed is all that separates what is open   *)
(* from what is wanted, at every step of a handler (ApplyDNS,              *)
(* SaveMergedList, Refresh, RunBootstrap).                                 *)
THEOREM LoneHandlerInvariant ==
  ASSUME LoneHandler
  PROVE  Spec => []HandlerInv
  BY InitHandler, NextHandler, PTL DEF Spec

(* Between handlers the firewall opens, of the names that are enabled in   *)
(* the guest's description, exactly the latest addresses, except for those *)
(* dropped while the name was not enabled: the other family by an answer   *)
(* (ApplyDNS, coordinator.go:770), all by taking it off the list           *)
(* (SaveMergedList).  EnabledIsOpen, without the exception, does not hold. *)
THEOREM LoneEgressContract ==
  ASSUME LoneHandler
  PROVE  Spec => []EgressContract
<1>1. HandlerInv => EgressContract
  <2> SUFFICES ASSUME HandlerInv, Quiet
               PROVE  Opened(rules[Target]) = {p \in Names \X IPs : /\ p[1] \in Allowed(server.list)
                                                                   /\ p[2] \in Known[p[1]]}
    BY DEF EgressContract
  <2> DEFINE wanted == {p \in Names \X IPs : p[1] \in Allowed(server.list) /\ p[2] \in Known[p[1]]}
  <2>1. PICK w \in Workers : TRUE
    BY DEF LoneHandler
  <2>2. \A n \in Names, ip \in IPs : IsOpen(n, ip) <=> IsWanted(n, ip)
    BY <2>1, HandlerFacts, NothingOwed DEF Quiet, CallsFit, Busy
  <2>3. Opened(rules[Target]) \in SUBSET (Names \X IPs) /\ wanted \in SUBSET (Names \X IPs)
    BY <2>1, HandlerFacts, OpenedTyped
  <2>4. \A n \in Names, ip \in IPs : <<n, ip>> \in Opened(rules[Target]) <=> <<n, ip>> \in wanted
    BY <2>2 DEF IsOpen, IsWanted
  <2> QED
    BY <2>3, <2>4, SameOpened
<1> QED
  BY <1>1, LoneHandlerInvariant, PTL

-----------------------------------------------------------------------------
(* The refinement: a handler's steps are steps of Lockdown. *)

LEMMA InitLockdown ==
  ASSUME LoneHandler, Init
  PROVE  Lock!Init
<1>1. HandlerInv /\ Quiet
  BY InitHandler DEF Init, Quiet
<1>2. PICK w \in Workers : TRUE
  BY DEF LoneHandler
<1>3. \A n \in Names, ip \in IPs : IsOpen(n, ip) <=> IsWanted(n, ip)
  BY <1>1, <1>2, HandlerFacts, NothingOwed DEF Quiet, CallsFit, Busy
<1>4. Opened(rules[Target]) \in SUBSET (Names \X IPs) /\ Lock!Wanted \in SUBSET (Names \X IPs)
  BY <1>1, <1>2, HandlerFacts, OpenedTyped DEF Lock!Wanted
<1>5. Opened(rules[Target]) = Lock!Wanted
  <2>1. \A n \in Names, ip \in IPs : <<n, ip>> \in Opened(rules[Target]) <=> <<n, ip>> \in Lock!Wanted
    BY <1>3 DEF IsOpen, IsWanted, Lock!Wanted
  <2> QED
    BY <1>4, <2>1, SameOpened
<1>6. Allowed(server.list) \subseteq Names /\ Known \in [Names -> SUBSET IPs]
  BY <1>1, <1>2, HandlerFacts DEF Allowed
<1> QED
  BY <1>1, <1>5, <1>6 DEF Lock!Init

(* A handler that has nothing under way may end.                           *)
LEMMA RestIsRest ==
  ASSUME LoneHandler, HandlerInv, NEW w \in Workers, ~Busy(w), todo[w] = {}, step[w] # "revoke",
         ~Quiet, Quiet', UNCHANGED <<rules, server, Known>>
  PROVE  Lock!Rest
<1>1. \A n \in Names, ip \in IPs : IsOpen(n, ip) <=> IsWanted(n, ip)
  BY HandlerFacts, NothingOwed
<1>2. Opened(rules[Target]) \in SUBSET (Names \X IPs) /\ Lock!Wanted \in SUBSET (Names \X IPs)
  BY HandlerFacts, OpenedTyped DEF Lock!Wanted
<1>3. \A n \in Names, ip \in IPs : <<n, ip>> \in Opened(rules[Target]) <=> <<n, ip>> \in Lock!Wanted
  BY <1>1 DEF IsOpen, IsWanted, Lock!Wanted
<1>4. Opened(rules[Target]) = Lock!Wanted
  BY <1>2, <1>3, SameOpened
<1> QED
  BY <1>4 DEF Lock!Rest

(* An answer for an allowed name replaces the addresses of its families;   *)
(* one for another name may replace them all (ApplyDNS).                   *)
LEMMA AnswerIsAnswer ==
  ASSUME LoneHandler, HandlerInv, NEW w \in Workers, NEW n \in Names, NEW a \in Answers, ApplyDNS(w, n, a)
  PROVE  \E new \in SUBSET IPs : Lock!Answer(n, new)
<1> DEFINE ips == a.ips
<1>1. /\ ips \in SUBSET IPs /\ step[w] = "none" /\ Workers = {w}
      /\ Allowed(lastList) = Allowed(server.list) /\ step \in [Workers -> Labels]
  BY HandlerFacts, AnswerTyped DEF ApplyDNS, ListsAgree
<1>2. Quiet /\ ~Quiet' /\ UNCHANGED <<rules, server>>
  BY <1>1 DEF ApplyDNS, Become, Quiet, clientVars
<1> DEFINE others == {ip \in Known[n] : \A new \in ips : IPFamilyFromIP(ip) # IPFamilyFromIP(new)}
           kept   == OtherFamilies(Known[n], ips)
<1>3. kept = others
  BY <1>1 DEF OtherFamilies, FamiliesOf, OfFamily, IPFamilyFromIP, Families
<1>4. Known' = [Known EXCEPT ![n] = IF n \in Allowed(server.list) \/ ips = {} THEN kept \cup ips ELSE ips]
  <2>1. CoordTypeOK
    BY DEF HandlerInv, CoordInv
  <2> QED
    BY <1>1, <2>1, AnswerKnown
<1>5. \E old \in IF n \in Allowed(server.list) THEN {others} ELSE {others, {}} :
        Known' = [Known EXCEPT ![n] = old \cup ips]
  <2>1. CASE n \in Allowed(server.list) \/ ips = {}
    BY <1>3, <1>4, <2>1
  <2>2. CASE n \notin Allowed(server.list) /\ ips # {}
    <3>1. {} \cup ips = ips
      OBVIOUS
    <3> QED
      BY <1>4, <2>2, <3>1
  <2> QED
    BY <2>1, <2>2
<1> QED
  BY <1>1, <1>2, <1>5 DEF Lock!Answer, Lock!Begins

(* A step inside a call opens what is wanted, or closes what is not.       *)
LEMMA CallStepIsChange ==
  ASSUME LoneHandler, HandlerInv, NEW w \in Workers, CallStep(w), UNCHANGED coordVars
  PROVE  Lock!Open \/ Lock!Close \/ UNCHANGED Lock!vars
<1>1. Busy(w) /\ OneAddress(w) /\ OnTheWay(w)
  BY CallStepIs, HandlerFacts
<1>2. ~Quiet /\ ~Quiet' /\ UNCHANGED <<server, Known>>
  BY <1>1, HandlerFacts, KnownStays DEF Quiet, Busy, coordVars, handlerVars, ghostVars
<1>3. CASE Opened(rules'[Target]) = Opened(rules[Target])
  BY <1>2, <1>3 DEF Lock!vars
<1>4. ASSUME NEW n \in Names, NEW ip \in IPs, Opens(call[w], n, ip), ~IsOpen(n, ip),
             Opened(rules'[Target]) = Opened(rules[Target]) \cup {<<n, ip>>}
      PROVE  Lock!Open
  <2>1. IsWanted(n, ip)
    BY <1>1, <1>4 DEF OnTheWay, WillOpen
  <2>2. <<n, ip>> \in Lock!Wanted \ Opened(rules[Target])
    BY <1>4, <2>1 DEF IsWanted, IsOpen, Lock!Wanted
  <2> QED
    BY <1>2, <1>4, <2>2 DEF Lock!Open
<1>5. ASSUME NEW n \in Names, NEW ip \in IPs, Closes(call[w], n, ip), IsOpen(n, ip),
             Opened(rules'[Target]) = Opened(rules[Target]) \ {<<n, ip>>}
      PROVE  Lock!Close
  <2>1. ~IsWanted(n, ip)
    BY <1>1, <1>5 DEF OnTheWay, WillClose
  <2>2. <<n, ip>> \in Opened(rules[Target]) \ Lock!Wanted
    BY <1>5, <2>1 DEF IsWanted, IsOpen, Lock!Wanted
  <2> QED
    BY <1>2, <1>5, <2>2 DEF Lock!Close
<1> QED
  BY <1>1, <1>3, <1>4, <1>5 DEF OneAddress

(* A revocation that returns may forget the addresses of a name that is    *)
(* not allowed (revokeDynamicRulesForFQDNs).                               *)
LEMMA RevokedIsForgotten ==
  ASSUME LoneHandler, HandlerInv, NEW w \in Workers, Revoked(w)
  PROVE  (\E n \in Names : Lock!Forget(n)) \/ UNCHANGED Lock!vars
<1>1. /\ step[w] = "revoke" /\ Busy(w) /\ UNCHANGED <<rules, server, step>>
  BY DEF Revoked, Return, Busy, handlerVars
<1>2. ~Quiet /\ ~Quiet'
  BY <1>1 DEF Quiet
<1>3. PICK n : n = call[w].name
  OBVIOUS
<1>4. n \in Names /\ n \notin Allowed(server.list)
  <2>1. /\ task[w] \in SaveTask /\ lastList \in List /\ server.list = task[w].text
        /\ n \in RevokedBySave(lastList, task[w].text)
    BY <1>1, <1>3, HandlerFacts DEF ListsAgree
  <2> QED
    BY <2>1, RevokedAre DEF SaveTask
<1>5. Known' = Known \/ Known' = [Known EXCEPT ![n] = {}]
  BY <1>3, RevokedKnown DEF HandlerInv, CoordInv
<1>6. CASE Known' = Known
  BY <1>1, <1>2, <1>6 DEF Lock!vars
<1>7. CASE Known' = [Known EXCEPT ![n] = {}]
  BY <1>1, <1>2, <1>4, <1>7 DEF Lock!Forget
<1> QED
  BY <1>5, <1>6, <1>7

LEMMA NextLockdown == LoneHandler /\ HandlerInv /\ [Next]_vars => [Lock!Next]_(Lock!vars)
<1> SUFFICES ASSUME LoneHandler, HandlerInv, [Next]_vars
             PROVE  Lock!Next \/ UNCHANGED Lock!vars
  OBVIOUS
<1>1. PICK w \in Workers : Workers = {w}
  BY DEF LoneHandler
<1>2. step \in [Workers -> Labels] /\ (Quiet <=> step[w] = "none") /\ (Quiet' <=> step'[w] = "none")
  BY <1>1, HandlerFacts DEF Quiet
<1> USE DEF coordVars, memoryVars, handlerVars, ghostVars, clientVars, workVars
<1>3. CASE HandlerStart(w)
  <2>1. CASE \E n \in Names, a \in Answers : ApplyDNS(w, n, a)
    BY <2>1, AnswerIsAnswer DEF Lock!Next
  <2>2. CASE \/ \E text \in SaveTexts : SaveMergedList(w, text)
             \/ PeriodicRefresh(w)
             \/ \E host \in Hosts : RunBootstrap(w, host)
    <3>1. step[w] = "none" /\ step'[w] # "none" /\ UNCHANGED <<rules, server, Known>>
      BY <1>2, <2>2, KnownStays DEF SaveMergedList, PeriodicRefresh, RunBootstrap, Become
    <3>2. Lock!OtherHandler
      BY <1>2, <3>1 DEF Lock!OtherHandler, Lock!Begins
    <3> QED
      BY <3>2 DEF Lock!Next
  <2> QED
    BY <1>3, <2>1, <2>2 DEF HandlerStart
<1>4. CASE HandlerStep(w)
  <2>1. CASE CallsDone(w) \/ PutRejected(w) \/ GetGuestConfigFails(w) \/ StoreRefresh(w)
    <3>1. /\ step[w] \in {"calls", "put", "get", "store"} /\ ~Busy(w) /\ todo[w] = {}
          /\ UNCHANGED <<rules, server, Known>>
      BY <2>1, HandlerFacts, KnownStays DEF CallsDone, PutRejected, GetGuestConfigFails, StoreRefresh, CallsFit, Busy
    <3>2. CASE step'[w] = "none"
      BY <1>2, <3>1, <3>2, RestIsRest DEF Lock!Next
    <3>3. CASE step'[w] # "none"
      BY <1>2, <3>1, <3>3 DEF Lock!vars
    <3> QED
      BY <3>2, <3>3
  <2>2. CASE \/ NoteDenied(w) \/ NextCall(w) \/ CallReturned(w) \/ RevokeNext(w)
             \/ GetGuestConfig(w) \/ MergeSeen(w) \/ CommitSave(w)
    <3>1. step[w] # "none" /\ step'[w] # "none" /\ UNCHANGED <<rules, server, Known>>
      BY <1>2, <2>2, KnownStays DEF NoteDenied, NextCall, CallReturned, RevokeNext, GetGuestConfig, MergeSeen, CommitSave,
                        At, Become, Issue, Return
    <3> QED
      BY <1>2, <3>1 DEF Lock!vars
  <2>3. CASE PutDescription(w)
    <3>1. step[w] # "none" /\ step'[w] # "none" /\ UNCHANGED <<rules, Known>>
      BY <1>2, <2>3, KnownStays DEF PutDescription, StoreDescription, At
    <3>2. Lock!StoreList
      BY <1>2, <3>1 DEF Lock!StoreList, Allowed
    <3> QED
      BY <3>2 DEF Lock!Next
  <2>4. CASE Revoked(w)
    BY <2>4, RevokedIsForgotten DEF Lock!Next
  <2>5. CASE CallStep(w) /\ UNCHANGED coordVars
    BY <2>5, CallStepIsChange DEF Lock!Next
  <2> QED
    BY <1>4, <2>1, <2>2, <2>3, <2>4, <2>5, NothingElse DEF HandlerStep
<1>5. CASE EnvStep /\ UNCHANGED coordVars
  BY <1>5, <1>2, KnownStays, NothingElse DEF Lock!vars
<1>6. ASSUME NEW desc \in EditedDescriptions, OperatorEditsNotes(desc)
      PROVE  UNCHANGED Lock!vars
  BY <1>2, <1>6, KnownStays, NothingElse DEF OperatorEditsNotes, Lock!vars
<1>7. CASE UNCHANGED vars
  BY <1>2, <1>7, KnownStays DEF vars, Lock!vars
<1> QED
  BY <1>1, <1>3, <1>4, <1>5, <1>6, <1>7, NothingElse DEF Next

(* Handlers that do not overlap implement Lockdown: on the way from one    *)
(* contract to the next no request closes an address that stays wanted or  *)
(* opens one that is not (ApplyDNS, SaveMergedList).                       *)
THEOREM LoneLockdownKept ==
  ASSUME LoneHandler
  PROVE  Spec => LockdownKept
<1>1. Init => Lock!Init
  BY InitLockdown
<1>2. HandlerInv /\ [Next]_vars => [Lock!Next]_(Lock!vars)
  BY NextLockdown
<1> QED
  BY <1>1, <1>2, LoneHandlerInvariant, PTL DEF Spec, LockdownKept, Lock!Spec
=============================================================================
