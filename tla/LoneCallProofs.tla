--------------------------- MODULE LoneCallProofs ---------------------------
(***************************************************************************)
(* A firewall operation that runs alone does its job and only its job: for *)
(* every list the guest has, every name, address and sequence of calls,    *)
(* and whichever requests are refused.                                     *)
(***************************************************************************)
EXTENDS RuleClientProofs

(***************************************************************************)
(* One goroutine, one guest, nothing done behind the program's back.  What *)
(* is asked of calls is how their callers build them.  Bootstrap calls are *)
(* included if this DNS server has only one address, so that they delete   *)
(* nothing, or if Proxmox put new rules at the tail: at the head they      *)
(* delete at positions their own creates have moved.                       *)
(***************************************************************************)
AloneWithGuest ==
  /\ \E w \in Workers : Workers = {w}
  /\ \E g \in Guests : Guests = {g}
  /\ "lost" \notin FaultKinds /\ MaxEdits = 0

AsBuilt(c) ==
  /\ c.kind = "removeAll" => c = RemoveAllManaged(c.guest, c.name)
  /\ c.kind = "bootstrap" => CreateAt = "tail" \/ c.dests = Hosts

LoneCaller == AloneWithGuest /\ \A c \in Calls : AsBuilt(c)

\* The steps of a client that is asked for such calls only.
LoneNext ==
  \/ \E w \in Workers : CallStep(w) \/ Return(w) \/ \E c \in Call : AsBuilt(c) /\ Issue(w, c)
  \/ EnvStep

\* The rules that a pass of call c deletes.
Dooms(c, r) ==
  \/ c.kind = "remove" /\ \E ip \in c.dests : dynamicRuleMatchesDest(r, c.name, ip)
  \/ /\ c.kind \in {"prune", "removeAll"}
     /\ ruleManagedForFQDNFamily(r, c.name, c.family) /\ r.dest \notin c.dests
  \/ c.kind = "bootstrap" /\ r.owner = Bootstrap /\ r.dest \notin c.dests

Applying(w) == pc[w] \in {"apply", "invalidate"}

(***************************************************************************)
(* The inductive invariant.  DoomedInPlace: up to the last position still  *)
(* to delete, the guest's list is the one the pass was decided on.  That   *)
(* needs the cached list to be the real one (ClientInv, with the facts of  *)
(* NothingHidden), and the positions to go in descending order.  NoneLeft: *)
(* a rule to delete that is still there is at a position still to delete.  *)
(* NoneForgotten: a rule to create is there or still to create.            *)
(***************************************************************************)
NothingHidden ==
  /\ edits = 0 /\ ~drift
  /\ cache.live => cache.of # {}

CallAsBuilt(w) ==
  /\ call[w].kind = "removeAll" => call[w].dests = {}
  /\ call[w].kind = "bootstrap" => CreateAt = "tail" \/ call[w].dests = Hosts

DoomedInPlace(w, list) ==
  \A pos \in deletes[w] :
    /\ Dooms(call[w], view[w][pos])
    /\ \A i \in 1..pos : i \in DOMAIN list /\ list[i] = view[w][i]

NoneLeft(w, list) ==
  IF call[w].kind = "bootstrap"
  THEN StaleBootstrap(call[w], view[w]) = {} => StaleBootstrap(call[w], list) = {}
  ELSE \A i \in DOMAIN list : Dooms(call[w], list[i]) => i \in deletes[w]

NoneForgotten(w, list) ==
  /\ creates[w] \subseteq WantedRules(call[w])
  /\ \A r \in WantedRules(call[w]) : r \in creates[w] \/ AlreadyListed(r, list)

\* In the second pass of removeAll the first family is gone.
FirstFamilyGone(w, list) ==
  call[w].kind = "removeAll" /\ call[w].family = "ipv6" =>
    \A i \in DOMAIN list : ~ruleManagedForFQDNFamily(list[i], call[w].name, "ipv4")

InCall(w) ==
  pc[w] # "idle" =>
    /\ CallAsBuilt(w)
    /\ FirstFamilyGone(w, rules[call[w].guest])
    /\ Applying(w) => /\ DoomedInPlace(w, rules[call[w].guest])
                      /\ NoneLeft(w, rules[call[w].guest])
                      /\ NoneForgotten(w, rules[call[w].guest])
    /\ pc[w] = "done" /\ ~failed[w] => Achieved(call[w], rules[call[w].guest])

LoneInv == ClientInv /\ NothingHidden /\ \A w \in Workers : InCall(w)

-----------------------------------------------------------------------------
(* Lists with a rule more or less. *)

(* A deletion closes the gap (DeleteFirewallRule).                         *)
LEMMA DeletedIs ==
  ASSUME NEW list \in Seq(Rule), NEW pos \in DOMAIN list
  PROVE  /\ Deleted(list, pos) \in Seq(Rule) /\ Len(Deleted(list, pos)) = Len(list) - 1
         /\ \A i \in 1..(pos - 1) : Deleted(list, pos)[i] = list[i]
         /\ \A i \in pos..(Len(list) - 1) : Deleted(list, pos)[i] = list[i + 1]
<1> DEFINE front == SubSeq(list, 1, pos - 1)
           back  == SubSeq(list, pos + 1, Len(list))
<1>0. pos \in 1..Len(list) /\ Len(list) \in Nat
  OBVIOUS
<1>1. front \in Seq(Rule) /\ Len(front) = pos - 1 /\ \A i \in 1..(pos - 1) : front[i] = list[i]
  BY <1>0, SubSeqProperties
<1>2. back \in Seq(Rule) /\ Len(back) = Len(list) - pos
      /\ \A i \in 1..(Len(list) - pos) : back[i] = list[pos + i]
  BY <1>0, SubSeqProperties
<1>3. Deleted(list, pos) = front \o back
  BY DEF Deleted, RemoveAt
<1> HIDE DEF front, back
<1>4. /\ front \o back \in Seq(Rule) /\ Len(front \o back) = Len(list) - 1
      /\ \A i \in 1..(Len(list) - 1) :
           (front \o back)[i] = IF i <= pos - 1 THEN front[i] ELSE back[i - (pos - 1)]
  <2>1. /\ front \o back \in Seq(Rule) /\ Len(front \o back) = Len(front) + Len(back)
        /\ \A i \in 1..(Len(front) + Len(back)) :
             (front \o back)[i] = IF i <= Len(front) THEN front[i] ELSE back[i - Len(front)]
    BY <1>1, <1>2, ConcatProperties
  <2>2. Len(front) + Len(back) = Len(list) - 1
    BY <1>0, <1>1, <1>2
  <2> QED
    BY <1>1, <2>1, <2>2
<1>5. \A i \in 1..(pos - 1) : (front \o back)[i] = list[i]
  BY <1>0, <1>1, <1>4
<1>6. ASSUME NEW i \in pos..(Len(list) - 1)
      PROVE  (front \o back)[i] = list[i + 1]
  <2>1. (front \o back)[i] = back[i - (pos - 1)]
    BY <1>0, <1>4
  <2>2. i - (pos - 1) \in 1..(Len(list) - pos) /\ pos + (i - (pos - 1)) = i + 1
    BY <1>0
  <2> QED
    BY <1>2, <2>1, <2>2
<1> QED
  BY <1>3, <1>4, <1>5, <1>6

(* A creation puts the rule at the head, or leaves what is there in place  *)
(* (CreateFirewallRule).                                                   *)
LEMMA CreatedIs ==
  ASSUME NEW list \in Seq(Rule), NEW r \in Rule
  PROVE  /\ Created(list, r) \in Seq(Rule) /\ Len(Created(list, r)) = Len(list) + 1
         /\ CreateAt = "head" => /\ Created(list, r)[1] = r
                                 /\ \A i \in 1..Len(list) : Created(list, r)[i + 1] = list[i]
         /\ CreateAt = "tail" => /\ Created(list, r)[Len(list) + 1] = r
                                 /\ \A i \in 1..Len(list) : Created(list, r)[i] = list[i]
<1>1. CASE CreateAt = "head"
  <2>1. <<r>> \in Seq(Rule) /\ Len(<<r>>) = 1 /\ <<r>>[1] = r
    OBVIOUS
  <2>2. <<r>> \o list \in Seq(Rule) /\ Len(<<r>> \o list) = Len(list) + 1
        /\ \A i \in 1..(Len(list) + 1) : (<<r>> \o list)[i] = IF i <= 1 THEN <<r>>[i] ELSE list[i - 1]
    BY <2>1, ConcatProperties
  <2> QED
    BY <1>1, <2>1, <2>2 DEF Created
<1>2. CASE CreateAt = "tail"
  BY <1>2, AppendProperties DEF Created
<1> QED
  BY <1>1, <1>2, RulesAssumption

(* Two lists of one length with the same rules are the same.               *)
LEMMA SameList ==
  ASSUME NEW s \in Seq(Rule), NEW t \in Seq(Rule), Len(s) = Len(t), \A i \in 1..Len(s) : s[i] = t[i]
  PROVE  s = t
  BY SeqEqual

(* A creation puts one rule in, a deletion takes one out.                  *)
LEMMA CreatedOne ==
  ASSUME NEW list \in Seq(Rule), NEW r \in Rule
  PROVE  OneRuleOf(r.owner, list, Created(list, r))
<1>1. PICK new \in Seq(Rule) : new = Created(list, r)
  BY CreatedIs
<1>0. Len(list) \in Nat /\ Len(new) = Len(list) + 1 /\ DOMAIN new = 1..(Len(list) + 1)
  <2>1. Len(new) = Len(list) + 1
    BY <1>1, CreatedIs
  <2> QED
    BY <2>1
<1>2. PICK i \in DOMAIN new : /\ new[i] = r
                              /\ \A j \in 1..(i - 1) : new[j] = list[j]
                              /\ \A j \in i..Len(list) : new[j + 1] = list[j]
  <2>1. CASE CreateAt = "head"
    <3>1. new[1] = r /\ \A j \in 1..Len(list) : new[j + 1] = list[j]
      BY <1>1, <2>1, CreatedIs
    <3>2. 1 \in DOMAIN new /\ 1..(1 - 1) = {}
      BY <1>0
    <3> QED
      BY <3>1, <3>2
  <2>2. CASE CreateAt = "tail"
    <3>1. new[Len(list) + 1] = r /\ \A j \in 1..Len(list) : new[j] = list[j]
      BY <1>1, <2>2, CreatedIs
    <3>2. Len(list) + 1 \in DOMAIN new /\ (Len(list) + 1) - 1 = Len(list) /\ (Len(list) + 1)..Len(list) = {}
      BY <1>0
    <3> QED
      BY <3>1, <3>2
  <2> QED
    BY <2>1, <2>2, RulesAssumption
<1>3. Len(new) = Len(list) + 1 /\ i \in 1..Len(new)
  BY <1>0
<1>4. Deleted(new, i) = list
  <2>1. PICK less \in Seq(Rule) : less = Deleted(new, i)
    BY DeletedIs
  <2>2. /\ Len(less) = Len(new) - 1
        /\ \A j \in 1..(i - 1) : less[j] = new[j]
        /\ \A j \in i..(Len(new) - 1) : less[j] = new[j + 1]
    BY <2>1, DeletedIs
  <2>3. Len(less) = Len(list) /\ \A j \in 1..Len(less) : less[j] = list[j]
    BY <1>2, <1>3, <2>2
  <2> QED
    BY <2>1, <2>3, SameList
<1> QED
  BY <1>1, <1>2, <1>4 DEF OneRuleOf

-----------------------------------------------------------------------------
(* What a pass deletes and creates. *)

(* The positions a pass collects are those of the rules it deletes         *)
(* (RemoveDynamicRules, PruneStaleOutboundAllowsForFQDN).                  *)
LEMMA DoomedAre ==
  ASSUME NEW c \in Call, NEW list \in Seq(Rule)
  PROVE  /\ \A i \in DoomedPositions(c, list) : i \in DOMAIN list /\ Dooms(c, list[i])
         /\ c.kind # "bootstrap" =>
              \A i \in DOMAIN list : Dooms(c, list[i]) => i \in DoomedPositions(c, list)
  BY DEF DoomedPositions, Dooms, StaleBootstrap, Call, NameCall, BootCall

(* It deletes only rules of its own name.                                  *)
LEMMA DoomsOwn ==
  ASSUME NEW c \in Call, NEW r, Dooms(c, r)
  PROVE  r.owner = c.name /\ c.kind # "sync"
  BY DEF Dooms, dynamicRuleMatchesDest, ruleManagedForFQDNFamily, Call, NameCall, BootCall

(* A bootstrap call for all addresses of this server deletes no rule       *)
(* (EnsureBootstrapDNS).                                                   *)
LEMMA HostsKept ==
  ASSUME NEW c \in Call, c.kind = "bootstrap", c.dests = Hosts, NEW list \in Seq(Rule), NEW i \in DOMAIN list
  PROVE  ~Dooms(c, list[i])
<1>1. list[i] \in Rule
  OBVIOUS
<1>2. list[i].owner = Bootstrap => list[i].dest \in Hosts
  BY <1>1, RulesAssumption DEF Rule, DynamicRule, BootstrapRule, OperatorRule, Bootstrap, Operator
<1> QED
  BY <1>2 DEF Dooms

(* It creates rules of its own name for its own destinations               *)
(* (SyncOutboundAllow, EnsureBootstrapDNS).                                *)
LEMMA WantedAre ==
  ASSUME NEW c \in Call, NEW r \in WantedRules(c)
  PROVE  r \in Rule /\ r.owner = c.name /\ r.dest \in c.dests /\ c.kind \in {"sync", "bootstrap"}
<1>1. CASE c \in NameCall
  <2>1. c.kind = "sync"
    BY <1>1 DEF WantedRules, NameCall
  <2>2. PICK ip \in c.dests : r = [owner |-> c.name, tag |-> fqdnOutboundTag(ip), dest |-> ip]
    BY <2>1 DEF WantedRules
  <2>3. fqdnOutboundTag(ip) \in Families
    BY DEF fqdnOutboundTag, IPFamilyFromIP, Families
  <2>4. ip \in IPs /\ c.name \in Names
    BY <1>1 DEF NameCall
  <2> QED
    BY <2>1, <2>2, <2>3, <2>4 DEF Rule, DynamicRule
<1>2. CASE c \in BootCall
  <2>1. c.kind = "bootstrap" /\ c.name = Bootstrap /\ c.dests \subseteq Hosts
    BY <1>2 DEF BootCall
  <2>2. PICK p \in Protos, host \in c.dests : r = [owner |-> Bootstrap, tag |-> p, dest |-> host]
    BY <2>1 DEF WantedRules
  <2> QED
    BY <2>1, <2>2 DEF Rule, BootstrapRule
<1> QED
  BY <1>1, <1>2 DEF Call

-----------------------------------------------------------------------------
(* Passes. *)

(* While it runs alone, a call knows the guest's list when it decides      *)
(* (RuleSyncCache).                                                        *)
LEMMA ListIsKnown ==
  ASSUME AloneWithGuest, LoneInv, NEW w \in Workers, pc[w] # "idle"
  PROVE  /\ call[w] \in Call /\ call[w].guest \in Guests
         /\ rules[call[w].guest] \in Seq(Rule) /\ Guests = {call[w].guest}
         /\ pc[w] = "list" /\ cache.live => cache.list = rules[call[w].guest]
         /\ pc[w] = "store" => view[w] = rules[call[w].guest]
<1>1. call[w] \in Call
  BY DEF LoneInv, ClientInv, InsideCall
<1>2. call[w].guest \in Guests
  BY <1>1 DEF Call, NameCall, BootCall
<1>3. rules[call[w].guest] \in Seq(Rule) /\ cache.of \subseteq Guests
  BY <1>2 DEF LoneInv, ClientInv, ClientTypeOK
<1>4. Workers = {w} /\ Guests = {call[w].guest}
  BY <1>2 DEF AloneWithGuest
<1>5. pc[w] = "list" /\ cache.live => cache.list = rules[call[w].guest]
  BY <1>3, <1>4 DEF LoneInv, NothingHidden, ClientInv, CacheCoherent, Invalidating
<1>6. pc[w] = "store" => view[w] = rules[call[w].guest]
  BY <1>4 DEF LoneInv, NothingHidden, ClientInv, FetchCoherent, Invalidating
<1> QED
  BY <1>1, <1>2, <1>3, <1>4, <1>5, <1>6

(* A pass decided on the guest's own list finds all there is to do.        *)
LEMMA DecidedInCall ==
  ASSUME AloneWithGuest, LoneInv, NEW w \in Workers, pc[w] # "idle",
         Decide(w, rules[call[w].guest]), UNCHANGED rules
  PROVE  InCall(w)'
<1> DEFINE c == call[w]
           list == rules[c.guest]
<1>1. c \in Call /\ list \in Seq(Rule)
  BY ListIsKnown
<1>2. /\ pc'[w] = "apply" /\ call'[w] = c /\ rules'[call'[w].guest] = list
      /\ view'[w] = list /\ creates'[w] = MissingRules(c, list)
      /\ deletes'[w] = DoomedPositions(c, list)
  BY DEF Decide, Goto, LoneInv, ClientInv, ClientTypeOK
<1>3. CallAsBuilt(w) /\ FirstFamilyGone(w, list)
  BY DEF LoneInv, InCall
<1> HIDE DEF c, list
<1>4. CallAsBuilt(w)' /\ FirstFamilyGone(w, list)'
  <2>1. CallAsBuilt(w)'
    BY <1>2, <1>3 DEF CallAsBuilt, c
  <2>2. FirstFamilyGone(w, list)'
    BY <1>2, <1>3 DEF FirstFamilyGone, c, list
  <2> QED
    BY <2>1, <2>2
<1>5. DoomedInPlace(w, list)'
  <2>1. \A pos \in DoomedPositions(c, list) : pos \in DOMAIN list /\ Dooms(c, list[pos])
    BY <1>1, DoomedAre
  <2>2. \A pos \in DOMAIN list : \A i \in 1..pos : i \in DOMAIN list
    BY <1>1
  <2> QED
    BY <1>2, <2>1, <2>2 DEF DoomedInPlace, c, list
<1>6. NoneLeft(w, list)'
  <2>1. c.kind # "bootstrap" => \A i \in DOMAIN list : Dooms(c, list[i]) => i \in DoomedPositions(c, list)
    BY <1>1, DoomedAre
  <2> QED
    BY <1>2, <2>1 DEF NoneLeft, c, list
<1>7. NoneForgotten(w, list)'
  BY <1>2 DEF NoneForgotten, MissingRules, c, list
<1> QED
  BY <1>2, <1>4, <1>5, <1>6, <1>7 DEF InCall, Applying, c, list

(* A creation keeps every rule and adds one.                               *)
LEMMA CreatedHas ==
  ASSUME NEW list \in Seq(Rule), NEW r \in Rule
  PROVE  LET new == Created(list, r) IN
         /\ \A i \in DOMAIN list : \E j \in DOMAIN new : new[j] = list[i]
         /\ \A j \in DOMAIN new : new[j] = r \/ \E i \in DOMAIN list : new[j] = list[i]
         /\ \E j \in DOMAIN new : new[j] = r
<1>1. PICK new \in Seq(Rule) : new = Created(list, r)
  BY CreatedIs
<1>2. Len(list) \in Nat /\ DOMAIN new = 1..(Len(list) + 1) /\ DOMAIN list = 1..Len(list)
  <2>1. Len(new) = Len(list) + 1
    BY <1>1, CreatedIs
  <2> QED
    BY <2>1
<1>3. CASE CreateAt = "head"
  <2>1. new[1] = r /\ \A i \in 1..Len(list) : new[i + 1] = list[i]
    BY <1>1, <1>3, CreatedIs
  <2>2. \A j \in DOMAIN new : j = 1 \/ (j - 1 \in DOMAIN list /\ (j - 1) + 1 = j)
    BY <1>2
  <2>3. \A i \in DOMAIN list : i + 1 \in DOMAIN new
    BY <1>2
  <2>4. 1 \in DOMAIN new
    BY <1>2
  <2> QED
    BY <1>1, <1>2, <2>1, <2>2, <2>3, <2>4
<1>4. CASE CreateAt = "tail"
  <2>1. new[Len(list) + 1] = r /\ \A i \in 1..Len(list) : new[i] = list[i]
    BY <1>1, <1>4, CreatedIs
  <2>2. \A j \in DOMAIN new : j = Len(list) + 1 \/ j \in DOMAIN list
    BY <1>2
  <2>3. Len(list) + 1 \in DOMAIN new /\ \A i \in DOMAIN list : i \in DOMAIN new
    BY <1>2
  <2> QED
    BY <1>1, <1>2, <2>1, <2>2, <2>3
<1> QED
  BY <1>3, <1>4, RulesAssumption

(* At the tail a creation moves nothing.                                   *)
LEMMA CreatedAtTail ==
  ASSUME NEW list \in Seq(Rule), NEW r \in Rule, CreateAt = "tail"
  PROVE  \A i \in DOMAIN list : i \in DOMAIN Created(list, r) /\ Created(list, r)[i] = list[i]
<1>1. PICK new \in Seq(Rule) : new = Created(list, r)
  BY CreatedIs
<1>2. Len(new) = Len(list) + 1 /\ \A i \in 1..Len(list) : new[i] = list[i]
  BY <1>1, CreatedIs
<1> QED
  BY <1>1, <1>2

(* The rule that a sync creates is one it takes for its own.               *)
LEMMA SyncedIs ==
  ASSUME NEW c \in Call, c.kind = "sync", NEW r \in WantedRules(c), NEW list,
         \E j \in DOMAIN list : list[j] = r
  PROVE  AlreadyListed(r, list)
<1>1. c \in NameCall
  BY DEF Call, BootCall
<1>2. PICK ip \in c.dests : r = [owner |-> c.name, tag |-> fqdnOutboundTag(ip), dest |-> ip]
  BY DEF WantedRules
<1>3. r.owner # Bootstrap
  BY <1>1, <1>2, RulesAssumption DEF NameCall
<1>4. dynamicRuleMatchesDest(r, r.owner, r.dest)
  BY <1>2 DEF dynamicRuleMatchesDest, fqdnOutboundTag
<1> QED
  BY <1>3, <1>4 DEF AlreadyListed

(* Steps that leave the lists and the pass alone.                          *)
LEMMA KeptInCall ==
  ASSUME LoneInv, NEW w \in Workers, UNCHANGED <<rules, call, view, creates, deletes>>,
         pc'[w] # "idle" => pc[w] # "idle", Applying(w)' => Applying(w),
         pc'[w] = "done" => failed'[w] \/ (pc[w] = "done" /\ failed'[w] = failed[w])
  PROVE  InCall(w)'
<1>1. InCall(w)
  BY DEF LoneInv
<1> QED
  BY <1>1 DEF InCall, CallAsBuilt, FirstFamilyGone, DoomedInPlace, NoneLeft, NoneForgotten

(* An error return.                                                        *)
LEMMA AbortInCall ==
  ASSUME LoneInv, NEW w \in Workers, pc[w] # "idle", Abort(w), UNCHANGED rules
  PROVE  InCall(w)'
<1>1. CallAsBuilt(w) /\ FirstFamilyGone(w, rules[call[w].guest])
  BY DEF LoneInv, InCall
<1>2. pc'[w] = "done" /\ failed'[w] /\ call' = call
  BY DEF Abort, Goto, LoneInv, ClientInv, ClientTypeOK
<1> QED
  BY <1>1, <1>2 DEF InCall, Applying, CallAsBuilt, FirstFamilyGone

(* What is created is not what the same pass deletes, and at the tail it   *)
(* moves no position that is still to delete (EnsureBootstrapDNS).         *)
LEMMA CreatedInCall ==
  ASSUME AloneWithGuest, LoneInv, NEW w \in Workers, CreateRule(w)
  PROVE  /\ InCall(w)'
         /\ OneRuleOf(call[w].name, rules[call[w].guest], rules'[call[w].guest])
<1> DEFINE c == call[w]
           list == rules[c.guest]
           new == rules'[c.guest]
<1>1. /\ c \in Call /\ c.guest \in Guests /\ list \in Seq(Rule)
      /\ pc[w] = "apply" /\ call' = call /\ view' = view /\ deletes' = deletes /\ pc'[w] = "invalidate"
  BY ListIsKnown DEF CreateRule, AfterChange, Goto, LoneInv, ClientInv, ClientTypeOK
<1>2. PICK r \in creates[w] : new = Created(list, r) /\ creates'[w] = creates[w] \ {r}
  BY <1>1 DEF CreateRule, LoneInv, ClientInv, ClientTypeOK
<1>3. /\ CallAsBuilt(w) /\ FirstFamilyGone(w, list)
      /\ DoomedInPlace(w, list) /\ NoneLeft(w, list) /\ NoneForgotten(w, list)
  BY <1>1 DEF LoneInv, InCall, Applying
<1>4. r \in WantedRules(c) /\ r \in Rule /\ r.owner = c.name /\ r.dest \in c.dests /\ c.kind \in {"sync", "bootstrap"}
  BY <1>1, <1>3, WantedAre DEF NoneForgotten
<1>5. CreateAt = "tail" => \A i \in DOMAIN list : i \in DOMAIN new /\ new[i] = list[i]
  BY <1>1, <1>2, <1>4, CreatedAtTail
<1>6. OneRuleOf(c.name, list, new)
  BY <1>1, <1>2, <1>4, CreatedOne
<1>7. /\ \A i \in DOMAIN list : \E j \in DOMAIN new : new[j] = list[i]
      /\ \A j \in DOMAIN new : new[j] = r \/ \E i \in DOMAIN list : new[j] = list[i]
      /\ \E j \in DOMAIN new : new[j] = r
  BY <1>1, <1>2, <1>4, CreatedHas
<1> HIDE DEF c, list, new
<1>8. CallAsBuilt(w)' /\ FirstFamilyGone(w, list)'
  BY <1>1, <1>3, <1>4 DEF CallAsBuilt, FirstFamilyGone, c, list
<1>9. NoneLeft(w, list)'
  <2>1. CASE c.kind = "bootstrap"
    BY <1>1, <1>3, <1>4, <1>7, <2>1 DEF NoneLeft, StaleBootstrap, c, list, new
  <2>2. CASE c.kind = "sync"
    BY <1>1, <2>2, DoomsOwn DEF NoneLeft, c
  <2> QED
    BY <1>4, <2>1, <2>2
<1>10. DoomedInPlace(w, list)'
  <2>1. CASE c.kind = "sync"
    <3>1. deletes'[w] = {}
      BY <1>1, <1>3, <2>1, DoomsOwn DEF DoomedInPlace, c
    <3> QED
      BY <3>1 DEF DoomedInPlace
  <2>2. CASE c.kind = "bootstrap" /\ CreateAt = "tail"
    BY <1>1, <1>3, <1>5, <2>2 DEF DoomedInPlace, c, list, new
  <2>3. CASE c.kind = "bootstrap" /\ c.dests = Hosts
    <3>1. deletes[w] = {}
      BY <1>1, <1>3, <2>3, HostsKept DEF DoomedInPlace, c, LoneInv, ClientInv, ClientTypeOK, DoomedAreOurs
    <3> QED
      BY <1>1, <3>1 DEF DoomedInPlace
  <2> QED
    BY <1>3, <1>4, <2>1, <2>2, <2>3 DEF CallAsBuilt, c
<1>11. NoneForgotten(w, list)'
  <2>1. creates'[w] \subseteq WantedRules(c)
    BY <1>2, <1>3 DEF NoneForgotten, c
  <2>2. \A q \in WantedRules(c) : AlreadyListed(q, list) => AlreadyListed(q, new)
    BY <1>7 DEF AlreadyListed
  <2>3. AlreadyListed(r, new)
    <3>1. CASE c.kind = "sync"
      BY <1>1, <1>4, <1>7, <3>1, SyncedIs
    <3>2. CASE c.kind = "bootstrap"
      <4>1. r.owner = Bootstrap
        BY <1>1, <1>4, <3>2 DEF Call, NameCall, BootCall
      <4> QED
        BY <1>7, <4>1 DEF AlreadyListed, bootstrapRuleFor
    <3> QED
      BY <1>4, <3>1, <3>2
  <2> QED
    BY <1>1, <1>2, <1>3, <2>1, <2>2, <2>3 DEF NoneForgotten, c, list, new
<1>12. InCall(w)'
  <2>1. pc'[w] = "invalidate" /\ rules'[call'[w].guest] = new /\ call'[w] = c
    BY <1>1 DEF c, new
  <2> QED
    BY <2>1, <1>8, <1>9, <1>10, <1>11 DEF InCall, c, list, new
<1> QED
  BY <1>6, <1>12 DEF c, list, new

(* A deletion takes out one rule, and keeps every other.                   *)
LEMMA DeletedHas ==
  ASSUME NEW list \in Seq(Rule), NEW pos \in DOMAIN list
  PROVE  LET new == Deleted(list, pos) IN
         /\ \A i \in DOMAIN list : i = pos \/ \E j \in DOMAIN new : new[j] = list[i]
         /\ \A j \in DOMAIN new : \/ j < pos /\ j \in DOMAIN list /\ new[j] = list[j]
                                  \/ pos < j + 1 /\ j + 1 \in DOMAIN list /\ new[j] = list[j + 1]
         /\ \A i \in 1..(pos - 1) : i \in DOMAIN new /\ new[i] = list[i]
<1>1. PICK new \in Seq(Rule) : new = Deleted(list, pos)
  BY DeletedIs
<1>2. /\ Len(new) = Len(list) - 1
      /\ \A i \in 1..(pos - 1) : new[i] = list[i]
      /\ \A i \in pos..(Len(list) - 1) : new[i] = list[i + 1]
  BY <1>1, DeletedIs
<1>3. /\ Len(list) \in Nat /\ DOMAIN list = 1..Len(list) /\ pos \in 1..Len(list)
      /\ DOMAIN new = 1..(Len(list) - 1)
  BY <1>2
<1>4. ASSUME NEW i \in DOMAIN list, i # pos
      PROVE  \E j \in DOMAIN new : new[j] = list[i]
  <2>1. CASE i < pos
    <3>1. i \in DOMAIN new /\ i \in 1..(pos - 1)
      BY <1>3, <2>1
    <3> QED
      BY <1>2, <3>1
  <2>2. CASE pos < i
    <3>1. i - 1 \in DOMAIN new /\ i - 1 \in pos..(Len(list) - 1) /\ (i - 1) + 1 = i
      BY <1>3, <2>2
    <3> QED
      BY <1>2, <3>1
  <2> QED
    BY <1>3, <1>4, <2>1, <2>2
<1>5. ASSUME NEW j \in DOMAIN new
      PROVE  \/ j < pos /\ j \in DOMAIN list /\ new[j] = list[j]
             \/ pos < j + 1 /\ j + 1 \in DOMAIN list /\ new[j] = list[j + 1]
  <2>1. CASE j < pos
    BY <1>2, <1>3, <2>1
  <2>2. CASE pos <= j
    <3>1. j \in pos..(Len(list) - 1) /\ j + 1 \in DOMAIN list /\ pos < j + 1
      BY <1>3, <2>2
    <3> QED
      BY <1>2, <3>1
  <2> QED
    BY <1>3, <2>1, <2>2
<1>6. \A i \in 1..(pos - 1) : i \in DOMAIN new
  BY <1>3
<1> QED
  BY <1>1, <1>2, <1>4, <1>5, <1>6

(* Positions go from the last to the first, so each is still where the     *)
(* pass found it, and what is behind it was looked at                      *)
(* (RemoveDynamicRules, PruneStaleOutboundAllowsForFQDN).                  *)
LEMMA DeletedInCall ==
  ASSUME AloneWithGuest, LoneInv, NEW w \in Workers, DeleteRule(w)
  PROVE  /\ InCall(w)'
         /\ \E pos \in DOMAIN rules[call[w].guest] :
              /\ Dooms(call[w], rules[call[w].guest][pos])
              /\ rules'[call[w].guest] = Deleted(rules[call[w].guest], pos)
<1> DEFINE c == call[w]
           list == rules[c.guest]
<1>1. /\ c \in Call /\ c.guest \in Guests /\ list \in Seq(Rule)
      /\ pc[w] = "apply" /\ call' = call /\ view' = view /\ creates' = creates /\ pc'[w] = "invalidate"
  BY ListIsKnown DEF DeleteRule, AfterChange, Goto, LoneInv, ClientInv, ClientTypeOK
<1>2. PICK pos \in deletes[w] :
        /\ \A q \in deletes[w] : q <= pos
        /\ pos \in DOMAIN list /\ list' = Deleted(list, pos) /\ deletes'[w] = deletes[w] \ {pos}
  BY <1>1 DEF DeleteRule, DeletedNext, LoneInv, ClientInv, ClientTypeOK
<1>3. /\ CallAsBuilt(w) /\ FirstFamilyGone(w, list)
      /\ DoomedInPlace(w, list) /\ NoneLeft(w, list) /\ NoneForgotten(w, list)
  BY <1>1 DEF LoneInv, InCall, Applying
<1>n. /\ deletes[w] \subseteq Nat \ {0}
  BY DEF LoneInv, ClientInv, ClientTypeOK
<1>4. Dooms(c, list[pos])
  BY <1>2, <1>3, <1>n DEF DoomedInPlace
<1>5. PICK new : new = list'
  OBVIOUS
<1>6. /\ \A i \in DOMAIN list : i = pos \/ \E j \in DOMAIN new : new[j] = list[i]
      /\ \A j \in DOMAIN new : \/ j < pos /\ j \in DOMAIN list /\ new[j] = list[j]
                               \/ pos < j + 1 /\ j + 1 \in DOMAIN list /\ new[j] = list[j + 1]
      /\ \A i \in 1..(pos - 1) : i \in DOMAIN new /\ new[i] = list[i]
  BY <1>1, <1>2, <1>5, DeletedHas
<1>7. \A j \in DOMAIN new : \E i \in DOMAIN list : new[j] = list[i]
  BY <1>6
<1>c. c' = c
  BY <1>1
<1> HIDE DEF list, c
<1>8. CallAsBuilt(w)' /\ FirstFamilyGone(w, list)'
  BY <1>1, <1>3, <1>5, <1>7 DEF CallAsBuilt, FirstFamilyGone
<1>9. DoomedInPlace(w, list)'
  <2>1. \A q \in deletes'[w] : q \in deletes[w] /\ \A i \in 1..q : i \in 1..(pos - 1)
    BY <1>2, <1>n
  <2> QED
    BY <1>1, <1>3, <1>5, <1>6, <2>1 DEF DoomedInPlace
<1>10. NoneLeft(w, list)'
  <2>1. CASE c.kind = "bootstrap"
    <3>1. StaleBootstrap(c, list) = {} => StaleBootstrap(c, new) = {}
      BY <1>7 DEF StaleBootstrap
    <3> QED
      BY <1>1, <1>3, <1>5, <2>1, <3>1 DEF NoneLeft, c
  <2>2. CASE c.kind # "bootstrap"
    <3>1. \A i \in DOMAIN list : Dooms(c, list[i]) => i \in deletes[w]
      BY <1>3, <2>2 DEF NoneLeft, c
    <3>2. ASSUME NEW j \in DOMAIN new, Dooms(c, new[j])
          PROVE  j \in deletes'[w]
      <4>1. CASE j < pos /\ j \in DOMAIN list /\ new[j] = list[j]
        BY <1>2, <1>n, <3>1, <3>2, <4>1
      <4>2. CASE pos < j + 1 /\ j + 1 \in DOMAIN list /\ new[j] = list[j + 1]
        BY <1>2, <1>n, <3>1, <3>2, <4>2
      <4> QED
        BY <1>6, <4>1, <4>2
    <3> QED
      BY <1>1, <1>5, <2>2, <3>2 DEF NoneLeft, c
  <2> QED
    BY <2>1, <2>2
<1>11. NoneForgotten(w, list)'
  <2>1. ASSUME NEW r \in WantedRules(c), AlreadyListed(r, list)
        PROVE  AlreadyListed(r, new)
    <3>1. c.kind = "bootstrap" /\ r.owner = Bootstrap /\ r.dest \in c.dests
      BY <1>1, <1>4, WantedAre, DoomsOwn DEF Call, NameCall, BootCall
    <3>2. PICK i \in DOMAIN list : bootstrapRuleFor(list[i], r.tag, r.dest)
      BY <2>1, <3>1 DEF AlreadyListed
    <3>3. i # pos
      BY <1>4, <3>1, <3>2 DEF Dooms, bootstrapRuleFor
    <3> QED
      BY <1>6, <3>1, <3>2, <3>3 DEF AlreadyListed
  <2> QED
    BY <1>1, <1>3, <1>5, <2>1 DEF NoneForgotten, c
<1>12. InCall(w)'
  BY <1>1, <1>8, <1>9, <1>10, <1>11 DEF InCall, c, list
<1> QED
  BY <1>2, <1>4, <1>12, <1>1 DEF c, list

(* A pass that has nothing left to do has done what it is for, in its      *)
(* family (RemoveAllManagedEgressForFQDN, EnsureBootstrapDNS).             *)
LEMMA EndedInCall ==
  ASSUME AloneWithGuest, LoneInv, NEW w \in Workers, EndPass(w)
  PROVE  InCall(w)'
<1> DEFINE c == call[w]
           list == rules[c.guest]
<1>1. c \in Call /\ list \in Seq(Rule) /\ pc[w] = "apply" /\ creates[w] = {} /\ deletes[w] = {} /\ rules' = rules
  BY ListIsKnown DEF EndPass
<1>2. /\ CallAsBuilt(w) /\ FirstFamilyGone(w, list)
      /\ NoneLeft(w, list) /\ NoneForgotten(w, list)
  BY <1>1 DEF LoneInv, InCall, Applying
<1>e. \A i \in DOMAIN list : list[i] \in Rule
  BY <1>1
<1>3. CASE AnotherPass(c, view[w])
  <2>1. pc'[w] = "list" /\ call'[w] = NextPass(c)
    BY <1>1, <1>3 DEF EndPass, Goto, LoneInv, ClientInv, ClientTypeOK
  <2>2. CASE c.kind = "removeAll" /\ c.family = "ipv4"
    <3>1. c.dests = {} /\ c \in NameCall
      BY <1>1, <1>2, <2>2 DEF CallAsBuilt, Call, BootCall
    <3>2. \A i \in DOMAIN list : ~ruleManagedForFQDNFamily(list[i], c.name, "ipv4")
      BY <1>1, <1>2, <2>2, <3>1 DEF NoneLeft, Dooms
    <3>3. /\ call'[w].kind = "removeAll" /\ call'[w].dests = {}
          /\ call'[w].name = c.name /\ call'[w].guest = c.guest
      BY <2>1, <2>2, <3>1 DEF NextPass, NameCall
    <3> QED
      BY <1>1, <2>1, <3>2, <3>3 DEF InCall, CallAsBuilt, FirstFamilyGone, Applying
  <2>3. CASE c.kind = "bootstrap"
    <3>1. call'[w] = c
      BY <2>1, <2>3 DEF NextPass
    <3> QED
      BY <1>1, <1>2, <2>1, <2>3, <3>1 DEF InCall, CallAsBuilt, FirstFamilyGone, Applying
  <2> QED
    BY <1>3, <2>2, <2>3 DEF AnotherPass
<1>4. CASE ~AnotherPass(c, view[w])
  <2>1. pc'[w] = "done" /\ call' = call
    BY <1>1, <1>4 DEF EndPass, Goto, LoneInv, ClientInv, ClientTypeOK
  <2>2. Achieved(c, list)
    <3>1. CASE c.kind = "sync"
      <4>1. c \in NameCall
        BY <1>1, <3>1 DEF Call, BootCall
      <4>2. ASSUME NEW ip \in c.dests
            PROVE  \E i \in DOMAIN list : dynamicRuleMatchesDest(list[i], c.name, ip)
        <5>0. [owner |-> c.name, tag |-> fqdnOutboundTag(ip), dest |-> ip] \in WantedRules(c)
          BY <3>1, <4>2 DEF WantedRules
        <5>1. PICK r \in WantedRules(c) : r.owner = c.name /\ r.dest = ip
          BY <5>0
        <5>2. AlreadyListed(r, list)
          BY <1>1, <1>2 DEF NoneForgotten
        <5>3. r.owner # Bootstrap
          BY <4>1, <5>1, RulesAssumption DEF NameCall
        <5> QED
          BY <5>1, <5>2, <5>3 DEF AlreadyListed
      <4> QED
        BY <3>1, <4>2 DEF Achieved
    <3>2. CASE c.kind = "remove"
      BY <1>1, <1>2, <3>2 DEF Achieved, NoneLeft, Dooms
    <3>3. CASE c.kind = "prune"
      BY <1>1, <1>2, <3>3 DEF Achieved, NoneLeft, Dooms
    <3>4. CASE c.kind = "removeAll"
      <4>1. c.family = "ipv6" /\ c.dests = {}
        BY <1>1, <1>2, <1>4, <3>4 DEF AnotherPass, CallAsBuilt, Call, NameCall, BootCall, Families
      <4>2. \A i \in DOMAIN list : ~ruleManagedForFQDNFamily(list[i], c.name, "ipv6")
        BY <1>1, <1>2, <3>4, <4>1 DEF NoneLeft, Dooms
      <4>3. \A i \in DOMAIN list : ~ruleManagedForFQDNFamily(list[i], c.name, "ipv4")
        BY <1>2, <3>4, <4>1 DEF FirstFamilyGone
      <4> QED
        BY <3>4, <4>2, <4>3 DEF Achieved, Families
    <3>5. CASE c.kind = "bootstrap"
      <4>1. StaleBootstrap(c, list) = {}
        BY <1>2, <1>4, <3>5 DEF NoneLeft, AnotherPass
      <4>2. \A r \in WantedRules(c) : AlreadyListed(r, list)
        BY <1>1, <1>2 DEF NoneForgotten
      <4> QED
        BY <3>5, <4>1, <4>2 DEF Achieved
    <3> QED
      BY <1>1, <3>1, <3>2, <3>3, <3>4, <3>5 DEF Call, NameCall, BootCall
  <2> QED
    BY <1>1, <1>2, <2>1, <2>2 DEF InCall, CallAsBuilt, FirstFamilyGone, Applying
<1> QED
  BY <1>3, <1>4

-----------------------------------------------------------------------------
(* Every step. *)

(* Before a call nothing is to be done, and nothing is hidden.             *)
LEMMA InitLone == ClientInit => LoneInv
<1> SUFFICES ASSUME ClientInit
             PROVE  LoneInv
  OBVIOUS
<1>1. ClientInv
  BY InitInv
<1>2. NothingHidden
  BY DEF ClientInit, NothingHidden, Dead
<1>3. \A w \in Workers : InCall(w)
  BY DEF ClientInit, InCall
<1> QED
  BY <1>1, <1>2, <1>3 DEF LoneInv

(* A step inside a call (see CallStep).                                    *)
LEMMA CallStepLone ==
  ASSUME AloneWithGuest, LoneInv, NEW w \in Workers, CallStep(w)
  PROVE  InCall(w)' /\ NothingHidden'
<1>0. /\ pc \in [Workers -> {"idle", "list", "get", "store", "apply", "invalidate", "done"}]
      /\ edits = 0 /\ ~drift /\ (cache.live => cache.of # {})
  BY DEF LoneInv, NothingHidden, ClientInv, ClientTypeOK
<1>1. CASE ListHit(w)
  <2>1. Decide(w, rules[call[w].guest]) /\ UNCHANGED rules
    BY <1>1, ListIsKnown DEF ListHit
  <2> QED
    BY <1>0, <1>1, <2>1, DecidedInCall DEF ListHit, NothingHidden
<1>2. CASE ListMiss(w)
  <2>1. pc'[w] = "get" /\ pc[w] = "list"
    BY <1>0, <1>2 DEF ListMiss, Goto
  <2> QED
    BY <1>0, <1>2, <2>1, KeptInCall DEF ListMiss, NothingHidden, Applying
<1>3. CASE GetAnswered(w)
  <2>1. pc'[w] = "store" /\ pc[w] = "get" /\ UNCHANGED <<rules, call>>
    BY <1>0, <1>3 DEF GetAnswered, Goto
  <2>2. InCall(w)
    BY DEF LoneInv
  <2> QED
    BY <1>0, <1>3, <2>1, <2>2 DEF GetAnswered, NothingHidden, InCall, Applying, CallAsBuilt, FirstFamilyGone
<1>4. CASE GetFails(w)
  BY <1>0, <1>4, AbortInCall DEF GetFails, NothingHidden
<1>5. CASE Store(w)
  <2>1. Decide(w, rules[call[w].guest]) /\ UNCHANGED rules
    BY <1>5, ListIsKnown DEF Store
  <2> QED
    BY <1>0, <1>5, <2>1, DecidedInCall DEF Store, NothingHidden
<1>6. CASE Invalidate(w)
  <2>1. pc'[w] = "apply" /\ pc[w] = "invalidate"
    BY <1>0, <1>6 DEF Invalidate, Goto
  <2> QED
    BY <1>0, <1>6, <2>1, KeptInCall DEF Invalidate, NothingHidden, Applying, Dead
<1>7. CASE CreateRule(w)
  BY <1>0, <1>7, CreatedInCall DEF CreateRule, NothingHidden
<1>8. CASE DeleteRule(w)
  BY <1>0, <1>8, DeletedInCall DEF DeleteRule, NothingHidden
<1>9. CASE DeleteOutOfRange(w)
  BY <1>0, <1>9, AbortInCall DEF DeleteOutOfRange, NothingHidden
<1>10. CASE ChangeRejected(w)
  BY <1>0, <1>10, AbortInCall DEF ChangeRejected, NothingHidden
<1>11. CASE ChangeReplyLost(w)
  BY <1>11 DEF ChangeReplyLost, AloneWithGuest
<1>12. CASE EndPass(w)
  BY <1>0, <1>12, EndedInCall DEF EndPass, NothingHidden
<1> QED
  BY <1>1, <1>2, <1>3, <1>4, <1>5, <1>6, <1>7, <1>8, <1>9, <1>10, <1>11, <1>12 DEF CallStep

(* The invariant holds after every step.                                   *)
LEMMA NextLone == AloneWithGuest /\ LoneInv /\ [LoneNext]_clientVars => LoneInv'
<1> SUFFICES ASSUME AloneWithGuest, LoneInv, [LoneNext]_clientVars
             PROVE  LoneInv'
  OBVIOUS
<1>1. ClientInv'
  BY NextInv DEF LoneInv, LoneNext, AnyClientNext
<1>2. PICK w \in Workers : Workers = {w}
  BY DEF AloneWithGuest
<1>3. SUFFICES InCall(w)' /\ NothingHidden'
  BY <1>1, <1>2 DEF LoneInv
<1>4. CASE CallStep(w)
  BY <1>4, CallStepLone
<1>5. CASE Return(w)
  <2>1. pc'[w] = "idle"
    BY <1>5 DEF Return, Goto, LoneInv, ClientInv, ClientTypeOK
  <2> QED
    BY <1>5, <2>1 DEF Return, InCall, NothingHidden, LoneInv
<1>6. ASSUME NEW c \in Call, AsBuilt(c), Issue(w, c)
      PROVE  InCall(w)' /\ NothingHidden'
  <2>1. pc'[w] = "list" /\ call'[w] = c
    BY <1>6 DEF Issue, Goto, LoneInv, ClientInv, ClientTypeOK
  <2>2. c.kind = "removeAll" => c.dests = {} /\ c.family = "ipv4"
    BY <1>6 DEF AsBuilt, RemoveAllManaged
  <2>3. c.kind = "bootstrap" => CreateAt = "tail" \/ c.dests = Hosts
    BY <1>6 DEF AsBuilt
  <2> QED
    BY <1>6, <2>1, <2>2, <2>3 DEF Issue, InCall, CallAsBuilt, FirstFamilyGone, Applying, NothingHidden, LoneInv
<1>7. CASE EnvStep
  <2>1. CASE Expire
    BY <2>1, KeptInCall DEF Expire, workVars, NothingHidden, LoneInv, Dead, Applying
  <2>2. ~(\E g \in Guests : OperatorEdits(g))
    BY DEF OperatorEdits, AloneWithGuest, LoneInv, NothingHidden
  <2> QED
    BY <1>7, <2>1, <2>2 DEF EnvStep
<1>8. CASE UNCHANGED clientVars
  BY <1>8, KeptInCall DEF clientVars, workVars, NothingHidden, LoneInv, Applying
<1> QED
  BY <1>2, <1>4, <1>5, <1>6, <1>7, <1>8 DEF LoneNext

(* The client's own steps are such steps.                                  *)
LEMMA LoneCallerNext == LoneCaller /\ [ClientNext]_clientVars => [LoneNext]_clientVars
  BY ClientAssumption DEF LoneCaller, ClientNext, LoneNext

-----------------------------------------------------------------------------
(* The theorems. *)

(* A lone caller's passes work on the guest's own list, delete where they  *)
(* found what they delete, and forget nothing (RuleClient).                *)
THEOREM LoneInvariant ==
  ASSUME LoneCaller
  PROVE  ClientSpec => []LoneInv
<1>1. LoneInv /\ [ClientNext]_clientVars => LoneInv'
  BY NextLone, LoneCallerNext DEF LoneCaller
<1> QED
  BY <1>1, InitLone, PTL DEF ClientSpec

(* A call that reports success has achieved what its name says             *)
(* (SyncOutboundAllow, RemoveDynamicRules,                                 *)
(* PruneStaleOutboundAllowsForFQDN, RemoveAllManagedEgressForFQDN,         *)
(* EnsureBootstrapDNS).                                                    *)
THEOREM LoneCallAchieves ==
  ASSUME LoneCaller
  PROVE  ClientSpec => []CallAchieves
<1>1. LoneInv => CallAchieves
  BY DEF LoneInv, InCall, CallAchieves
<1> QED
  BY <1>1, LoneInvariant, PTL

(* A step that changes a list is a creation or a deletion by its call.     *)
LEMMA ListChanges ==
  ASSUME AloneWithGuest, LoneInv, [LoneNext]_clientVars, NEW g \in Guests, rules'[g] # rules[g]
  PROVE  \E w \in Workers :
           /\ call[w] \in Call /\ call[w].guest = g /\ call' = call
           /\ \/ CreateRule(w) /\ OneRuleOf(call[w].name, rules[g], rules'[g])
              \/ \E pos \in DOMAIN rules[g] :
                   Dooms(call[w], rules[g][pos]) /\ rules'[g] = Deleted(rules[g], pos)
<1>1. PICK w \in Workers : Workers = {w}
  BY DEF AloneWithGuest
<1>2. CreateRule(w) \/ DeleteRule(w)
  <2>1. ~(\E h \in Guests : OperatorEdits(h)) /\ ~ChangeReplyLost(w)
    BY DEF OperatorEdits, ChangeReplyLost, AloneWithGuest, LoneInv, NothingHidden
  <2> QED
    BY <1>1, <2>1 DEF LoneNext, CallStep, EnvStep, Expire, clientVars, Return, Issue, ListHit, ListMiss,
       GetAnswered, GetFails, Store, Invalidate, DeleteOutOfRange, ChangeRejected, EndPass
<1>3. pc[w] # "idle" /\ call' = call
  BY <1>2 DEF CreateRule, DeleteRule
<1>4. call[w] \in Call /\ call[w].guest = g /\ rules[g] \in Seq(Rule)
  BY <1>3, ListIsKnown
<1>5. CASE CreateRule(w)
  BY <1>3, <1>4, <1>5, CreatedInCall
<1>6. CASE DeleteRule(w)
  BY <1>3, <1>4, <1>6, DeletedInCall
<1> QED
  BY <1>2, <1>5, <1>6

(* A lone caller changes only rules of its own name, one at a time         *)
(* (client.go:623).                                                        *)
THEOREM LoneLeavesOthers ==
  ASSUME LoneCaller
  PROVE  ClientSpec => OthersUntouched
<1>1. LoneInv /\ [ClientNext]_clientVars => [OthersUntouchedStep]_clientVars
  <2> SUFFICES ASSUME LoneInv, [ClientNext]_clientVars, NEW g \in Guests, rules'[g] # rules[g]
               PROVE  \E w \in Workers : /\ call[w] # NoCall /\ call[w].guest = g
                                        /\ OneRuleOf(call[w].name, rules[g], rules'[g])
    BY DEF OthersUntouchedStep
  <2>1. PICK w \in Workers :
          /\ call[w] \in Call /\ call[w].guest = g
          /\ \/ OneRuleOf(call[w].name, rules[g], rules'[g])
             \/ \E pos \in DOMAIN rules[g] :
                  Dooms(call[w], rules[g][pos]) /\ rules'[g] = Deleted(rules[g], pos)
    BY ListChanges, LoneCallerNext DEF LoneCaller
  <2>2. call[w] # NoCall
    BY <2>1 DEF NoCall, Call, NameCall, BootCall
  <2>3. ASSUME NEW pos \in DOMAIN rules[g], Dooms(call[w], rules[g][pos]), rules'[g] = Deleted(rules[g], pos)
        PROVE  OneRuleOf(call[w].name, rules[g], rules'[g])
    BY <2>1, <2>3, DoomsOwn DEF OneRuleOf
  <2> QED
    BY <2>1, <2>2, <2>3
<1> QED
  BY <1>1, LoneInvariant, PTL DEF ClientSpec, OthersUntouched

(* A lone caller that prunes never closes an address it is to keep         *)
(* (PruneStaleOutboundAllowsForFQDN).                                      *)
THEOREM LonePruneKeepsDesired ==
  ASSUME LoneCaller
  PROVE  ClientSpec => PruneKeepsDesired
<1> DEFINE Kept ==
      \A w \in Workers : \A d \in IPs :
       (/\ call[w] # NoCall /\ call[w].kind = "prune" /\ d \in call[w].dests
        /\ call'[w] = call[w]
        /\ <<call[w].name, d>> \in Opened(rules[call[w].guest]))
       => <<call[w].name, d>> \in Opened(rules'[call[w].guest])
<1>1. LoneInv /\ [ClientNext]_clientVars => [Kept]_clientVars
  <2> SUFFICES ASSUME LoneInv, [ClientNext]_clientVars, NEW v \in Workers, NEW d \in IPs,
                      call[v] # NoCall, call[v].kind = "prune", d \in call[v].dests,
                      <<call[v].name, d>> \in Opened(rules[call[v].guest])
               PROVE  <<call[v].name, d>> \in Opened(rules'[call[v].guest])
    OBVIOUS
  <2> DEFINE c == call[v]
  <2>1. c \in Call /\ c.guest \in Guests
    BY DEF LoneInv, ClientInv, ClientTypeOK, Call, NameCall, BootCall
  <2>2. CASE rules'[c.guest] = rules[c.guest]
    BY <2>2
  <2>3. CASE rules'[c.guest] # rules[c.guest]
    <3>0. PICK list \in Seq(Rule) : list = rules[c.guest]
      BY <2>1 DEF LoneInv, ClientInv, ClientTypeOK
    <3>1. PICK w \in Workers :
            \/ CreateRule(w)
            \/ \E pos \in DOMAIN list : Dooms(call[w], list[pos]) /\ rules'[c.guest] = Deleted(list, pos)
      BY <2>1, <2>3, <3>0, ListChanges, LoneCallerNext DEF LoneCaller
    <3>2. w = v
      BY DEF LoneCaller, AloneWithGuest
    <3>3. ~CreateRule(w)
      <4>1. SUFFICES ASSUME CreateRule(v) PROVE FALSE
        BY <3>2
      <4>2. PICK r \in creates[v] : TRUE
        BY <4>1 DEF CreateRule
      <4>3. r \in WantedRules(c)
        BY <4>1, <4>2 DEF CreateRule, LoneInv, InCall, Applying, NoneForgotten
      <4> QED
        BY <2>1, <4>3, WantedAre
    <3>4. PICK pos \in DOMAIN list : Dooms(c, list[pos]) /\ rules'[c.guest] = Deleted(list, pos)
      BY <3>1, <3>2, <3>3
    <3>5. PICK r \in ToSet(list) : r.owner \in Names /\ r.owner = c.name /\ r.dest = d
      BY <3>0 DEF Opened
    <3>6. PICK i \in DOMAIN list : list[i] = r
      BY <3>5 DEF ToSet
    <3>7. i # pos
      BY <3>4, <3>5, <3>6 DEF Dooms
    <3>8. PICK new : new = rules'[c.guest]
      OBVIOUS
    <3>9. \E j \in DOMAIN new : new[j] = r
      BY <3>4, <3>6, <3>7, <3>8, DeletedHas
    <3> QED
      BY <3>5, <3>8, <3>9 DEF Opened, ToSet
  <2> QED
    BY <2>2, <2>3
<1> QED
  BY <1>1, LoneInvariant, PTL DEF ClientSpec, PruneKeepsDesired
=============================================================================
