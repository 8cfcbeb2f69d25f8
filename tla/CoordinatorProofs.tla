------------------------- MODULE CoordinatorProofs -------------------------
(***************************************************************************)
(* The firewall opens only what is justified, and the rule list cache      *)
(* stays coherent under the coordinator's handlers: for every number of    *)
(* handlers, guests, names and addresses, all texts the operator may save  *)
(* or write, and every bound on faults, edits and restarts.                *)
(*                                                                         *)
(* First the groundwork: to the rule client every step of the coordinator  *)
(* is a step of some worker, a stutter or a restart, so the client's       *)
(* invariant holds in the composition; and every step is well typed, with  *)
(* each handler's local variables fitting where it is.                     *)
(***************************************************************************)
EXTENDS Coordinator, RuleClientProofs

(* The calls the handlers make. *)

LEMMA RemoveAllIsCall ==
  ASSUME NEW n \in Names
  PROVE  RemoveAllManaged(Target, n) \in Call /\ CallJustified(RemoveAllManaged(Target, n))
  BY CoordinatorAssumption
     DEF RemoveAllManaged, Call, NameCall, Families, CallJustified

LEMMA BootstrapIsCall ==
  ASSUME NEW host \in Hosts
  PROVE  EnsureBootstrapDNS(Target, host) \in Call
         /\ CallJustified(EnsureBootstrapDNS(Target, host))
  BY CoordinatorAssumption
     DEF EnsureBootstrapDNS, Call, BootCall, Families, CallJustified

LEMMA SyncIsCall ==
  ASSUME NEW n \in Names, NEW ip \in IPs
  PROVE  /\ SyncOutboundAllow(Target, n, ip) \in Call
         /\ n \in approved /\ <<n, ip>> \in answered => CallJustified(SyncOutboundAllow(Target, n, ip))
  BY CoordinatorAssumption
     DEF SyncOutboundAllow, IPFamilyFromIP, Call, NameCall, Families, CallJustified

LEMMA AnswerTyped ==
  ASSUME NEW a \in Answers
  PROVE  a.ips \in SUBSET IPs /\ a.seen \in SUBSET Families
  BY CoordinatorAssumption

LEMMA AnswerCallsAreCalls ==
  ASSUME NEW n \in Names, NEW a \in Answers, NEW ok
  PROVE  AnswerCalls(n, a, ok) \subseteq Call
<1>1. \A ip \in a.ips : RemoveDynamicRules(Target, n, ip) \in Call
  BY AnswerTyped, CoordinatorAssumption
     DEF RemoveDynamicRules, IPFamilyFromIP, Call, NameCall, Families
<1>2. \A f \in Families : PruneStale(Target, n, f, OfFamily(a.ips, f)) \in Call
  BY AnswerTyped, CoordinatorAssumption DEF PruneStale, OfFamily, Call, NameCall
<1> QED
  BY <1>1, <1>2, AnswerTyped, SyncIsCall DEF AnswerCalls

-----------------------------------------------------------------------------
(***************************************************************************)
(* Type correctness of the composition, with what it needs: a handler's    *)
(* local variables fit where it is.                                        *)
(***************************************************************************)
CoordTyped == ClientInv /\ CoordTypeOK /\ HandlersTyped

-----------------------------------------------------------------------------
(* To the rule client, every step of the coordinator is a step of some     *)
(* worker, a stutter, or the restart of the process.                       *)

LEMMA StepOfClient ==
  CoordTyped /\ [Next]_vars /\ ~Restart => [AnyClientNext]_clientVars
<1> SUFFICES ASSUME CoordTyped, Next, ~Restart
             PROVE  [AnyClientNext]_clientVars
  BY DEF vars
<1>1. ASSUME NEW w \in Workers, HandlerStart(w)
      PROVE  UNCHANGED clientVars
  BY <1>1 DEF HandlerStart, ApplyDNS, SaveMergedList, PeriodicRefresh, RunBootstrap
<1>2. ASSUME NEW w \in Workers, HandlerStep(w)
      PROVE  [AnyClientNext]_clientVars
  <2>1. CASE NextCall(w)
    BY <2>1 DEF NextCall, CoordTyped, CoordTypeOK, AnyClientNext
  <2>2. CASE CallReturned(w) \/ Revoked(w)
    BY <2>2 DEF CallReturned, Revoked, AnyClientNext
  <2>3. CASE RevokeNext(w)
    <3>1. PICK n \in task[w].revoke : Issue(w, RemoveAllManaged(Target, n))
      BY <2>3 DEF RevokeNext
    <3>2. n \in Names
      BY <2>3 DEF RevokeNext, CoordTyped, HandlersTyped, SaveTask
    <3>3. RemoveAllManaged(Target, n) \in Call
      BY <3>2, RemoveAllIsCall
    <3> QED
      BY <3>1, <3>3 DEF AnyClientNext
  <2>4. CASE CallStep(w)
    BY <2>4 DEF AnyClientNext
  <2>5. CASE \/ NoteDenied(w) \/ CallsDone(w) \/ PutDescription(w) \/ PutRejected(w)
             \/ PutReplyLost(w) \/ CommitSave(w) \/ GetGuestConfig(w)
             \/ GetGuestConfigFails(w) \/ MergeSeen(w) \/ StoreRefresh(w)
    BY <2>5 DEF NoteDenied, CallsDone, PutDescription, PutRejected, PutReplyLost, CommitSave,
                GetGuestConfig, GetGuestConfigFails, MergeSeen, StoreRefresh
  <2> QED
    BY <1>2, <2>1, <2>2, <2>3, <2>4, <2>5 DEF HandlerStep
<1>3. CASE EnvStep
  BY <1>3 DEF AnyClientNext
<1>4. ASSUME NEW desc, OperatorEditsNotes(desc)
      PROVE  UNCHANGED clientVars
  BY <1>4 DEF OperatorEditsNotes
<1> QED
  BY <1>1, <1>2, <1>3, <1>4 DEF Next

LEMMA RestartOfClient ==
  ASSUME ClientInv, Restart
  PROVE  ClientInv'
<1>1. <<>> \in Seq(Rule)
  OBVIOUS
<1>2. ClientTypeOK'
  BY <1>1 DEF ClientInv, ClientTypeOK, Restart, Dead
<1>3. InsideCall' /\ DoomedAreOurs'
  BY DEF Restart, InsideCall, DoomedAreOurs
<1>4. MutexGuardsFetch'
  BY ClientAssumption DEF Restart, MutexGuardsFetch, Dead
<1>5. FetchCoherent' /\ CacheCoherent'
  BY DEF Restart, FetchCoherent, CacheCoherent, Dead
<1> QED
  BY <1>2, <1>3, <1>4, <1>5 DEF ClientInv

LEMMA NextClientInv == CoordTyped /\ [Next]_vars => ClientInv'
<1>1. CoordTyped /\ [Next]_vars /\ ~Restart => ClientInv'
  BY StepOfClient, NextInv DEF CoordTyped
<1> QED
  BY <1>1, RestartOfClient DEF CoordTyped

-----------------------------------------------------------------------------
(* Lists and descriptions. *)

LEMMA ListTypes ==
  /\ EmptyList \in List /\ EmptyDesc \in Description
  /\ \A desc \in Description, list \in List : SpliceBlock(desc, list) \in Description
  /\ \A list \in List : \A seen : MergeSuggestedLines(list, seen) \in List
  /\ \A old, new : RevokedBySave(old, new) \subseteq Names
  /\ RefreshTask \in RefreshTasks
<1>1. EmptyList \in List
  BY DEF EmptyList, List, Status
<1>2. EmptyDesc \in Description
  BY <1>1 DEF EmptyDesc, Description
<1>3. \A desc \in Description, list \in List : SpliceBlock(desc, list) \in Description
  BY DEF SpliceBlock, Description
<1>4. \A list \in List : \A seen : MergeSuggestedLines(list, seen) \in List
  BY DEF MergeSuggestedLines, List, Status
<1>5. \A old, new : RevokedBySave(old, new) \subseteq Names
  BY DEF RevokedBySave, newlyRemovedFQDNs, newlyDeniedFQDNs, Allowed, Listed
<1> QED
  BY <1>1, <1>2, <1>3, <1>4, <1>5 DEF RefreshTask, RefreshTasks

LEMMA MergeAllows ==
  ASSUME NEW list \in List, NEW seen
  PROVE  Allowed(MergeSuggestedLines(list, seen)) \subseteq Allowed(list)
  BY DEF MergeSuggestedLines, Allowed

-----------------------------------------------------------------------------
(* What a step inside a call leaves alone. *)

LEMMA CallStepFrame ==
  ASSUME ClientInv, NEW w \in Workers, CallStep(w)
  PROVE  /\ pc[w] # "idle" /\ pc'[w] # "idle" /\ call[w] \in Call
         /\ \A v \in Workers : v # w =>
              /\ pc'[v] = pc[v] /\ call'[v] = call[v] /\ view'[v] = view[v]
              /\ creates'[v] = creates[v] /\ deletes'[v] = deletes[v] /\ removed'[v] = removed[v]
         /\ call'[w].kind = call[w].kind /\ call'[w].name = call[w].name
         /\ call'[w].guest = call[w].guest /\ call'[w].dests = call[w].dests
<1> USE DEF ClientInv, ClientTypeOK
<1>1. pc[w] # "idle"
  BY DEF CallStep, ListHit, ListMiss, GetAnswered, GetFails, Store, Invalidate, CreateRule,
         DeleteRule, DeleteOutOfRange, ChangeRejected, ChangeReplyLost, EndPass
<1>2. call[w] \in Call
  BY <1>1 DEF InsideCall
<1>3. CASE EndPass(w)
  <2>1. /\ NextPass(call[w]).kind = call[w].kind /\ NextPass(call[w]).name = call[w].name
        /\ NextPass(call[w]).guest = call[w].guest /\ NextPass(call[w]).dests = call[w].dests
    BY <1>2 DEF NextPass, Call, NameCall, BootCall
  <2>2. call' \in {call, [call EXCEPT ![w] = NextPass(@)]}
    BY <1>3 DEF EndPass
  <2>3. pc' \in {[pc EXCEPT ![w] = "list"], [pc EXCEPT ![w] = "done"]}
    BY <1>3 DEF EndPass, Goto
  <2>4. /\ view' = [view EXCEPT ![w] = <<>>]
        /\ creates' = [creates EXCEPT ![w] = {}]
        /\ deletes' = [deletes EXCEPT ![w] = {}]
        /\ removed' = removed
    BY <1>3 DEF EndPass, Drop
  <2> QED
    BY <1>1, <1>2, <2>1, <2>2, <2>3, <2>4
<1>4. CASE ListHit(w) \/ ListMiss(w) \/ GetAnswered(w) \/ Store(w) \/ Invalidate(w)
  BY <1>1, <1>2, <1>4 DEF ListHit, ListMiss, GetAnswered, Store, Invalidate, Decide, Goto
<1>5. CASE CreateRule(w) \/ DeleteRule(w)
  BY <1>1, <1>2, <1>5 DEF CreateRule, DeleteRule, AfterChange, Goto
<1>6. CASE GetFails(w) \/ DeleteOutOfRange(w) \/ ChangeRejected(w) \/ ChangeReplyLost(w)
  <2>1. Abort(w)
    BY <1>6 DEF GetFails, DeleteOutOfRange, ChangeRejected, ChangeReplyLost
  <2> QED
    BY <1>1, <1>2, <2>1 DEF Abort, Drop, Goto
<1> QED
  BY <1>3, <1>4, <1>5, <1>6 DEF CallStep

-----------------------------------------------------------------------------
(* What a handler does to its own local variables. *)

Tasks  == DnsTask \cup SaveTask \cup RefreshTasks \cup OtherTask
Labels == {"none", "note", "calls", "put", "revoke", "get", "merge", "store"}

\* The task t fits the label.
Fits(label, t) ==
  /\ label = "note" => t \in DnsTask
  /\ label \in {"put", "revoke"} => t \in SaveTask
  /\ label \in {"get", "merge", "store"} => t \in RefreshTasks

LEMMA BecomeTyped ==
  ASSUME CoordTyped, NEW w \in Workers, pc[w] = "idle", UNCHANGED <<pc, call>>,
         NEW label \in Labels, NEW t \in Tasks, NEW calls \in SUBSET Call,
         Fits(label, t), Become(w, label, t, calls)
  PROVE  /\ step' \in [Workers -> Labels] /\ task' \in [Workers -> Tasks]
         /\ todo' \in [Workers -> SUBSET Call]
         /\ HandlersTyped'
<1>1. step \in [Workers -> Labels] /\ task \in [Workers -> Tasks] /\ todo \in [Workers -> SUBSET Call]
  BY DEF CoordTyped, CoordTypeOK, Labels, Tasks
<1>2. /\ step' \in [Workers -> Labels] /\ task' \in [Workers -> Tasks]
      /\ todo' \in [Workers -> SUBSET Call]
      /\ step'[w] = label /\ task'[w] = t
      /\ \A v \in Workers : v # w => step'[v] = step[v] /\ task'[v] = task[v]
  BY <1>1 DEF Become
<1>3. HandlersTyped'
  BY <1>2 DEF CoordTyped, HandlersTyped, Fits
<1> QED
  BY <1>2, <1>3

\* The label and the task alone.
LEMMA MoveTyped ==
  ASSUME CoordTyped, NEW w \in Workers, pc[w] = "idle", UNCHANGED <<pc, call, todo>>,
         NEW label \in Labels, NEW t \in Tasks, Fits(label, t),
         step' = [step EXCEPT ![w] = label], task' = [task EXCEPT ![w] = t]
  PROVE  /\ step' \in [Workers -> Labels] /\ task' \in [Workers -> Tasks]
         /\ todo' \in [Workers -> SUBSET Call]
         /\ HandlersTyped'
<1>1. todo[w] \in SUBSET Call /\ todo = [todo EXCEPT ![w] = todo[w]]
  BY DEF CoordTyped, CoordTypeOK
<1> QED
  BY <1>1, BecomeTyped DEF Become

-----------------------------------------------------------------------------
(* Every step is well typed. *)

LEMMA StartTyped ==
  ASSUME CoordTyped, NEW w \in Workers, HandlerStart(w)
  PROVE  CoordTypeOK' /\ HandlersTyped'
<1> USE DEF CoordTyped, Labels
<1>0. pc[w] = "idle" /\ UNCHANGED <<pc, call>>
  BY DEF HandlerStart, ApplyDNS, SaveMergedList, PeriodicRefresh, RunBootstrap, HandlersTyped,
         clientVars, workVars
<1>1. ASSUME NEW n \in Names, NEW a \in Answers, ApplyDNS(w, n, a)
      PROVE  CoordTypeOK' /\ HandlersTyped'
  <2> DEFINE ok == n \in Allowed(lastList)
             t  == [kind |-> "dns", name |-> n, ips |-> a.ips]
  <2>1. a.ips \in SUBSET IPs /\ t \in DnsTask
    BY AnswerTyped DEF DnsTask
  <2>2. AnswerCalls(n, a, ok) \in SUBSET Call
    BY AnswerCallsAreCalls
  <2>3. Become(w, IF ok THEN "calls" ELSE "note", t, AnswerCalls(n, a, ok))
    BY <1>1 DEF ApplyDNS
  <2>4. t \in Tasks /\ Fits(IF ok THEN "calls" ELSE "note", t)
    BY <2>1 DEF Tasks, Fits
  <2> HIDE DEF t, ok
  <2>5. /\ step' \in [Workers -> Labels] /\ task' \in [Workers -> Tasks]
        /\ todo' \in [Workers -> SUBSET Call] /\ HandlersTyped'
    BY <1>0, <2>2, <2>3, <2>4, BecomeTyped
  <2>6. current' \in [Names -> SUBSET IPs]
    <3>1. \E s \in SUBSET IPs : current' = [current EXCEPT ![n] = s]
      BY <1>1, <2>1 DEF ApplyDNS, CoordTypeOK, OtherFamilies
    <3> QED
      BY <3>1 DEF CoordTypeOK
  <2>7. answered' \subseteq Names \X IPs
    BY <1>1, <2>1 DEF ApplyDNS, CoordTypeOK
  <2>8. forgotten' \in [Names -> SUBSET Families]
    <3>1. \E s \in SUBSET Families : forgotten' = [forgotten EXCEPT ![n] = s]
      BY <1>1 DEF ApplyDNS, CoordTypeOK, FamiliesOf
    <3> QED
      BY <3>1 DEF CoordTypeOK
  <2> QED
    BY <1>1, <2>5, <2>6, <2>7, <2>8 DEF ApplyDNS, memoryVars, CoordTypeOK, Tasks
<1>2. ASSUME NEW text \in SaveTexts, SaveMergedList(w, text)
      PROVE  CoordTypeOK' /\ HandlersTyped'
  <2> DEFINE t == [kind |-> "save", text |-> text, old |-> lastList, desc |-> lastDesc,
                   digest |-> lastDigest, revoke |-> RevokedBySave(lastList, text)]
  <2>1. t \in SaveTask
    BY CoordinatorAssumption, ListTypes DEF SaveTask, CoordTypeOK
  <2>2. Become(w, "put", t, {})
    BY <1>2 DEF SaveMergedList
  <2>3. t \in Tasks /\ Fits("put", t)
    BY <2>1 DEF Tasks, Fits
  <2> HIDE DEF t
  <2>4. /\ step' \in [Workers -> Labels] /\ task' \in [Workers -> Tasks]
        /\ todo' \in [Workers -> SUBSET Call] /\ HandlersTyped'
    BY <1>0, <2>2, <2>3, BecomeTyped
  <2> QED
    BY <1>2, <2>4 DEF SaveMergedList, memoryVars, ghostVars, CoordTypeOK, Tasks
<1>3. CASE PeriodicRefresh(w)
  <2>1. RefreshTask \in Tasks /\ Fits("get", RefreshTask)
    BY ListTypes DEF Tasks, Fits
  <2>2. /\ step' \in [Workers -> Labels] /\ task' \in [Workers -> Tasks]
        /\ todo' \in [Workers -> SUBSET Call] /\ HandlersTyped'
    BY <1>0, <1>3, <2>1, BecomeTyped DEF PeriodicRefresh
  <2> QED
    BY <1>3, <2>2 DEF PeriodicRefresh, memoryVars, ghostVars, CoordTypeOK, Tasks
<1>4. ASSUME NEW host \in Hosts, RunBootstrap(w, host)
      PROVE  CoordTypeOK' /\ HandlersTyped'
  <2>1. [kind |-> "bootstrap"] \in Tasks /\ Fits("calls", [kind |-> "bootstrap"])
    BY DEF Tasks, OtherTask, Fits
  <2>2. {EnsureBootstrapDNS(Target, host)} \in SUBSET Call
    BY BootstrapIsCall
  <2>3. /\ step' \in [Workers -> Labels] /\ task' \in [Workers -> Tasks]
        /\ todo' \in [Workers -> SUBSET Call] /\ HandlersTyped'
    BY <1>0, <1>4, <2>1, <2>2, BecomeTyped DEF RunBootstrap
  <2> QED
    BY <1>4, <2>3 DEF RunBootstrap, memoryVars, ghostVars, CoordTypeOK, Tasks
<1> QED
  BY <1>1, <1>2, <1>3, <1>4 DEF HandlerStart

\* A client step of w keeps the labels' part of the type invariant when it
\* starts no call outside "calls" and "revoke".
LEMMA CallsTyped ==
  ASSUME CoordTyped, NEW w \in Workers, step' = step, task' \in [Workers -> Tasks],
         step[w] \in {"calls", "revoke"}, step[w] = "revoke" => task'[w] \in SaveTask,
         \A v \in Workers : v # w => task'[v] = task[v] /\ pc'[v] = pc[v] /\ call'[v] = call[v],
         step[w] = "revoke" /\ pc'[w] # "idle" => call'[w].kind = "removeAll"
  PROVE  HandlersTyped'
  BY DEF CoordTyped, HandlersTyped

LEMMA StepTyped ==
  ASSUME CoordTyped, AddressesAnswered, NEW w \in Workers, HandlerStep(w)
  PROVE  CoordTypeOK' /\ HandlersTyped'
<1> USE DEF CoordTyped, Labels
<1>t. /\ step \in [Workers -> Labels] /\ task \in [Workers -> Tasks]
      /\ pc \in [Workers -> {"idle", "list", "get", "store", "apply", "invalidate", "done"}]
      /\ call \in [Workers -> Call \cup {NoCall}]
  BY DEF CoordTypeOK, Tasks, ClientInv, ClientTypeOK
<1>1. CASE NoteDenied(w)
  <2>1. step[w] = "note" /\ task[w] \in DnsTask /\ pc[w] = "idle"
    BY <1>1 DEF NoteDenied, HandlersTyped
  <2>2. UNCHANGED <<pc, call, todo>> /\ task' = [task EXCEPT ![w] = task[w]]
    BY <1>1, <1>t DEF NoteDenied, At, clientVars, workVars
  <2>3. task[w] \in Tasks /\ Fits("calls", task[w])
    BY <2>1 DEF Tasks, Fits
  <2>4. /\ step' \in [Workers -> Labels] /\ task' \in [Workers -> Tasks]
        /\ todo' \in [Workers -> SUBSET Call] /\ HandlersTyped'
    BY <1>1, <2>1, <2>2, <2>3, MoveTyped DEF NoteDenied, At
  <2>5. Seen' \subseteq Names /\ rejected' \in [Names -> SUBSET IPs]
    BY <1>1, <2>1 DEF NoteDenied, CoordTypeOK, DnsTask
  <2> QED
    BY <1>1, <2>4, <2>5 DEF NoteDenied, ghostVars, CoordTypeOK, Tasks
<1>2. CASE NextCall(w)
  <2>1. PICK c \in todo[w] : Issue(w, c) /\ todo' = [todo EXCEPT ![w] = @ \ {c}]
    BY <1>2 DEF NextCall
  <2>2. HandlersTyped'
    BY <1>2, <1>t, <2>1, CallsTyped DEF NextCall, Issue, Goto
  <2> QED
    BY <1>2, <2>1, <2>2 DEF NextCall, memoryVars, ghostVars, CoordTypeOK
<1>3. CASE CallReturned(w)
  <2>1. HandlersTyped'
    BY <1>3, <1>t, CallsTyped DEF CallReturned, Return, Goto, coordVars, handlerVars
  <2> QED
    BY <1>3, <2>1 DEF CallReturned, coordVars, memoryVars, handlerVars, ghostVars, CoordTypeOK
<1>4. CASE CallsDone(w)
  <2>1. /\ RefreshTask \in Tasks /\ Fits("get", RefreshTask)
        /\ NoTask \in Tasks /\ Fits("none", NoTask)
    BY ListTypes DEF Tasks, Fits, NoTask, OtherTask
  <2>2. \/ Become(w, "get", RefreshTask, {})
        \/ Become(w, "none", NoTask, {})
    BY <1>4 DEF CallsDone, Finish
  <2>3. /\ step' \in [Workers -> Labels] /\ task' \in [Workers -> Tasks]
        /\ todo' \in [Workers -> SUBSET Call] /\ HandlersTyped'
    BY <1>4, <2>1, <2>2, BecomeTyped DEF CallsDone, clientVars, workVars
  <2> QED
    BY <1>4, <2>3 DEF CallsDone, memoryVars, ghostVars, CoordTypeOK, Tasks
<1>5. CASE PutDescription(w) \/ PutRejected(w) \/ PutReplyLost(w)
  <2>1. step[w] = "put" /\ task[w] \in SaveTask /\ pc[w] = "idle" /\ UNCHANGED <<pc, call>>
    BY <1>5 DEF PutDescription, PutRejected, PutReplyLost, HandlersTyped, clientVars, workVars
  <2>2. /\ NoTask \in Tasks /\ Fits("none", NoTask)
        /\ task[w] \in Tasks /\ Fits("revoke", task[w])
    BY <2>1 DEF Tasks, Fits, NoTask, OtherTask
  <2>3. /\ step' \in [Workers -> Labels] /\ task' \in [Workers -> Tasks]
        /\ todo' \in [Workers -> SUBSET Call] /\ HandlersTyped'
    <3>1. CASE PutDescription(w)
      <4>1. todo' = todo /\ task' = [task EXCEPT ![w] = task[w]]
        BY <1>t, <3>1 DEF PutDescription, At
      <4> QED
        BY <2>1, <2>2, <3>1, <4>1, MoveTyped DEF PutDescription, At
    <3>2. CASE PutRejected(w) \/ PutReplyLost(w)
      BY <2>1, <2>2, <3>2, BecomeTyped DEF PutRejected, PutReplyLost, Finish
    <3> QED
      BY <1>5, <3>1, <3>2
  <2>4. server' \in Description /\ approved' \subseteq Names
    <3>1. SpliceBlock(task[w].desc, task[w].text) \in Description
      BY <2>1, ListTypes DEF SaveTask
    <3> QED
      BY <1>5, <3>1 DEF PutDescription, PutRejected, PutReplyLost, StoreDescription, ghostVars,
                        Allowed, CoordTypeOK
  <2>5. hits' \in [faults : Nat, edits : Nat, restarts : Nat]
    BY <1>5 DEF PutDescription, PutRejected, PutReplyLost, CoordTypeOK
  <2> QED
    BY <1>5, <2>3, <2>4, <2>5
       DEF PutDescription, PutRejected, PutReplyLost, StoreDescription, memoryVars, ghostVars,
           CoordTypeOK, Tasks
<1>6. CASE RevokeNext(w)
  <2>1. PICK n \in task[w].revoke : /\ Issue(w, RemoveAllManaged(Target, n))
                                   /\ task' = [task EXCEPT ![w].revoke = @ \ {n}]
    BY <1>6 DEF RevokeNext
  <2>2. task[w] \in SaveTask /\ step[w] = "revoke"
    BY <1>6 DEF RevokeNext, HandlersTyped
  <2>3. [task[w] EXCEPT !.revoke = @ \ {n}] \in SaveTask
    BY <2>2 DEF SaveTask
  <2>4. task' = [task EXCEPT ![w] = [task[w] EXCEPT !.revoke = @ \ {n}]]
    BY <2>1
  <2>5. task' \in [Workers -> Tasks] /\ task'[w] \in SaveTask
        /\ \A v \in Workers : v # w => task'[v] = task[v]
    BY <1>t, <2>3, <2>4 DEF Tasks
  <2>6. call'[w].kind = "removeAll" /\ \A v \in Workers : v # w => pc'[v] = pc[v] /\ call'[v] = call[v]
    BY <1>t, <2>1 DEF Issue, Goto, RemoveAllManaged
  <2>7. HandlersTyped'
    BY <1>6, <2>2, <2>5, <2>6, CallsTyped DEF RevokeNext
  <2> QED
    BY <1>6, <2>5, <2>7 DEF RevokeNext, memoryVars, ghostVars, CoordTypeOK, Tasks
<1>7. CASE Revoked(w)
  <2>1. step[w] = "revoke" /\ task[w] \in SaveTask /\ call[w].kind = "removeAll" /\ pc[w] = "done"
    BY <1>7 DEF Revoked, Return, HandlersTyped
  <2>2. call[w] \in NameCall /\ call[w].name \in Names
    BY <2>1 DEF ClientInv, InsideCall, Call, NameCall, BootCall
  <2>3. {call[w].name} \X removed[w] \subseteq answered
    BY <2>1, <2>2 DEF NameCall, AddressesAnswered
  <2>4. removed[w] \subseteq IPs
    <3> SUFFICES ASSUME NEW ip \in removed[w]
                 PROVE  ip \in IPs
      OBVIOUS
    <3>1. <<call[w].name, ip>> \in answered
      BY <2>3
    <3>2. <<call[w].name, ip>> \in Names \X IPs
      BY <3>1 DEF CoordTypeOK
    <3> QED
      BY <3>2
  <2>5. HandlersTyped'
    BY <1>7, <1>t, <2>1, CallsTyped DEF Revoked, Return, Goto, handlerVars
  <2>6. /\ Seen' \subseteq Names
        /\ \E ips \in SUBSET IPs : rejected' \in {rejected, [rejected EXCEPT ![call[w].name] = ips]}
        /\ \E fs \in SUBSET Families : forgotten' \in {forgotten, [forgotten EXCEPT ![call[w].name] = fs]}
    BY <1>7, <2>2, <2>4 DEF Revoked, CoordTypeOK, FamiliesOf
  <2>7. rejected' \in [Names -> SUBSET IPs] /\ forgotten' \in [Names -> SUBSET Families]
    BY <2>2, <2>6 DEF CoordTypeOK
  <2> QED
    BY <1>7, <2>5, <2>6, <2>7 DEF Revoked, handlerVars, CoordTypeOK
<1>8. CASE CommitSave(w)
  <2> DEFINE newly == newlyAllowedFQDNs(task[w].old, task[w].text)
             syncs == UNION {{SyncOutboundAllow(Target, n, ip) : ip \in rejected[n]} : n \in newly}
  <2>1. task[w] \in SaveTask /\ step[w] = "revoke" /\ pc[w] = "idle" /\ UNCHANGED <<pc, call>>
    BY <1>8 DEF CommitSave, HandlersTyped, clientVars, workVars
  <2>2. newly \subseteq Names
    BY DEF newlyAllowedFQDNs, Allowed
  <2>3. syncs \in SUBSET Call
    <3>1. ASSUME NEW n \in newly, NEW ip \in rejected[n]
          PROVE  SyncOutboundAllow(Target, n, ip) \in Call
      <4>1. n \in Names /\ ip \in IPs
        BY <2>2 DEF CoordTypeOK
      <4> QED
        BY <4>1, SyncIsCall
    <3> HIDE DEF newly
    <3> QED
      BY <3>1
  <2>4. Become(w, "calls", task[w], syncs)
    BY <1>8 DEF CommitSave
  <2>5. lastDesc' \in Description /\ lastList' \in List
    BY <1>8, <2>1, ListTypes DEF CommitSave, SaveTask
  <2>6. rejected' \in [Names -> SUBSET IPs]
    BY <1>8 DEF CommitSave, CoordTypeOK
  <2> HIDE DEF syncs
  <2>7. task[w] \in Tasks /\ Fits("calls", task[w])
    BY <2>1 DEF Tasks, Fits
  <2>8. /\ step' \in [Workers -> Labels] /\ task' \in [Workers -> Tasks]
        /\ todo' \in [Workers -> SUBSET Call] /\ HandlersTyped'
    BY <2>1, <2>3, <2>4, <2>7, BecomeTyped
  <2> QED
    BY <1>8, <2>5, <2>6, <2>8 DEF CommitSave, ghostVars, CoordTypeOK, Tasks
<1>9. CASE GetGuestConfig(w) \/ MergeSeen(w)
  <2>1. task[w] \in RefreshTasks /\ pc[w] = "idle" /\ UNCHANGED <<pc, call, todo>>
    BY <1>9 DEF GetGuestConfig, MergeSeen, HandlersTyped, clientVars, workVars
  <2>2. PICK label \in {"merge", "store"}, t \in RefreshTasks :
          step' = [step EXCEPT ![w] = label] /\ task' = [task EXCEPT ![w] = t]
    <3>1. CASE GetGuestConfig(w)
      <4>1. [task[w] EXCEPT !.got = server] \in RefreshTasks
        BY <2>1 DEF RefreshTasks, CoordTypeOK
      <4>2. task' = [task EXCEPT ![w] = [task[w] EXCEPT !.got = server]]
        BY <3>1 DEF GetGuestConfig
      <4> QED
        BY <3>1, <4>1, <4>2 DEF GetGuestConfig
    <3>2. CASE MergeSeen(w)
      <4>1. MergeSuggestedLines(task[w].got.list, Seen) \in List
        BY <2>1, ListTypes DEF RefreshTasks, Description
      <4>2. [task[w] EXCEPT !.merged = MergeSuggestedLines(task[w].got.list, Seen)] \in RefreshTasks
        BY <2>1, <4>1 DEF RefreshTasks
      <4>3. task' = [task EXCEPT ![w] =
              [task[w] EXCEPT !.merged = MergeSuggestedLines(task[w].got.list, Seen)]]
        BY <3>2 DEF MergeSeen
      <4> QED
        BY <3>2, <4>2, <4>3 DEF MergeSeen
    <3> QED
      BY <1>9, <3>1, <3>2
  <2>3. t \in Tasks /\ Fits(label, t)
    BY DEF Tasks, Fits
  <2>4. /\ step' \in [Workers -> Labels] /\ task' \in [Workers -> Tasks]
        /\ todo' \in [Workers -> SUBSET Call] /\ HandlersTyped'
    BY <2>1, <2>2, <2>3, MoveTyped
  <2> QED
    BY <1>9, <2>4 DEF GetGuestConfig, MergeSeen, memoryVars, ghostVars, CoordTypeOK, Tasks
<1>10. CASE GetGuestConfigFails(w) \/ StoreRefresh(w)
  <2>1. task[w] \in RefreshTasks /\ pc[w] = "idle" /\ UNCHANGED <<pc, call>>
    BY <1>10 DEF GetGuestConfigFails, StoreRefresh, HandlersTyped, clientVars, workVars
  <2>2. NoTask \in Tasks /\ Fits("none", NoTask)
    BY DEF Tasks, Fits, NoTask, OtherTask
  <2>3. /\ step' \in [Workers -> Labels] /\ task' \in [Workers -> Tasks]
        /\ todo' \in [Workers -> SUBSET Call] /\ HandlersTyped'
    BY <1>10, <2>1, <2>2, BecomeTyped DEF GetGuestConfigFails, StoreRefresh, Finish
  <2>4. lastDesc' \in Description /\ lastDigest' \subseteq Description /\ lastList' \in List
    BY <1>10, <2>1 DEF GetGuestConfigFails, StoreRefresh, memoryVars, RefreshTasks, CoordTypeOK
  <2> QED
    BY <1>10, <2>3, <2>4
       DEF GetGuestConfigFails, StoreRefresh, memoryVars, ghostVars, CoordTypeOK, Tasks
<1>11. CASE CallStep(w) /\ UNCHANGED coordVars
  <2>1. HandlersTyped'
    BY <1>11, CallStepFrame DEF coordVars, handlerVars, HandlersTyped
  <2> QED
    BY <1>11, <2>1 DEF coordVars, memoryVars, handlerVars, ghostVars, CoordTypeOK
<1> QED
  BY <1>1, <1>2, <1>3, <1>4, <1>5, <1>6, <1>7, <1>8, <1>9, <1>10, <1>11 DEF HandlerStep

LEMMA OthersTyped ==
  ASSUME CoordTyped,
         \/ EnvStep /\ UNCHANGED coordVars
         \/ \E desc \in EditedDescriptions : OperatorEditsNotes(desc)
         \/ Restart
         \/ UNCHANGED vars
  PROVE  CoordTypeOK' /\ HandlersTyped'
<1> USE DEF CoordTyped, coordVars, memoryVars, handlerVars, ghostVars
<1>1. CASE EnvStep /\ UNCHANGED coordVars
  <2>1. UNCHANGED <<pc, call>>
    BY <1>1 DEF EnvStep, Expire, OperatorEdits, workVars
  <2> QED
    BY <1>1, <2>1 DEF CoordTypeOK, HandlersTyped
<1>2. ASSUME NEW desc \in EditedDescriptions, OperatorEditsNotes(desc)
      PROVE  CoordTypeOK' /\ HandlersTyped'
  <2>1. desc \in Description
    BY CoordinatorAssumption DEF EditedDescriptions, Description, CoordTypeOK
  <2> QED
    BY <1>2, <2>1
       DEF OperatorEditsNotes, clientVars, workVars, CoordTypeOK, HandlersTyped, Allowed
<1>3. CASE Restart
  <2>1. NoTask \in OtherTask
    BY DEF NoTask, OtherTask
  <2> QED
    BY <1>3, <2>1, ListTypes DEF Restart, NoDigest, CoordTypeOK, HandlersTyped
<1>4. CASE UNCHANGED vars
  BY <1>4 DEF vars, clientVars, workVars, CoordTypeOK, HandlersTyped
<1> QED
  BY <1>1, <1>2, <1>3, <1>4

LEMMA NextCoordTyped ==
  CoordTyped /\ AddressesAnswered /\ [Next]_vars => CoordTyped'
<1> SUFFICES ASSUME CoordTyped, AddressesAnswered, [Next]_vars
             PROVE  CoordTypeOK' /\ HandlersTyped'
  BY NextClientInv DEF CoordTyped
<1> QED
  BY StartTyped, StepTyped, OthersTyped DEF Next

-----------------------------------------------------------------------------
(* What a list opens, and how a request changes it. *)

LEMMA OpenedTyped ==
  ASSUME NEW list \in Seq(Rule)
  PROVE  /\ Opened(list) \subseteq Names \X IPs
         /\ \A i \in DOMAIN list :
              list[i].owner \in Names => <<list[i].owner, list[i].dest>> \in Opened(list)
<1>1. \A i \in DOMAIN list : list[i] \in Rule
  BY ElementOfSeq
<1>2. \A r \in Rule : r.owner \in Names => r.dest \in IPs
  BY RulesAssumption DEF Rule, DynamicRule, BootstrapRule, OperatorRule, Bootstrap, Operator
<1> QED
  BY <1>1, <1>2 DEF Opened, ToSet

LEMMA OpenedEmpty == Opened(<<>>) = {}
  BY DEF Opened, ToSet

LEMMA OpenedCreated ==
  ASSUME NEW list \in Seq(Rule), NEW r \in Rule, NEW p \in Opened(Created(list, r))
  PROVE  p \in Opened(list) \/ (r.owner \in Names /\ p = <<r.owner, r.dest>>)
<1>1. PICK i \in DOMAIN Created(list, r) :
        /\ Created(list, r)[i].owner \in Names
        /\ p = <<Created(list, r)[i].owner, Created(list, r)[i].dest>>
  BY DEF Opened, ToSet
<1>2. \/ Created(list, r)[i] = r
      \/ \E j \in DOMAIN list : Created(list, r)[i] = list[j]
  BY <1>1 DEF Created
<1> QED
  BY <1>1, <1>2 DEF Opened, ToSet

LEMMA OpenedRemoved ==
  ASSUME NEW list \in Seq(Rule), NEW pos \in DOMAIN list
  PROVE  Opened(RemoveAt(list, pos)) \subseteq Opened(list)
<1> DEFINE front == SubSeq(list, 1, pos - 1)
           back  == SubSeq(list, pos + 1, Len(list))
<1>1. /\ front \in Seq(Rule) /\ Len(front) = pos - 1
      /\ \A k \in 1..(pos - 1) : front[k] = list[k]
  BY SubSeqProperties
<1>2. /\ back \in Seq(Rule) /\ Len(back) = Len(list) - pos
      /\ \A k \in 1..(Len(list) - pos) : back[k] = list[pos + k]
  BY SubSeqProperties
<1> HIDE DEF front, back
<1>3. ASSUME NEW i \in DOMAIN (front \o back)
      PROVE  \E j \in DOMAIN list : (front \o back)[i] = list[j]
  <2>1. CASE i <= pos - 1
    BY <1>1, <1>2, <2>1
  <2>2. CASE i > pos - 1
    <3>1. (front \o back)[i] = back[i - (pos - 1)] /\ i - (pos - 1) \in 1..(Len(list) - pos)
      BY <1>1, <1>2, <2>2
    <3>2. pos + (i - (pos - 1)) \in DOMAIN list
      BY <3>1
    <3> QED
      BY <1>2, <3>1, <3>2
  <2> QED
    BY <1>1, <1>2, <2>1, <2>2
<1>4. RemoveAt(list, pos) = front \o back
  BY DEF RemoveAt, front, back
<1> QED
  BY <1>3, <1>4 DEF Opened, ToSet

-----------------------------------------------------------------------------
(* The lists in the program's memory enable only approved names. *)

\* It is enough to look at what changes: the shared lists and one handler.
LEMMA ApprovedKept ==
  ASSUME ListsApproved, NEW w \in Workers, approved \subseteq approved',
         \A v \in Workers : v # w => step'[v] = step[v] /\ task'[v] = task[v],
         Allowed(server'.list) \subseteq approved', Allowed(lastList') \subseteq approved',
         step'[w] = "revoke" => Allowed(task'[w].text) \subseteq approved',
         step'[w] \in {"merge", "store"} => Allowed(task'[w].got.list) \subseteq approved',
         step'[w] = "store" => Allowed(task'[w].merged) \subseteq approved'
  PROVE  ListsApproved'
<1>1. ASSUME NEW v \in Workers, v # w
      PROVE  /\ step'[v] = "revoke" => Allowed(task'[v].text) \subseteq approved'
             /\ step'[v] \in {"merge", "store"} => Allowed(task'[v].got.list) \subseteq approved'
             /\ step'[v] = "store" => Allowed(task'[v].merged) \subseteq approved'
  BY <1>1 DEF ListsApproved
<1> QED
  BY <1>1 DEF ListsApproved, Allowed

LEMMA NextApproved ==
  CoordTyped /\ ListsApproved /\ [Next]_vars => ListsApproved'
<1> SUFFICES ASSUME CoordTyped, ListsApproved, [Next]_vars
             PROVE  ListsApproved'
  OBVIOUS
<1> USE DEF ghostVars, memoryVars
<1>t. step \in [Workers -> Labels] /\ task \in [Workers -> Tasks]
  BY DEF CoordTyped, CoordTypeOK, Labels, Tasks
<1>u. Allowed(server.list) \subseteq approved /\ Allowed(lastList) \subseteq approved
  BY DEF ListsApproved
<1>1. ASSUME NEW w \in Workers, HandlerStart(w)
      PROVE  ListsApproved'
  <2>1. /\ UNCHANGED <<server, lastList, approved>>
        /\ \A v \in Workers : v # w => step'[v] = step[v] /\ task'[v] = task[v]
        /\ step'[w] \in {"note", "calls", "put", "get"}
    BY <1>1, <1>t DEF HandlerStart, ApplyDNS, SaveMergedList, PeriodicRefresh, RunBootstrap, Become
  <2> QED
    BY <1>u, <2>1, ApprovedKept
<1>2. ASSUME NEW w \in Workers, HandlerStep(w)
      PROVE  ListsApproved'
  <2>1. CASE \/ NoteDenied(w) \/ CallsDone(w) \/ PutRejected(w) \/ GetGuestConfigFails(w)
             \/ NextCall(w) /\ step[w] = "calls"
             \/ CallReturned(w)
    <3>1. /\ UNCHANGED <<server, lastList, approved>>
          /\ \A v \in Workers : v # w => step'[v] = step[v] /\ task'[v] = task[v]
          /\ step'[w] \in {"none", "calls", "get"}
      BY <1>t, <2>1 DEF NoteDenied, CallsDone, PutRejected, GetGuestConfigFails, NextCall,
                        CallReturned, coordVars, handlerVars, Finish, Become, At
    <3> QED
      BY <1>u, <3>1, ApprovedKept
  <2>2. CASE Revoked(w) \/ (CallStep(w) /\ UNCHANGED coordVars)
    BY <2>2 DEF Revoked, coordVars, handlerVars, ListsApproved
  <2>3. CASE PutDescription(w) \/ PutReplyLost(w)
    <3>1. task[w] \in SaveTask
      BY <2>3 DEF PutDescription, PutReplyLost, CoordTyped, HandlersTyped
    <3>2. server'.list = task[w].text
      BY <2>3, <3>1 DEF PutDescription, PutReplyLost, StoreDescription, SpliceBlock, SaveTask,
                        Description
    <3>3. /\ approved' = approved \cup Allowed(task[w].text) /\ lastList' = lastList
          /\ \A v \in Workers : v # w => step'[v] = step[v] /\ task'[v] = task[v]
          /\ step'[w] = "none" \/ (step'[w] = "revoke" /\ task'[w] = task[w])
      BY <1>t, <2>3 DEF PutDescription, PutReplyLost, StoreDescription, Finish, Become, At
    <3> QED
      BY <1>u, <3>2, <3>3, ApprovedKept
  <2>4. CASE RevokeNext(w)
    <3>1. task[w] \in SaveTask /\ step[w] = "revoke"
      BY <2>4 DEF RevokeNext, CoordTyped, HandlersTyped
    <3>2. task'[w].text = task[w].text
      BY <1>t, <2>4, <3>1 DEF RevokeNext, SaveTask
    <3>3. /\ UNCHANGED <<server, lastList, approved, step>>
          /\ \A v \in Workers : v # w => task'[v] = task[v]
      BY <1>t, <2>4 DEF RevokeNext
    <3>4. Allowed(task[w].text) \subseteq approved
      BY <3>1 DEF ListsApproved
    <3> QED
      BY <1>u, <3>1, <3>2, <3>3, <3>4, ApprovedKept
  <2>5. CASE CommitSave(w)
    <3>1. Allowed(lastList') \subseteq approved
      BY <2>5 DEF CommitSave, ListsApproved
    <3>2. /\ UNCHANGED <<server, approved>> /\ step'[w] = "calls"
          /\ \A v \in Workers : v # w => step'[v] = step[v] /\ task'[v] = task[v]
      BY <1>t, <2>5 DEF CommitSave, Become
    <3> QED
      BY <1>u, <3>1, <3>2, ApprovedKept
  <2>6. CASE GetGuestConfig(w)
    <3>1. task[w] \in RefreshTasks
      BY <2>6 DEF GetGuestConfig, CoordTyped, HandlersTyped
    <3>2. /\ UNCHANGED <<server, lastList, approved>> /\ step'[w] = "merge"
          /\ task'[w].got = server
          /\ \A v \in Workers : v # w => step'[v] = step[v] /\ task'[v] = task[v]
      BY <1>t, <2>6, <3>1 DEF GetGuestConfig, RefreshTasks
    <3> QED
      BY <1>u, <3>2, ApprovedKept
  <2>7. CASE MergeSeen(w)
    <3>1. task[w] \in RefreshTasks /\ step[w] = "merge"
      BY <2>7 DEF MergeSeen, CoordTyped, HandlersTyped
    <3>2. /\ UNCHANGED <<server, lastList, approved>> /\ step'[w] = "store"
          /\ task'[w].got = task[w].got
          /\ task'[w].merged = MergeSuggestedLines(task[w].got.list, Seen)
          /\ \A v \in Workers : v # w => step'[v] = step[v] /\ task'[v] = task[v]
      BY <1>t, <2>7, <3>1 DEF MergeSeen, RefreshTasks
    <3>3. Allowed(task[w].got.list) \subseteq approved
      BY <3>1 DEF ListsApproved
    <3>4. Allowed(task'[w].merged) \subseteq approved
      <4>1. task[w].got.list \in List
        BY <3>1 DEF RefreshTasks, Description
      <4> QED
        BY <3>2, <3>3, <4>1, MergeAllows
    <3> QED
      BY <1>u, <3>2, <3>3, <3>4, ApprovedKept
  <2>8. CASE StoreRefresh(w)
    <3>1. Allowed(lastList') \subseteq approved
      BY <2>8 DEF StoreRefresh, ListsApproved
    <3>2. /\ UNCHANGED <<server, approved>> /\ step'[w] = "none"
          /\ \A v \in Workers : v # w => step'[v] = step[v] /\ task'[v] = task[v]
      BY <1>t, <2>8 DEF StoreRefresh, Finish, Become
    <3> QED
      BY <1>u, <3>1, <3>2, ApprovedKept
  <2> QED
    BY <1>2, <2>1, <2>2, <2>3, <2>4, <2>5, <2>6, <2>7, <2>8 DEF HandlerStep, NextCall
<1>3. CASE (EnvStep /\ UNCHANGED coordVars) \/ UNCHANGED vars
  BY <1>3 DEF vars, coordVars, handlerVars, ListsApproved
<1>4. ASSUME NEW desc \in EditedDescriptions, OperatorEditsNotes(desc)
      PROVE  ListsApproved'
  <2>1. /\ UNCHANGED <<lastList, step, task>>
        /\ approved \subseteq approved' /\ Allowed(server'.list) \subseteq approved'
    BY <1>4 DEF OperatorEditsNotes, handlerVars
  <2> QED
    BY <2>1 DEF ListsApproved, Allowed
<1>5. CASE Restart
  BY <1>5, <1>u DEF Restart, ListsApproved, EmptyList, Allowed
<1> QED
  BY <1>1, <1>2, <1>3, <1>4, <1>5 DEF Next

-----------------------------------------------------------------------------
(* Addresses come from answers, and what will open something is justified: *)
(* the steps inside a call.                                                *)

\* It is enough to look at what changes: what is shared and one worker.
LEMMA AnsweredKept ==
  ASSUME AddressesAnswered, NEW w \in Workers, answered \subseteq answered',
         \A v \in Workers : v # w =>
           /\ step'[v] = step[v] /\ task'[v] = task[v] /\ pc'[v] = pc[v] /\ call'[v] = call[v]
           /\ view'[v] = view[v] /\ deletes'[v] = deletes[v] /\ removed'[v] = removed[v],
         \A n \in Names : {n} \X rejected'[n] \subseteq answered',
         Opened(cache'.list) \subseteq answered',
         Opened(view'[w]) \subseteq answered',
         step'[w] = "note" => {task'[w].name} \X task'[w].ips \subseteq answered',
         pc'[w] = "idle" => removed'[w] = {},
         pc'[w] # "idle" /\ call'[w].kind # "bootstrap" =>
            /\ {call'[w].name} \X removed'[w] \subseteq answered'
            /\ \A pos \in deletes'[w] : <<call'[w].name, view'[w][pos].dest>> \in answered'
  PROVE  AddressesAnswered'
<1>1. ASSUME NEW v \in Workers, v # w
      PROVE  /\ Opened(view'[v]) \subseteq answered'
             /\ step'[v] = "note" => {task'[v].name} \X task'[v].ips \subseteq answered'
             /\ pc'[v] = "idle" => removed'[v] = {}
             /\ pc'[v] # "idle" /\ call'[v].kind # "bootstrap" =>
                  /\ {call'[v].name} \X removed'[v] \subseteq answered'
                  /\ \A pos \in deletes'[v] : <<call'[v].name, view'[v][pos].dest>> \in answered'
  BY <1>1 DEF AddressesAnswered
<1> QED
  BY <1>1 DEF AddressesAnswered, Opened

LEMMA JustifiedKept ==
  ASSUME CallsJustified, NEW w \in Workers,
         approved \subseteq approved', answered \subseteq answered',
         \A v \in Workers : v # w =>
           /\ todo'[v] = todo[v] /\ pc'[v] = pc[v] /\ call'[v] = call[v]
           /\ creates'[v] = creates[v],
         \A c \in todo'[w] : CallJustified(c)',
         pc'[w] # "idle" => CallJustified(call[w])',
         \A r \in creates'[w] :
           r.owner \in Names => r.owner \in approved' /\ <<r.owner, r.dest>> \in answered'
  PROVE  CallsJustified'
<1>1. \A c : CallJustified(c) => /\ c.guest = Target
                                 /\ c.kind = "sync" => /\ c.name \in approved'
                                                       /\ {c.name} \X c.dests \subseteq answered'
  BY DEF CallJustified
<1>2. ASSUME NEW v \in Workers, v # w
      PROVE  /\ \A c \in todo'[v] : CallJustified(c)'
             /\ pc'[v] # "idle" => CallJustified(call[v])'
             /\ \A r \in creates'[v] :
                  r.owner \in Names => r.owner \in approved' /\ <<r.owner, r.dest>> \in answered'
  BY <1>1, <1>2 DEF CallsJustified, CallJustified
<1> QED
  BY <1>2 DEF CallsJustified

LEMMA DecisionJustified ==
  ASSUME NEW c \in Call, CallJustified(c), NEW list \in Seq(Rule), Opened(list) \subseteq answered
  PROVE  /\ \A r \in MissingRules(c, list) :
              r.owner \in Names => r.owner \in approved /\ <<r.owner, r.dest>> \in answered
         /\ c.kind # "bootstrap" =>
              \A pos \in DoomedPositions(c, list) : <<c.name, list[pos].dest>> \in answered
<1>1. ASSUME NEW r \in MissingRules(c, list), r.owner \in Names
      PROVE  r.owner \in approved /\ <<r.owner, r.dest>> \in answered
  <2>1. CASE c.kind = "sync"
    <3>1. PICK ip \in c.dests : r = [owner |-> c.name, tag |-> fqdnOutboundTag(ip), dest |-> ip]
      BY <2>1 DEF MissingRules, WantedRules
    <3> QED
      BY <2>1, <3>1 DEF CallJustified
  <2>2. CASE c.kind = "bootstrap"
    <3>1. r.owner = Bootstrap
      BY <2>2 DEF MissingRules, WantedRules
    <3> QED
      BY <1>1, <3>1, RulesAssumption
  <2>3. CASE c.kind \notin {"sync", "bootstrap"}
    BY <2>3 DEF MissingRules, WantedRules
  <2> QED
    BY <2>1, <2>2, <2>3
<1>2. ASSUME c.kind # "bootstrap", NEW pos \in DoomedPositions(c, list)
      PROVE  <<c.name, list[pos].dest>> \in answered
  <2>1. pos \in DOMAIN list /\ list[pos].owner = c.name
    BY <1>2 DEF DoomedPositions, dynamicRuleMatchesDest, ruleManagedForFQDNFamily,
                Call, NameCall, BootCall
  <2>2. c.name \in Names
    BY <1>2 DEF Call, NameCall, BootCall
  <2> QED
    BY <2>1, <2>2, OpenedTyped
<1> QED
  BY <1>1, <1>2

\* A change of the guest's list opens at most a rule the worker was to create.
LEMMA ChangeJustified ==
  ASSUME CoordInv, UNCHANGED <<approved, answered>>, NEW w \in Workers, pc[w] # "idle",
         \/ \E r \in creates[w] : rules' = [rules EXCEPT ![call[w].guest] = Created(@, r)]
         \/ \E pos \in deletes[w] : /\ pos \in DOMAIN rules[call[w].guest]
                                   /\ rules' = [rules EXCEPT ![call[w].guest] = Deleted(@, pos)]
  PROVE  EgressJustified'
<1>1. call[w].guest = Target /\ Target \in Guests
  BY CoordinatorAssumption DEF CoordInv, CallsJustified, CallJustified
<1>2. rules[Target] \in Seq(Rule)
  BY <1>1 DEF CoordInv, ClientInv, ClientTypeOK
<1>3. ASSUME NEW p \in Opened(rules'[Target])
      PROVE  p[1] \in approved /\ p \in answered
  <2>1. CASE \E r \in creates[w] : rules' = [rules EXCEPT ![call[w].guest] = Created(@, r)]
    <3>1. PICK r \in creates[w] : rules' = [rules EXCEPT ![call[w].guest] = Created(@, r)]
      BY <2>1
    <3>2. rules'[Target] = Created(rules[Target], r)
      BY <1>1, <3>1 DEF CoordInv, ClientInv, ClientTypeOK
    <3>3. r \in Rule
      BY DEF CoordInv, ClientInv, ClientTypeOK
    <3>4. p \in Opened(rules[Target]) \/ (r.owner \in Names /\ p = <<r.owner, r.dest>>)
      BY <1>2, <1>3, <3>2, <3>3, OpenedCreated
    <3> QED
      BY <3>4 DEF CoordInv, EgressJustified, CallsJustified
  <2>2. CASE \E pos \in deletes[w] :
               /\ pos \in DOMAIN rules[call[w].guest]
               /\ rules' = [rules EXCEPT ![call[w].guest] = Deleted(@, pos)]
    <3>1. PICK pos \in DOMAIN rules[Target] :
            rules' = [rules EXCEPT ![call[w].guest] = Deleted(@, pos)]
      BY <1>1, <2>2
    <3>2. rules'[Target] = RemoveAt(rules[Target], pos)
      BY <1>1, <3>1 DEF Deleted, CoordInv, ClientInv, ClientTypeOK
    <3>3. p \in Opened(rules[Target])
      BY <1>2, <1>3, <3>2, OpenedRemoved
    <3> QED
      BY <3>3 DEF CoordInv, EgressJustified
  <2> QED
    BY <2>1, <2>2
<1> QED
  BY <1>3 DEF EgressJustified

LEMMA ReportedShrinks ==
  ASSUME NEW c, NEW gone
  PROVE  ReportedOnError(c, gone) \subseteq gone
<1>1. CASE c.kind # "removeAll"
  BY <1>1, Zenon DEF ReportedOnError
<1>2. CASE c.kind = "removeAll" /\ c.family = "ipv4"
  BY <1>2, Zenon DEF ReportedOnError
<1>3. CASE c.kind = "removeAll" /\ c.family # "ipv4"
  BY <1>3, Zenon DEF ReportedOnError
<1> QED
  BY <1>1, <1>2, <1>3

LEMMA CallStepJustified ==
  ASSUME CoordInv, NEW w \in Workers, CallStep(w), UNCHANGED coordVars
  PROVE  AddressesAnswered' /\ CallsJustified' /\ EgressJustified'
<1>t. /\ ClientInv /\ ClientTypeOK /\ AddressesAnswered /\ CallsJustified /\ EgressJustified
  BY DEF CoordInv, ClientInv
<1>f. /\ pc[w] # "idle" /\ pc'[w] # "idle" /\ call[w] \in Call
      /\ \A v \in Workers : v # w =>
           /\ pc'[v] = pc[v] /\ call'[v] = call[v] /\ view'[v] = view[v]
           /\ creates'[v] = creates[v] /\ deletes'[v] = deletes[v] /\ removed'[v] = removed[v]
      /\ call'[w].kind = call[w].kind /\ call'[w].name = call[w].name
      /\ call'[w].guest = call[w].guest /\ call'[w].dests = call[w].dests
  BY <1>t, CallStepFrame
<1>u. UNCHANGED <<step, task, todo, rejected, approved, answered>>
  BY DEF coordVars, memoryVars, handlerVars, ghostVars
<1>j. CallJustified(call[w]) /\ call[w].guest = Target /\ Target \in Guests
  BY <1>t, <1>f, CoordinatorAssumption DEF CallsJustified, CallJustified
<1>k. CallJustified(call[w])'
  BY <1>f, <1>u, <1>j DEF CallJustified
<1>o. Opened(rules[Target]) \subseteq answered /\ rules[Target] \in Seq(Rule)
  BY <1>t, <1>j DEF EgressJustified, ClientTypeOK

\* What is left to show about w and what is shared, for each of the three parts.
<1> DEFINE DeletesOK == call[w].kind # "bootstrap" =>
             \A pos \in deletes'[w] : <<call[w].name, view'[w][pos].dest>> \in answered
           RemovedOK == call[w].kind # "bootstrap" => {call[w].name} \X removed'[w] \subseteq answered
           CreatesOK == \A r \in creates'[w] :
             r.owner \in Names => r.owner \in approved /\ <<r.owner, r.dest>> \in answered
<1>a. ASSUME Opened(cache'.list) \subseteq answered, Opened(view'[w]) \subseteq answered,
             DeletesOK, RemovedOK
      PROVE  AddressesAnswered'
  <2>1. /\ \A n \in Names : {n} \X rejected'[n] \subseteq answered'
        /\ step'[w] = "note" => {task'[w].name} \X task'[w].ips \subseteq answered'
        /\ answered \subseteq answered'
        /\ Opened(cache'.list) \subseteq answered' /\ Opened(view'[w]) \subseteq answered'
    BY <1>a, <1>t, <1>u DEF AddressesAnswered
  <2>2. pc'[w] # "idle" /\ call'[w].kind # "bootstrap" =>
            /\ {call'[w].name} \X removed'[w] \subseteq answered'
            /\ \A pos \in deletes'[w] : <<call'[w].name, view'[w][pos].dest>> \in answered'
    BY <1>a, <1>f, <1>u
  <2> QED
    BY <1>f, <1>t, <1>u, <2>1, <2>2, AnsweredKept
<1>c. ASSUME CreatesOK
      PROVE  CallsJustified'
  <2>1. \A c \in todo'[w] : CallJustified(c)'
    BY <1>t, <1>u DEF CallsJustified, CallJustified
  <2> QED
    BY <1>c, <1>f, <1>k, <1>t, <1>u, <2>1, JustifiedKept
<1>e. ASSUME rules' = rules
      PROVE  EgressJustified'
  BY <1>e, <1>t, <1>u DEF EgressJustified

\* The parts as they were, for the steps that leave them alone.
<1>p. /\ Opened(cache.list) \subseteq answered /\ Opened(view[w]) \subseteq answered
      /\ call[w].kind # "bootstrap" =>
           /\ {call[w].name} \X removed[w] \subseteq answered
           /\ \A pos \in deletes[w] : <<call[w].name, view[w][pos].dest>> \in answered
      /\ \A r \in creates[w] :
           r.owner \in Names => r.owner \in approved /\ <<r.owner, r.dest>> \in answered
  BY <1>f, <1>t DEF AddressesAnswered, CallsJustified
<1> DEFINE ListedAs(list) ==
             list \in Seq(Rule) /\ Opened(list) \subseteq answered /\ Decide(w, list)
<1>d. ASSUME NEW list, ListedAs(list)
      PROVE  Opened(view'[w]) \subseteq answered /\ DeletesOK /\ RemovedOK /\ CreatesOK
  <2>1. /\ view'[w] = list /\ removed' = removed
        /\ creates'[w] = MissingRules(call[w], list)
        /\ deletes'[w] = DoomedPositions(call[w], list)
    BY <1>d, <1>t DEF Decide, ClientTypeOK
  <2> QED
    BY <1>d, <1>f, <1>j, <1>p, <2>1, DecisionJustified
<1>b. ASSUME Abort(w)
      PROVE  Opened(view'[w]) \subseteq answered /\ DeletesOK /\ RemovedOK /\ CreatesOK
  <2>1. /\ view'[w] = <<>> /\ creates'[w] = {} /\ deletes'[w] = {}
        /\ removed'[w] = ReportedOnError(call[w], removed[w])
    BY <1>b, <1>t DEF Abort, Drop, ClientTypeOK
  <2>2. removed'[w] \subseteq removed[w]
    BY <2>1, ReportedShrinks
  <2> QED
    BY <1>p, <2>1, <2>2, OpenedEmpty

<1>1. CASE ListHit(w)
  <2>1. ListedAs(cache.list) /\ cache' = cache /\ rules' = rules
    BY <1>1, <1>p, <1>t DEF ListHit, ClientTypeOK
  <2> QED
    BY <1>a, <1>c, <1>d, <1>e, <1>p, <2>1
<1>2. CASE ListMiss(w) \/ Invalidate(w)
  <2>1. /\ UNCHANGED <<rules, view, deletes, removed, creates>> /\ cache' \in {cache, Dead}
    BY <1>2 DEF ListMiss, Invalidate
  <2>2. Opened(cache'.list) \subseteq answered
    BY <1>p, <2>1, OpenedEmpty DEF Dead
  <2> QED
    BY <1>a, <1>c, <1>e, <1>p, <2>1, <2>2
<1>3. CASE GetAnswered(w)
  <2>1. /\ UNCHANGED <<rules, cache, deletes, removed, creates>>
        /\ view'[w] = rules[Target] /\ pc[w] = "get"
    BY <1>3, <1>j, <1>t DEF GetAnswered, ClientTypeOK
  <2>2. deletes'[w] = {}
    BY <1>t, <2>1 DEF ClientInv, DoomedAreOurs
  <2> QED
    BY <1>a, <1>c, <1>e, <1>o, <1>p, <2>1, <2>2
<1>4. CASE Store(w)
  <2>1. ListedAs(view[w]) /\ cache'.list = view[w] /\ rules' = rules
    BY <1>4, <1>p, <1>t DEF Store, ClientTypeOK
  <2> QED
    BY <1>a, <1>c, <1>d, <1>e, <1>p, <2>1
<1>5. CASE GetFails(w) \/ DeleteOutOfRange(w) \/ ChangeRejected(w)
  <2>1. Abort(w) /\ cache' = cache /\ rules' = rules
    BY <1>5 DEF GetFails, DeleteOutOfRange, ChangeRejected
  <2> QED
    BY <1>a, <1>b, <1>c, <1>e, <1>p, <2>1
<1>6. CASE CreateRule(w)
  <2>1. EgressJustified'
    BY <1>6, <1>f, <1>u, ChangeJustified DEF CreateRule
  <2>2. /\ UNCHANGED <<cache, view, deletes, removed>> /\ creates'[w] \subseteq creates[w]
    BY <1>6, <1>t DEF CreateRule, ClientTypeOK
  <2> QED
    BY <1>a, <1>c, <1>p, <2>1, <2>2
<1>7. CASE DeleteRule(w)
  <2>1. EgressJustified'
    BY <1>7, <1>f, <1>u, ChangeJustified DEF DeleteRule
  <2>2. PICK pos \in deletes[w] :
          /\ deletes'[w] = deletes[w] \ {pos}
          /\ removed'[w] = removed[w] \cup {view[w][pos].dest}
          /\ UNCHANGED <<cache, view, creates>>
    BY <1>7, <1>t DEF DeleteRule, ClientTypeOK
  <2>3. RemovedOK /\ DeletesOK
    BY <1>p, <2>2
  <2> QED
    BY <1>a, <1>c, <1>p, <2>1, <2>2, <2>3
<1>8. CASE ChangeReplyLost(w)
  <2>1. EgressJustified'
    BY <1>8, <1>f, <1>u, ChangeJustified DEF ChangeReplyLost
  <2>2. Abort(w) /\ cache' = cache
    BY <1>8 DEF ChangeReplyLost
  <2> QED
    BY <1>a, <1>b, <1>c, <1>p, <2>1, <2>2
<1>9. CASE EndPass(w)
  <2>1. /\ UNCHANGED <<rules, cache, removed>>
        /\ view'[w] = <<>> /\ creates'[w] = {} /\ deletes'[w] = {}
    BY <1>9, <1>t DEF EndPass, Drop, ClientTypeOK
  <2> QED
    BY <1>a, <1>c, <1>e, <1>p, <2>1, OpenedEmpty
<1> QED
  BY <1>1, <1>2, <1>3, <1>4, <1>5, <1>6, <1>7, <1>8, <1>9 DEF CallStep

-----------------------------------------------------------------------------
(* The steps of a handler outside its calls. *)

Justified == AddressesAnswered /\ CallsJustified /\ EgressJustified

\* A step that leaves the client alone.
LEMMA OutsideJustified ==
  ASSUME Justified, NEW w \in Workers, UNCHANGED clientVars,
         approved \subseteq approved', answered \subseteq answered',
         \A v \in Workers : v # w =>
           step'[v] = step[v] /\ task'[v] = task[v] /\ todo'[v] = todo[v],
         \A n \in Names : {n} \X rejected'[n] \subseteq answered',
         step'[w] = "note" => {task'[w].name} \X task'[w].ips \subseteq answered',
         \A c \in todo'[w] : CallJustified(c)'
  PROVE  Justified'
<1> USE DEF Justified, clientVars, workVars
<1>1. EgressJustified'
  BY DEF EgressJustified
<1>2. /\ Opened(cache'.list) \subseteq answered' /\ Opened(view'[w]) \subseteq answered'
      /\ pc'[w] = "idle" => removed'[w] = {}
      /\ pc'[w] # "idle" /\ call'[w].kind # "bootstrap" =>
           /\ {call'[w].name} \X removed'[w] \subseteq answered'
           /\ \A pos \in deletes'[w] : <<call'[w].name, view'[w][pos].dest>> \in answered'
  BY DEF AddressesAnswered
<1>3. AddressesAnswered'
  BY <1>2, AnsweredKept
<1>4. pc'[w] # "idle" => CallJustified(call[w])'
  BY DEF CallsJustified, CallJustified
<1>5. \A r \in creates'[w] :
        r.owner \in Names => r.owner \in approved' /\ <<r.owner, r.dest>> \in answered'
  BY DEF CallsJustified
<1>6. CallsJustified'
  BY <1>4, <1>5, JustifiedKept
<1> QED
  BY <1>1, <1>3, <1>6

LEMMA StartJustified ==
  ASSUME CoordInv, NEW w \in Workers, HandlerStart(w)
  PROVE  Justified'
<1>t. /\ step \in [Workers -> Labels] /\ task \in [Workers -> Tasks]
      /\ todo \in [Workers -> SUBSET Call] /\ Justified
      /\ \A n \in Names : {n} \X rejected[n] \subseteq answered
  BY DEF CoordInv, CoordTypeOK, Labels, Tasks, Justified, AddressesAnswered
<1> USE DEF memoryVars, ghostVars
<1>1. ASSUME NEW n \in Names, NEW a \in Answers, ApplyDNS(w, n, a)
      PROVE  Justified'
  <2>1. a.ips \in SUBSET IPs
    BY AnswerTyped
  <2>2. /\ UNCHANGED <<clientVars, approved, rejected>> /\ answered' = answered \cup ({n} \X a.ips)
        /\ \A v \in Workers : v # w => step'[v] = step[v] /\ task'[v] = task[v] /\ todo'[v] = todo[v]
        /\ task'[w].name = n /\ task'[w].ips = a.ips
        /\ todo'[w] = AnswerCalls(n, a, n \in Allowed(lastList))
    BY <1>1, <1>t DEF ApplyDNS, Become
  <2>3. ASSUME NEW c \in todo'[w]
        PROVE  CallJustified(c)'
    <3>1. CASE n \in Allowed(lastList)
      <4>1. n \in approved
        BY <3>1 DEF CoordInv, ListsApproved
      <4>2. \/ \E ip \in a.ips : c = SyncOutboundAllow(Target, n, ip)
            \/ \E f \in a.seen : c = PruneStale(Target, n, f, OfFamily(a.ips, f))
        BY <2>2, <2>3, <3>1 DEF AnswerCalls
      <4> QED
        BY <2>2, <4>1, <4>2 DEF SyncOutboundAllow, PruneStale, CallJustified
    <3>2. CASE n \notin Allowed(lastList)
      BY <2>2, <2>3, <3>2 DEF AnswerCalls, RemoveDynamicRules, CallJustified
    <3> QED
      BY <3>1, <3>2
  <2> QED
    BY <1>t, <2>2, <2>3, OutsideJustified
<1>2. CASE PeriodicRefresh(w) \/ \E text \in SaveTexts : SaveMergedList(w, text)
  <2>1. /\ UNCHANGED <<clientVars, approved, answered, rejected>>
        /\ \A v \in Workers : v # w => step'[v] = step[v] /\ task'[v] = task[v] /\ todo'[v] = todo[v]
        /\ step'[w] # "note" /\ todo'[w] = {}
    BY <1>2, <1>t DEF PeriodicRefresh, SaveMergedList, Become
  <2> QED
    BY <1>t, <2>1, OutsideJustified
<1>3. ASSUME NEW host \in Hosts, RunBootstrap(w, host)
      PROVE  Justified'
  <2>1. /\ UNCHANGED <<clientVars, approved, answered, rejected>>
        /\ \A v \in Workers : v # w => step'[v] = step[v] /\ task'[v] = task[v] /\ todo'[v] = todo[v]
        /\ step'[w] # "note" /\ todo'[w] = {EnsureBootstrapDNS(Target, host)}
    BY <1>3, <1>t DEF RunBootstrap, Become
  <2>2. CallJustified(EnsureBootstrapDNS(Target, host))'
    BY DEF EnsureBootstrapDNS, CallJustified
  <2> QED
    BY <1>t, <2>1, <2>2, OutsideJustified
<1> QED
  BY <1>1, <1>2, <1>3 DEF HandlerStart

\* A justified call begins.
LEMMA IssueJustified ==
  ASSUME Justified, NEW w \in Workers, NEW c, CallJustified(c), call'[w] = c, pc[w] = "idle",
         UNCHANGED <<step, rejected, approved, answered, rules, cache, view, creates, removed>>,
         deletes' = deletes, deletes[w] = {}, step[w] # "note",
         \A v \in Workers : v # w =>
           pc'[v] = pc[v] /\ call'[v] = call[v] /\ todo'[v] = todo[v] /\ task'[v] = task[v],
         todo'[w] \subseteq todo[w]
  PROVE  Justified'
<1> USE DEF Justified
<1>1. EgressJustified'
  BY DEF EgressJustified
<1>2. removed[w] = {} /\ Opened(cache.list) \subseteq answered /\ Opened(view[w]) \subseteq answered
      /\ \A n \in Names : {n} \X rejected[n] \subseteq answered
  BY DEF AddressesAnswered
<1>3. AddressesAnswered'
  BY <1>2, AnsweredKept
<1>4. CallJustified(call[w])' /\ \A d \in todo'[w] : CallJustified(d)'
  BY DEF CallsJustified, CallJustified
<1>5. \A r \in creates'[w] :
        r.owner \in Names => r.owner \in approved' /\ <<r.owner, r.dest>> \in answered'
  BY DEF CallsJustified
<1>6. CallsJustified'
  BY <1>4, <1>5, JustifiedKept
<1> QED
  BY <1>1, <1>3, <1>6

LEMMA StepJustified ==
  ASSUME CoordInv, NEW w \in Workers, HandlerStep(w)
  PROVE  Justified'
<1>t. /\ step \in [Workers -> Labels] /\ task \in [Workers -> Tasks]
      /\ todo \in [Workers -> SUBSET Call] /\ Justified /\ CoordTyped
      /\ \A n \in Names : {n} \X rejected[n] \subseteq answered
      /\ \A c \in todo[w] : CallJustified(c)
      /\ pc[w] = "idle" => deletes[w] = {}
  BY DEF CoordInv, ClientInv, DoomedAreOurs, CoordTyped, CoordTypeOK, Labels, Tasks, Justified, AddressesAnswered,
         CallsJustified
<1>s. /\ rejected \in [Names -> SUBSET IPs]
      /\ pc \in [Workers -> {"idle", "list", "get", "store", "apply", "invalidate", "done"}]
      /\ call \in [Workers -> Call \cup {NoCall}] /\ removed \in [Workers -> SUBSET (IPs \cup Hosts)]
  BY DEF CoordInv, CoordTypeOK, ClientInv, ClientTypeOK
<1> USE DEF memoryVars, ghostVars
<1>1. CASE CallStep(w) /\ UNCHANGED coordVars
  BY <1>1, CallStepJustified DEF Justified
<1>2. CASE NoteDenied(w)
  <2>1. task[w] \in DnsTask /\ {task[w].name} \X task[w].ips \subseteq answered
    BY <1>2 DEF NoteDenied, CoordInv, HandlersTyped, AddressesAnswered
  <2>2. \A n \in Names : {n} \X rejected'[n] \subseteq answered
    BY <1>2, <1>s, <1>t, <2>1 DEF NoteDenied
  <2>3. /\ UNCHANGED <<clientVars, approved, answered, todo>> /\ step'[w] = "calls"
        /\ \A v \in Workers : v # w => step'[v] = step[v] /\ task'[v] = task[v]
    BY <1>2, <1>t DEF NoteDenied, At
  <2>4. \A c \in todo'[w] : CallJustified(c)'
    BY <1>t, <2>3 DEF CallJustified
  <2> QED
    BY <1>t, <2>2, <2>3, <2>4, OutsideJustified
<1>3. CASE \/ CallsDone(w) \/ PutRejected(w) \/ PutReplyLost(w)
           \/ GetGuestConfigFails(w) \/ StoreRefresh(w)
  <2>1. /\ UNCHANGED <<clientVars, answered, rejected>> /\ approved \subseteq approved'
        /\ \A v \in Workers : v # w => step'[v] = step[v] /\ task'[v] = task[v] /\ todo'[v] = todo[v]
        /\ step'[w] # "note" /\ todo'[w] = {}
    BY <1>3, <1>t DEF CallsDone, PutRejected, PutReplyLost, GetGuestConfigFails, StoreRefresh,
                      StoreDescription, Finish, Become
  <2> QED
    BY <1>t, <2>1, OutsideJustified
<1>4. CASE PutDescription(w) \/ GetGuestConfig(w) \/ MergeSeen(w)
  <2>1. /\ UNCHANGED <<clientVars, answered, rejected, todo>> /\ approved \subseteq approved'
        /\ \A v \in Workers : v # w => step'[v] = step[v] /\ task'[v] = task[v]
        /\ step'[w] # "note"
    BY <1>4, <1>t DEF PutDescription, GetGuestConfig, MergeSeen, StoreDescription, At
  <2>2. \A c \in todo'[w] : CallJustified(c)'
    BY <1>t, <2>1 DEF CallJustified
  <2> QED
    BY <1>t, <2>1, <2>2, OutsideJustified
<1>5. CASE CommitSave(w)
  <2> DEFINE newly == newlyAllowedFQDNs(task[w].old, task[w].text)
  <2>1. task[w] \in SaveTask /\ step[w] = "revoke"
    BY <1>5 DEF CommitSave, CoordInv, HandlersTyped
  <2>2. newly \subseteq approved /\ newly \subseteq Names
    BY <2>1 DEF newlyAllowedFQDNs, Allowed, CoordInv, ListsApproved
  <2>3. /\ UNCHANGED <<clientVars, answered, approved>> /\ step'[w] = "calls"
        /\ \A v \in Workers : v # w => step'[v] = step[v] /\ task'[v] = task[v] /\ todo'[v] = todo[v]
        /\ todo'[w] = UNION {{SyncOutboundAllow(Target, n, ip) : ip \in rejected[n]} : n \in newly}
    BY <1>5, <1>t DEF CommitSave, Become
  <2>4. \A n \in Names : rejected'[n] \subseteq rejected[n]
    BY <1>5 DEF CommitSave
  <2> HIDE DEF newly
  <2>5. ASSUME NEW c \in todo'[w]
        PROVE  CallJustified(c)'
    <3>0. PICK n \in newly : c \in {SyncOutboundAllow(Target, n, ip) : ip \in rejected[n]}
      BY <2>3, <2>5
    <3>1. PICK ip \in rejected[n] : c = SyncOutboundAllow(Target, n, ip)
      BY <3>0
    <3>2. n \in approved' /\ c.name = n /\ c.guest = Target /\ c.dests = {ip}
      BY <2>2, <2>3, <3>1 DEF SyncOutboundAllow
    <3>3. <<n, ip>> \in answered'
      BY <1>t, <2>2, <2>3
    <3> QED
      BY <3>2, <3>3 DEF CallJustified
  <2> QED
    BY <1>t, <2>3, <2>4, <2>5, OutsideJustified
<1>6. CASE NextCall(w)
  <2>1. PICK c \in todo[w] : Issue(w, c) /\ todo' = [todo EXCEPT ![w] = @ \ {c}]
    BY <1>6 DEF NextCall
  <2>2. /\ UNCHANGED <<step, task, rejected, approved, answered>>
        /\ UNCHANGED <<rules, cache, view, creates, deletes, removed>>
        /\ pc[w] = "idle" /\ step[w] = "calls" /\ call'[w] = c
        /\ todo'[w] \subseteq todo[w]
        /\ \A v \in Workers : v # w => pc'[v] = pc[v] /\ call'[v] = call[v] /\ todo'[v] = todo[v]
    BY <1>6, <1>s, <1>t, <2>1 DEF NextCall, Issue, Goto
  <2> QED
    BY <1>t, <2>2, IssueJustified
<1>7. CASE RevokeNext(w)
  <2>1. PICK n \in task[w].revoke : /\ Issue(w, RemoveAllManaged(Target, n))
                                   /\ task' = [task EXCEPT ![w].revoke = @ \ {n}]
    BY <1>7 DEF RevokeNext
  <2>2. /\ UNCHANGED <<step, todo, rejected, approved, answered>>
        /\ UNCHANGED <<rules, cache, view, creates, deletes, removed>>
        /\ pc[w] = "idle" /\ step[w] = "revoke" /\ call'[w] = RemoveAllManaged(Target, n)
        /\ \A v \in Workers : v # w => pc'[v] = pc[v] /\ call'[v] = call[v] /\ task'[v] = task[v]
    BY <1>7, <1>s, <1>t, <2>1 DEF RevokeNext, Issue, Goto
  <2>3. CallJustified(RemoveAllManaged(Target, n))
    BY DEF RemoveAllManaged, CallJustified
  <2> QED
    BY <1>t, <2>2, <2>3, IssueJustified
<1>8. CASE CallReturned(w) \/ Revoked(w)
  <2>1. /\ UNCHANGED <<step, task, todo, approved, answered>>
        /\ UNCHANGED <<rules, cache, view, creates, deletes>>
        /\ pc[w] = "done" /\ pc'[w] = "idle" /\ removed'[w] = {}
        /\ step[w] \in {"calls", "revoke"}
        /\ \A v \in Workers : v # w =>
             pc'[v] = pc[v] /\ call'[v] = call[v] /\ removed'[v] = removed[v]
    BY <1>8, <1>s DEF CallReturned, Revoked, Return, Goto, coordVars, handlerVars
  <2>2. \A n \in Names : {n} \X rejected'[n] \subseteq answered
    <3>1. CASE CallReturned(w)
      BY <1>t, <3>1 DEF CallReturned, coordVars
    <3>2. CASE Revoked(w)
      <4>1. call[w].kind = "removeAll"
        BY <2>1, <3>2 DEF Revoked, CoordInv, HandlersTyped
      <4>2. {call[w].name} \X removed[w] \subseteq answered
        BY <2>1, <4>1 DEF CoordInv, AddressesAnswered
      <4>3. \A n \in Names : \/ rejected'[n] \in {rejected[n], {}}
                             \/ n = call[w].name /\ rejected'[n] = removed[w]
        <5>1. \/ rejected' = rejected
              \/ rejected' = [rejected EXCEPT ![call[w].name] = removed[w]]
              \/ rejected' = [rejected EXCEPT ![call[w].name] = {}]
          BY <3>2 DEF Revoked
        <5> QED
          BY <1>s, <5>1
      <4> QED
        BY <1>t, <2>1, <4>2, <4>3
    <3> QED
      BY <1>8, <3>1, <3>2
  <2>3. EgressJustified'
    BY <1>t, <2>1 DEF Justified, EgressJustified
  <2>4. AddressesAnswered'
    <3>1. Opened(cache'.list) \subseteq answered' /\ Opened(view'[w]) \subseteq answered'
      BY <1>t, <2>1 DEF Justified, AddressesAnswered
    <3> QED
      BY <1>t, <2>1, <2>2, <3>1, AnsweredKept DEF Justified
  <2>5. CallsJustified'
    <3>1. \A c \in todo'[w] : CallJustified(c)'
      BY <1>t, <2>1 DEF CallJustified
    <3>2. \A r \in creates'[w] :
            r.owner \in Names => r.owner \in approved' /\ <<r.owner, r.dest>> \in answered'
      BY <1>t, <2>1 DEF Justified, CallsJustified
    <3> QED
      BY <1>t, <2>1, <3>1, <3>2, JustifiedKept DEF Justified
  <2> QED
    BY <2>3, <2>4, <2>5 DEF Justified
<1> QED
  BY <1>1, <1>2, <1>3, <1>4, <1>5, <1>6, <1>7, <1>8 DEF HandlerStep

LEMMA OthersJustified ==
  ASSUME CoordInv,
         \/ EnvStep /\ UNCHANGED coordVars
         \/ \E desc \in EditedDescriptions : OperatorEditsNotes(desc)
         \/ Restart
         \/ UNCHANGED vars
  PROVE  Justified'
<1>t. Justified /\ ClientTypeOK
  BY DEF CoordInv, ClientInv, Justified
<1> USE DEF coordVars, memoryVars, handlerVars, ghostVars, clientVars, workVars
<1>1. CASE EnvStep /\ UNCHANGED coordVars
  <2>1. /\ UNCHANGED <<workVars, coordVars>> /\ cache' \in {cache, Dead}
    BY <1>1 DEF EnvStep, Expire, OperatorEdits
  <2>2. EgressJustified'
    <3>1. CASE Expire
      BY <1>t, <2>1, <3>1 DEF Expire, Justified, EgressJustified
    <3>2. ASSUME NEW g \in Guests, OperatorEdits(g)
          PROVE  Opened(rules'[Target]) \subseteq Opened(rules[Target])
      <4>0. rules[g] \in Seq(Rule) /\ rules[Target] \in Seq(Rule)
        BY <1>t, CoordinatorAssumption DEF ClientTypeOK
      <4>1. ASSUME NEW d \in Manual,
                   rules' = [rules EXCEPT ![g] =
                     Created(@, [owner |-> Operator, tag |-> "none", dest |-> d])]
            PROVE  Opened(rules'[Target]) \subseteq Opened(rules[Target])
        <5> DEFINE r == [owner |-> Operator, tag |-> "none", dest |-> d]
        <5>1. r \in Rule /\ r.owner \notin Names
          BY RulesAssumption DEF Rule, OperatorRule
        <5>2. rules'[Target] \in {rules[Target], Created(rules[Target], r)}
          BY <1>t, <4>1, CoordinatorAssumption DEF ClientTypeOK
        <5> HIDE DEF r
        <5> QED
          BY <4>0, <5>1, <5>2, OpenedCreated
      <4>2. ASSUME NEW i \in DOMAIN rules[g], rules' = [rules EXCEPT ![g] = RemoveAt(@, i)]
            PROVE  Opened(rules'[Target]) \subseteq Opened(rules[Target])
        <5>1. CASE g = Target
          BY <1>t, <4>0, <4>2, <5>1, OpenedRemoved DEF ClientTypeOK
        <5>2. CASE g # Target
          BY <1>t, <4>2, <5>2 DEF ClientTypeOK
        <5> QED
          BY <5>1, <5>2
      <4> QED
        BY <3>2, <4>1, <4>2 DEF OperatorEdits
    <3> QED
      BY <1>1, <1>t, <2>1, <3>1, <3>2 DEF EnvStep, Justified, EgressJustified
  <2>3. AddressesAnswered'
    BY <1>t, <2>1, OpenedEmpty DEF Justified, AddressesAnswered, Dead
  <2>4. CallsJustified'
    BY <1>t, <2>1 DEF Justified, CallsJustified, CallJustified
  <2> QED
    BY <2>2, <2>3, <2>4 DEF Justified
<1>2. CASE UNCHANGED vars
  BY <1>2, <1>t DEF vars, Justified, AddressesAnswered, CallsJustified, CallJustified, EgressJustified
<1>3. ASSUME NEW desc \in EditedDescriptions, OperatorEditsNotes(desc)
      PROVE  Justified'
  BY <1>3, <1>t
     DEF OperatorEditsNotes, Justified, AddressesAnswered, CallsJustified, CallJustified,
         EgressJustified
<1>4. CASE Restart
  <2>1. EgressJustified'
    BY <1>4, <1>t DEF Restart, Justified, EgressJustified
  <2>2. AddressesAnswered'
    BY <1>4, OpenedEmpty DEF Restart, Dead, AddressesAnswered
  <2>3. CallsJustified'
    BY <1>4 DEF Restart, CallsJustified
  <2> QED
    BY <2>1, <2>2, <2>3 DEF Justified
<1> QED
  BY <1>1, <1>2, <1>3, <1>4

-----------------------------------------------------------------------------
(* The inductive invariant, and what follows from it. *)

LEMMA InitCoordInv == Init => CoordInv
<1> SUFFICES ASSUME NEW s \in InitStates,
                    ClientInit, rules[Target] = s.rules, server = s.server,
                    lastDesc = IF s.loaded THEN s.server ELSE EmptyDesc,
                    lastDigest = IF s.loaded THEN {s.server} ELSE NoDigest,
                    lastList = IF s.loaded THEN s.server.list ELSE EmptyList,
                    Seen = {}, rejected = [n \in Names |-> {}],
                    step = [w \in Workers |-> "none"],
                    task = [w \in Workers |-> NoTask],
                    todo = [w \in Workers |-> {}],
                    hits = [faults |-> 0, edits |-> 0, restarts |-> 0],
                    approved = Allowed(s.server.list) \cup {p[1] : p \in Opened(s.rules)},
                    answered = Opened(s.rules),
                    current = [n \in Names |-> {ip \in IPs : <<n, ip>> \in Opened(s.rules)}],
                    forgotten = [n \in Names |-> {}]
             PROVE  CoordInv
  BY DEF Init
<1>1. ClientInv
  BY InitInv
<1>2. /\ s.server \in Description /\ s.server.list \in List
      /\ s.rules \in Seq(Rule)
  BY ClientAssumption, CoordinatorAssumption DEF Description
<1>3. Opened(s.rules) \subseteq Names \X IPs
  BY <1>2, OpenedTyped
<1>4. CoordTypeOK
  <2>1. lastDesc \in Description /\ lastDigest \subseteq Description /\ lastList \in List
    BY <1>2, ListTypes DEF NoDigest
  <2>2. approved \subseteq Names /\ answered \subseteq Names \X IPs
    BY <1>3 DEF Allowed
  <2>3. NoTask \in OtherTask
    BY DEF NoTask, OtherTask
  <2> QED
    BY <1>2, <2>1, <2>2, <2>3 DEF CoordTypeOK
<1>5. HandlersTyped
  BY DEF HandlersTyped, ClientInit
<1>6. ListsApproved
  <2>1. Allowed(EmptyList) = {}
    BY DEF Allowed, EmptyList
  <2> QED
    BY <2>1 DEF ListsApproved
<1>7. AddressesAnswered
  BY OpenedEmpty DEF AddressesAnswered, ClientInit, Dead
<1>8. CallsJustified
  BY DEF CallsJustified, ClientInit
<1>9. EgressJustified
  BY DEF EgressJustified
<1> QED
  BY <1>1, <1>4, <1>5, <1>6, <1>7, <1>8, <1>9 DEF CoordInv

LEMMA NextCoordInv == CoordInv /\ [Next]_vars => CoordInv'
<1> SUFFICES ASSUME CoordInv, [Next]_vars
             PROVE  CoordInv'
  OBVIOUS
<1>1. CoordTyped'
  BY NextCoordTyped DEF CoordInv, CoordTyped
<1>2. ListsApproved'
  BY NextApproved DEF CoordInv, CoordTyped
<1>3. Justified'
  BY StartJustified, StepJustified, OthersJustified DEF Next
<1> QED
  BY <1>1, <1>2, <1>3 DEF CoordInv, CoordTyped, Justified

\* The inductive invariant holds of every reachable state.
THEOREM CoordInvariant == Spec => []CoordInv
  BY InitCoordInv, NextCoordInv, PTL DEF Spec

\* Every reachable state of the composition is well typed.
THEOREM CoordTypeCorrect == Spec => []CoordTypeOK
<1>1. CoordInv => CoordTypeOK
  BY DEF CoordInv
<1> QED
  BY <1>1, CoordInvariant, PTL

(***************************************************************************)
(* The firewall opens an address only for a name the operator has enabled  *)
(* at some time, and only if DNS has answered with it, whatever handlers,  *)
(* faults, edits and restarts interleave.                                  *)
(***************************************************************************)
THEOREM EgressIsJustified == Spec => []EgressJustified
<1>1. CoordInv => EgressJustified
  BY DEF CoordInv
<1> QED
  BY <1>1, CoordInvariant, PTL

\* The rule list cache stays coherent under the coordinator's handlers, and
\* over a restart of the process.
THEOREM CacheCoherentUnderHandlers == Spec => []CacheCoherent
<1>1. CoordInv => CacheCoherent
  BY DEF CoordInv, ClientInv
<1> QED
  BY <1>1, CoordInvariant, PTL

-----------------------------------------------------------------------------
(***************************************************************************)
(* The operator's notes, when no two saves or refreshes overlap: whatever  *)
(* answers and bootstraps overlap with them, whatever requests fail, and   *)
(* whatever the operator edits in Proxmox meanwhile.                       *)
(*                                                                         *)
(* The invariant: the digest is that of a description whose notes are the  *)
(* remembered ones, and a save carries both from its start to its commit.  *)
(* So if Proxmox takes the digest, the notes that are sent are those it    *)
(* has.                                                                    *)
(***************************************************************************)
Writing(w) ==
  \/ step[w] \in {"put", "revoke", "get", "merge", "store"}
  \/ step[w] = "calls" /\ task[w].kind = "save"

NotesInv ==
  /\ lastDigest # {}
  /\ \A d \in lastDigest : d.notes = lastDesc.notes
  /\ \A w \in Workers :
       /\ Writing(w) => w \in Writers
       /\ step[w] \in {"put", "revoke"} =>
            task[w].digest = lastDigest /\ task[w].desc.notes = lastDesc.notes

(* Steps that leave the description, the digest and the writers alone.     *)
LEMMA NotesKept ==
  ASSUME NotesInv, UNCHANGED <<lastDesc, lastDigest>>,
         \A w \in Workers :
           /\ Writing(w)' => Writing(w) \/ w \in Writers
           /\ step'[w] \in {"put", "revoke"} =>
                \/ /\ step[w] \in {"put", "revoke"}
                   /\ task'[w].digest = task[w].digest /\ task'[w].desc = task[w].desc
                \/ task'[w].digest = lastDigest /\ task'[w].desc = lastDesc
  PROVE  NotesInv'
  BY DEF NotesInv

(* The same for a step of one handler.                                     *)
LEMMA NotesKeptBy ==
  ASSUME NotesInv, UNCHANGED <<lastDesc, lastDigest>>, NEW w \in Workers,
         \A v \in Workers : v # w => step'[v] = step[v] /\ task'[v] = task[v],
         Writing(w)' => Writing(w) \/ w \in Writers,
         step'[w] \in {"put", "revoke"} =>
           \/ /\ step[w] \in {"put", "revoke"}
              /\ task'[w].digest = task[w].digest /\ task'[w].desc = task[w].desc
           \/ task'[w].digest = lastDigest /\ task'[w].desc = lastDesc
  PROVE  NotesInv'
<1>1. \A v \in Workers : v # w => (Writing(v)' <=> Writing(v))
  BY DEF Writing
<1> QED
  BY <1>1, NotesKept

LEMMA StartNotes ==
  ASSUME CoordInv, NotesInv, NEW w \in Workers, HandlerStart(w)
  PROVE  NotesInv'
<1> USE DEF memoryVars
<1>t. step \in [Workers -> Labels] /\ task \in [Workers -> Tasks]
  BY DEF CoordInv, CoordTypeOK, Labels, Tasks
<1>1. ASSUME NEW n \in Names, NEW a \in Answers, ApplyDNS(w, n, a)
      PROVE  NotesInv'
  <2>1. /\ step'[w] \in {"calls", "note"} /\ task'[w].kind = "dns"
        /\ UNCHANGED <<lastDesc, lastDigest>>
        /\ \A v \in Workers : v # w => step'[v] = step[v] /\ task'[v] = task[v]
    BY <1>1, <1>t DEF ApplyDNS, Become
  <2> QED
    BY <2>1, NotesKeptBy DEF Writing
<1>2. ASSUME NEW text \in SaveTexts, SaveMergedList(w, text)
      PROVE  NotesInv'
  <2>1. /\ task'[w].digest = lastDigest /\ task'[w].desc = lastDesc /\ w \in Writers
        /\ UNCHANGED <<lastDesc, lastDigest>>
        /\ \A v \in Workers : v # w => step'[v] = step[v] /\ task'[v] = task[v]
    BY <1>2, <1>t DEF SaveMergedList, Become, Writers
  <2> QED
    BY <2>1, NotesKeptBy
<1>3. CASE PeriodicRefresh(w)
  <2>1. /\ step'[w] = "get" /\ w \in Writers
        /\ UNCHANGED <<lastDesc, lastDigest>>
        /\ \A v \in Workers : v # w => step'[v] = step[v] /\ task'[v] = task[v]
    BY <1>3, <1>t DEF PeriodicRefresh, Become, Writers
  <2> QED
    BY <2>1, NotesKeptBy
<1>4. ASSUME NEW host \in Hosts, RunBootstrap(w, host)
      PROVE  NotesInv'
  <2>1. /\ step'[w] = "calls" /\ task'[w].kind = "bootstrap"
        /\ UNCHANGED <<lastDesc, lastDigest>>
        /\ \A v \in Workers : v # w => step'[v] = step[v] /\ task'[v] = task[v]
    BY <1>4, <1>t DEF RunBootstrap, Become
  <2> QED
    BY <2>1, NotesKeptBy DEF Writing
<1> QED
  BY <1>1, <1>2, <1>3, <1>4 DEF HandlerStart

LEMMA StepNotes ==
  ASSUME OneWriter, CoordInv, NotesInv, NEW w \in Workers, HandlerStep(w)
  PROVE  NotesInv'
<1>u. UNCHANGED coordVars => UNCHANGED <<lastDesc, lastDigest, step, task>>
  BY DEF coordVars, memoryVars, handlerVars
<1>t. /\ step \in [Workers -> Labels] /\ task \in [Workers -> Tasks]
      /\ step[w] = "note" => task[w] \in DnsTask
      /\ step[w] \in {"put", "revoke"} => task[w] \in SaveTask
      /\ step[w] \in {"get", "merge", "store"} => task[w] \in RefreshTasks
  BY DEF CoordInv, CoordTypeOK, Labels, Tasks, HandlersTyped
<1>1. CASE \/ NextCall(w) \/ CallReturned(w) \/ Revoked(w)
           \/ (CallStep(w) /\ UNCHANGED coordVars)
  <2>1. UNCHANGED <<lastDesc, lastDigest, step, task>>
    BY <1>1, <1>u DEF NextCall, CallReturned, Revoked, memoryVars, handlerVars
  <2> QED
    BY <2>1, NotesKeptBy DEF Writing
<1>2. CASE NoteDenied(w)
  <2>1. /\ step'[w] = "calls" /\ task' = task /\ task[w].kind = "dns"
        /\ UNCHANGED <<lastDesc, lastDigest>>
        /\ \A v \in Workers : v # w => step'[v] = step[v]
    BY <1>2, <1>t DEF NoteDenied, At, DnsTask, memoryVars, handlerVars
  <2> QED
    BY <2>1, NotesKeptBy DEF Writing
<1>3. CASE CallsDone(w) \/ PutRejected(w) \/ PutReplyLost(w) \/ GetGuestConfigFails(w)
  <2>1. /\ step'[w] = "none" \/ (step'[w] = "get" /\ Writing(w))
        /\ UNCHANGED <<lastDesc, lastDigest>>
        /\ \A v \in Workers : v # w => step'[v] = step[v] /\ task'[v] = task[v]
    BY <1>3, <1>t DEF CallsDone, PutRejected, PutReplyLost, GetGuestConfigFails, Finish, Become, Writing, memoryVars, handlerVars
  <2>2. Writing(w)' => Writing(w)
    BY <2>1 DEF Writing
  <2> QED
    BY <2>1, <2>2, NotesKeptBy
<1>4. CASE PutDescription(w)
  <2>1. /\ step[w] = "put" /\ step'[w] = "revoke" /\ task' = task
        /\ UNCHANGED <<lastDesc, lastDigest>>
        /\ \A v \in Workers : v # w => step'[v] = step[v]
    BY <1>4, <1>t DEF PutDescription, At, memoryVars, handlerVars
  <2> QED
    BY <2>1, NotesKeptBy DEF Writing
<1>5. CASE RevokeNext(w)
  <2>1. PICK n \in task[w].revoke : task' = [task EXCEPT ![w].revoke = @ \ {n}]
    BY <1>5 DEF RevokeNext
  <2>2. /\ step[w] = "revoke" /\ step' = step
        /\ task'[w].digest = task[w].digest /\ task'[w].desc = task[w].desc
        /\ UNCHANGED <<lastDesc, lastDigest>>
        /\ \A v \in Workers : v # w => task'[v] = task[v]
    BY <1>5, <1>t, <2>1 DEF RevokeNext, SaveTask, memoryVars, handlerVars
  <2> QED
    BY <2>2, NotesKeptBy DEF Writing
<1>6. CASE GetGuestConfig(w) \/ MergeSeen(w)
  <2>1. /\ step'[w] \in {"merge", "store"} /\ Writing(w)
        /\ UNCHANGED <<lastDesc, lastDigest>>
        /\ \A v \in Workers : v # w => step'[v] = step[v] /\ task'[v] = task[v]
    BY <1>6, <1>t DEF GetGuestConfig, MergeSeen, Writing, memoryVars, handlerVars
  <2> QED
    BY <2>1, NotesKeptBy
\* The other handlers do not write.
<1>7. Writing(w) => \A v \in Workers : v # w => ~Writing(v)
  BY DEF NotesInv, OneWriter
<1>8. CASE CommitSave(w)
  <2>1. /\ Writing(w) /\ step'[w] = "calls" /\ lastDigest' = lastDigest
        /\ task[w] \in SaveTask /\ step[w] = "revoke"
        /\ lastDesc' = SpliceBlock(task[w].desc, task[w].text)
        /\ \A v \in Workers : v # w => step'[v] = step[v] /\ task'[v] = task[v]
    BY <1>8, <1>t DEF CommitSave, Become, Writing, memoryVars, handlerVars
  <2>2. lastDesc'.notes = task[w].desc.notes
    BY <2>1 DEF SpliceBlock, SaveTask, Description
  <2>3. lastDesc'.notes = lastDesc.notes
    BY <2>1, <2>2 DEF NotesInv
  <2>4. \A v \in Workers : v # w => ~Writing(v)'
    BY <1>7, <2>1 DEF Writing
  <2>5. \A v \in Workers : step'[v] \notin {"put", "revoke"} /\ (Writing(v)' => v = w)
    BY <2>1, <2>4 DEF Writing
  <2> QED
    BY <2>1, <2>3, <2>5 DEF NotesInv
<1>9. CASE StoreRefresh(w)
  <2>1. /\ Writing(w) /\ step'[w] = "none" /\ lastDigest' = {task[w].got} /\ lastDesc' = task[w].got
        /\ \A v \in Workers : v # w => step'[v] = step[v] /\ task'[v] = task[v]
    BY <1>9, <1>t DEF StoreRefresh, Finish, Become, Writing, memoryVars, handlerVars
  <2>2. \A v \in Workers : ~Writing(v)'
    BY <1>7, <2>1 DEF Writing
  <2> QED
    BY <2>1, <2>2 DEF NotesInv, Writing
<1> QED
  BY <1>1, <1>2, <1>3, <1>4, <1>5, <1>6, <1>8, <1>9 DEF HandlerStep

LEMMA InitNotes == OneWriter /\ Init => NotesInv
<1> SUFFICES ASSUME OneWriter, NEW s \in InitStates,
                    lastDesc = IF s.loaded THEN s.server ELSE EmptyDesc,
                    lastDigest = IF s.loaded THEN {s.server} ELSE NoDigest,
                    step = [w \in Workers |-> "none"]
             PROVE  NotesInv
  BY DEF Init
<1> QED
  BY DEF OneWriter, NotesInv, Writing

LEMMA NextNotes == OneWriter /\ CoordInv /\ NotesInv /\ [Next]_vars => NotesInv'
<1> SUFFICES ASSUME OneWriter, CoordInv, NotesInv, [Next]_vars
             PROVE  NotesInv'
  OBVIOUS
<1> USE DEF memoryVars, handlerVars, coordVars
<1>1. ~Restart
  BY DEF Restart, OneWriter, CoordInv, CoordTypeOK
<1>2. CASE \/ EnvStep /\ UNCHANGED coordVars
           \/ \E desc \in EditedDescriptions : OperatorEditsNotes(desc)
           \/ UNCHANGED vars
  <2>1. UNCHANGED <<lastDesc, lastDigest, step, task>>
    BY <1>2 DEF OperatorEditsNotes, vars
  <2> QED
    BY <2>1, NotesKept DEF Writing
<1> QED
  BY <1>1, <1>2, StartNotes, StepNotes DEF Next

(* Proxmox takes a description only with the notes it has.                 *)
LEMMA NotesOfStep ==
  ASSUME OneWriter, CoordInv, NotesInv, [Next]_vars, server'.notes # server.notes
  PROVE  hits'.edits # hits.edits
<1> USE DEF memoryVars, ghostVars, coordVars
<1>1. ASSUME NEW w \in Workers, PutDescription(w) \/ PutReplyLost(w)
      PROVE  server'.notes = server.notes
  <2>1. /\ step[w] = "put" /\ task[w] \in SaveTask /\ task[w].digest \subseteq {server}
        /\ server' = SpliceBlock(task[w].desc, task[w].text)
    BY <1>1 DEF PutDescription, PutReplyLost, StoreDescription, DigestAccepted, CoordInv, HandlersTyped
  <2>2. server'.notes = task[w].desc.notes
    BY <2>1 DEF SpliceBlock, SaveTask, Description
  <2>3. server \in lastDigest /\ task[w].desc.notes = lastDesc.notes
    BY <2>1 DEF NotesInv
  <2> QED
    BY <2>2, <2>3 DEF NotesInv
<1>2. ASSUME NEW w \in Workers, HandlerStart(w) \/ HandlerStep(w), ~PutDescription(w), ~PutReplyLost(w)
      PROVE  server' = server
  <2>1. CASE HandlerStart(w)
    BY <2>1 DEF HandlerStart, ApplyDNS, SaveMergedList, PeriodicRefresh, RunBootstrap
  <2>2. CASE HandlerStep(w)
    BY <1>2, <2>2 DEF HandlerStep, NoteDenied, NextCall, CallReturned, CallsDone, PutRejected, RevokeNext,
                      Revoked, CommitSave, GetGuestConfig, GetGuestConfigFails, MergeSeen, StoreRefresh
  <2> QED
    BY <1>2, <2>1, <2>2
<1>3. ~Restart
  BY DEF Restart, OneWriter, CoordInv, CoordTypeOK
<1>4. PICK desc : OperatorEditsNotes(desc)
  BY <1>1, <1>2, <1>3 DEF Next, vars
<1> QED
  BY <1>4 DEF OperatorEditsNotes, CoordInv, CoordTypeOK

(* When no two saves or refreshes overlap, a save never changes the        *)
(* operator's notes ("Anything outside the markers is untouched by the     *)
(* tool"; SaveMergedList, Refresh).                                        *)
THEOREM NotesArePreserved ==
  ASSUME OneWriter
  PROVE  Spec => NotesPreserved
<1>1. Init => NotesInv /\ CoordInv
  BY InitNotes, InitCoordInv
<1>2. CoordInv /\ NotesInv /\ [Next]_vars => CoordInv' /\ NotesInv'
  BY NextNotes, NextCoordInv
<1>3. CoordInv /\ NotesInv /\ [Next]_vars => [server'.notes # server.notes => hits'.edits # hits.edits]_vars
  BY NotesOfStep
<1> QED
  BY <1>1, <1>2, <1>3, PTL DEF Spec, NotesPreserved
=============================================================================
