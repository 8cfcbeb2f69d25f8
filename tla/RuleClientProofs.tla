-------------------------- MODULE RuleClientProofs --------------------------
(***************************************************************************)
(* The rule list cache is coherent, for every number of goroutines,        *)
(* guests, names and addresses, every list a guest may have, and every     *)
(* bound on failed requests and operator edits.                            *)
(***************************************************************************)
EXTENDS RuleClient, TLAPS, SequenceTheorems

LEMMA CreatedType ==
  ASSUME NEW list \in Seq(Rule), NEW r \in Rule
  PROVE  Created(list, r) \in Seq(Rule)
  BY DEF Created

LEMMA RemoveAtType ==
  ASSUME NEW list \in Seq(Rule), NEW pos \in DOMAIN list
  PROVE  RemoveAt(list, pos) \in Seq(Rule)
<1> DEFINE front == SubSeq(list, 1, pos - 1)
           back  == SubSeq(list, pos + 1, Len(list))
<1>1. front \in Seq(Rule)
  BY SubSeqProperties
<1>2. back \in Seq(Rule)
  BY SubSeqProperties
<1>3. front \o back \in Seq(Rule)
  BY <1>1, <1>2
<1> QED
  BY <1>3 DEF RemoveAt

-----------------------------------------------------------------------------
(* What a pass decides is well typed, and it dooms only rules of ours. *)

LEMMA DecisionType ==
  ASSUME NEW c \in Call, NEW list \in Seq(Rule)
  PROVE  /\ MissingRules(c, list) \subseteq Rule
         /\ DoomedPositions(c, list) \subseteq DOMAIN list
         /\ \A pos \in DoomedPositions(c, list) : list[pos].dest \in IPs \cup Hosts
<1>1. MissingRules(c, list) \subseteq Rule
  <2> SUFFICES ASSUME NEW r \in WantedRules(c)
               PROVE  r \in Rule
    BY DEF MissingRules
  <2>1. CASE c \in NameCall /\ c.kind = "sync"
    <3>1. PICK ip \in c.dests : r = [owner |-> c.name, tag |-> fqdnOutboundTag(ip), dest |-> ip]
      BY <2>1 DEF WantedRules
    <3>2. fqdnOutboundTag(ip) \in Families
      BY DEF fqdnOutboundTag, IPFamilyFromIP, Families
    <3>3. ip \in IPs /\ c.name \in Names
      BY <2>1 DEF NameCall
    <3> QED
      BY <3>1, <3>2, <3>3 DEF Rule, DynamicRule
  <2>2. CASE c \in BootCall
    <3>1. PICK p \in Protos, host \in c.dests :
            r = [owner |-> Bootstrap, tag |-> p, dest |-> host]
      BY <2>2 DEF WantedRules, BootCall
    <3>2. host \in Hosts
      BY <2>2 DEF BootCall
    <3> QED
      BY <3>1, <3>2 DEF Rule, BootstrapRule
  <2>3. CASE c \in NameCall /\ c.kind # "sync"
    <3>1. WantedRules(c) = {}
      BY <2>3 DEF WantedRules, NameCall
    <3> QED
      BY <3>1
  <2> QED
    BY <2>1, <2>2, <2>3 DEF Call
<1>2. DoomedPositions(c, list) \subseteq DOMAIN list
  BY DEF DoomedPositions, StaleBootstrap
<1>3. ASSUME NEW pos \in DoomedPositions(c, list)
      PROVE  list[pos].dest \in IPs \cup Hosts
  <2>1. pos \in DOMAIN list /\ list[pos] \in Rule
    BY <1>2, ElementOfSeq
  <2>2. list[pos].owner = c.name
    BY DEF DoomedPositions, StaleBootstrap, dynamicRuleMatchesDest, ruleManagedForFQDNFamily,
           Call, NameCall, BootCall
  <2>3. list[pos] \notin OperatorRule
    BY <2>2, RulesAssumption DEF OperatorRule, Call, NameCall, BootCall, Bootstrap, Operator
  <2> QED
    BY <2>1, <2>3 DEF Rule, DynamicRule, BootstrapRule
<1> QED
  BY <1>1, <1>2, <1>3

LEMMA NextPassType ==
  ASSUME NEW c \in Call
  PROVE  NextPass(c) \in Call
<1>1. CASE c \in NameCall
  <2>1. [c EXCEPT !.family = "ipv6"] \in NameCall
    BY <1>1 DEF NameCall, Families
  <2> QED
    BY <2>1 DEF NextPass, Call
<1>2. CASE c \in BootCall
  BY <1>2 DEF NextPass, Call, BootCall
<1> QED
  BY <1>1, <1>2 DEF Call

LEMMA ReportedType ==
  ASSUME NEW c, NEW gone \in SUBSET (IPs \cup Hosts)
  PROVE  ReportedOnError(c, gone) \in SUBSET (IPs \cup Hosts)
<1>1. CASE c.kind # "removeAll"
  BY <1>1, Zenon DEF ReportedOnError
<1>2. CASE c.kind = "removeAll" /\ c.family = "ipv4"
  BY <1>2, Zenon DEF ReportedOnError
<1>3. CASE c.kind = "removeAll" /\ c.family # "ipv4"
  BY <1>3, Zenon DEF ReportedOnError
<1> QED
  BY <1>1, <1>2, <1>3

-----------------------------------------------------------------------------
(* Type correctness, and what it needs: inside a call there is a call, and *)
(* the positions to delete are positions of the list they were found in.   *)

ClientTyped == ClientTypeOK /\ InsideCall /\ DoomedAreOurs

\* Some of a worker's bookkeeping after a pass was decided on a list.
LEMMA DecideTyped ==
  ASSUME ClientTyped, NEW w \in Workers, call[w] \in Call, NEW list \in Seq(Rule), Decide(w, list)
  PROVE  /\ pc' \in [Workers -> {"idle", "list", "get", "store", "apply", "invalidate", "done"}]
         /\ call' = call /\ removed' = removed /\ failed' = failed
         /\ view' \in [Workers -> Seq(Rule)]
         /\ creates' \in [Workers -> SUBSET Rule]
         /\ deletes' \in [Workers -> SUBSET (Nat \ {0})]
         /\ InsideCall' /\ DoomedAreOurs'
<1> USE DEF ClientTyped, ClientTypeOK, Decide, Goto
<1> DEFINE doomed == DoomedPositions(call[w], list)
<1>1. /\ MissingRules(call[w], list) \in SUBSET Rule
      /\ doomed \subseteq DOMAIN list
      /\ \A pos \in doomed : list[pos].dest \in IPs \cup Hosts
  BY DecisionType
<1>2. doomed \in SUBSET (Nat \ {0})
  BY <1>1
<1> HIDE DEF doomed
<1>3. /\ view' = [view EXCEPT ![w] = list]
      /\ deletes' = [deletes EXCEPT ![w] = doomed]
  BY DEF doomed
<1>4. InsideCall'
  BY DEF InsideCall
<1>5. DoomedAreOurs'
  BY <1>1, <1>3 DEF DoomedAreOurs
<1> QED
  BY <1>1, <1>2, <1>3, <1>4, <1>5

\* And after an error return.
LEMMA AbortTyped ==
  ASSUME ClientTyped, NEW w \in Workers, call[w] \in Call, Abort(w)
  PROVE  /\ pc' \in [Workers -> {"idle", "list", "get", "store", "apply", "invalidate", "done"}]
         /\ call' = call
         /\ view' \in [Workers -> Seq(Rule)]
         /\ creates' \in [Workers -> SUBSET Rule]
         /\ deletes' \in [Workers -> SUBSET (Nat \ {0})]
         /\ removed' \in [Workers -> SUBSET (IPs \cup Hosts)]
         /\ failed' \in [Workers -> BOOLEAN]
         /\ InsideCall' /\ DoomedAreOurs'
<1> USE DEF ClientTyped, ClientTypeOK, Abort, Drop, Goto
<1>1. removed' \in [Workers -> SUBSET (IPs \cup Hosts)]
  <2>1. ReportedOnError(call[w], removed[w]) \in SUBSET (IPs \cup Hosts)
    BY ReportedType
  <2> QED
    BY <2>1
<1>2. InsideCall'
  BY DEF InsideCall
<1>3. DoomedAreOurs'
  BY DEF DoomedAreOurs
<1>4. <<>> \in Seq(Rule)
  OBVIOUS
<1> QED
  BY <1>1, <1>2, <1>3, <1>4

LEMMA InitTyped == ClientInit => ClientTyped
<1> SUFFICES ASSUME ClientInit
             PROVE  ClientTyped
  OBVIOUS
<1>1. <<>> \in Seq(Rule)
  OBVIOUS
<1>2. ClientTypeOK
  BY <1>1, ClientAssumption DEF ClientInit, ClientTypeOK, Dead
<1>3. InsideCall /\ DoomedAreOurs
  BY DEF ClientInit, InsideCall, DoomedAreOurs
<1> QED
  BY <1>2, <1>3 DEF ClientTyped

LEMMA IssueTyped ==
  ASSUME ClientTyped, NEW w \in Workers, NEW c \in Call, Issue(w, c)
  PROVE  ClientTyped'
<1> USE DEF Issue, Goto
<1>1. ClientTypeOK'
  BY DEF ClientTyped, ClientTypeOK
<1>2. InsideCall' /\ DoomedAreOurs'
  BY DEF ClientTyped, ClientTypeOK, InsideCall, DoomedAreOurs
<1> QED
  BY <1>1, <1>2 DEF ClientTyped

LEMMA ReturnTyped ==
  ASSUME ClientTyped, NEW w \in Workers, Return(w)
  PROVE  ClientTyped'
<1> USE DEF Return, Goto
<1>1. ClientTypeOK'
  BY DEF ClientTyped, ClientTypeOK
<1>2. InsideCall' /\ DoomedAreOurs'
  BY DEF ClientTyped, ClientTypeOK, InsideCall, DoomedAreOurs
<1> QED
  BY <1>1, <1>2 DEF ClientTyped

LEMMA CallStepTyped ==
  ASSUME ClientTyped, NEW w \in Workers, CallStep(w)
  PROVE  ClientTyped'
<1> USE DEF ClientTyped
<1>c. call[w] \in Call /\ call[w].guest \in Guests
  <2>1. pc[w] # "idle"
    BY DEF CallStep, ListHit, ListMiss, GetAnswered, GetFails, Store, Invalidate, CreateRule,
           DeleteRule, DeleteOutOfRange, ChangeRejected, ChangeReplyLost, EndPass
  <2>2. call[w] \in Call
    BY <2>1 DEF InsideCall
  <2> QED
    BY <2>2 DEF Call, NameCall, BootCall
<1>r. rules[call[w].guest] \in Seq(Rule)
  BY <1>c DEF ClientTypeOK
<1>1. CASE ListHit(w)
  <2>1. cache.list \in Seq(Rule) /\ Decide(w, cache.list)
    BY <1>1 DEF ListHit, ClientTypeOK
  <2> QED
    BY <1>1, <1>c, <2>1, DecideTyped DEF ListHit, ClientTypeOK
<1>2. CASE ListMiss(w)
  BY <1>2 DEF ListMiss, Goto, ClientTypeOK, InsideCall, DoomedAreOurs
<1>3. CASE GetAnswered(w)
  <2>1. view' \in [Workers -> Seq(Rule)]
    BY <1>3, <1>r DEF GetAnswered, ClientTypeOK
  <2> QED
    BY <1>3, <2>1 DEF GetAnswered, Goto, ClientTypeOK, InsideCall, DoomedAreOurs
<1>4. CASE GetFails(w)
  <2>1. Abort(w)
    BY <1>4 DEF GetFails
  <2> QED
    BY <1>4, <1>c, <2>1, AbortTyped DEF GetFails, ClientTypeOK
<1>5. CASE Store(w)
  <2>1. view[w] \in Seq(Rule) /\ Decide(w, view[w])
    BY <1>5 DEF Store, ClientTypeOK
  <2> QED
    BY <1>5, <1>c, <2>1, DecideTyped DEF Store, ClientTypeOK
<1>6. CASE Invalidate(w)
  BY <1>6 DEF Invalidate, Goto, Dead, ClientTypeOK, InsideCall, DoomedAreOurs
<1>7. CASE CreateRule(w)
  <2>1. PICK r \in creates[w] :
          /\ rules' = [rules EXCEPT ![call[w].guest] = Created(@, r)]
          /\ creates' = [creates EXCEPT ![w] = @ \ {r}]
    BY <1>7 DEF CreateRule
  <2>2. r \in Rule
    BY DEF ClientTypeOK
  <2>3. Created(rules[call[w].guest], r) \in Seq(Rule)
    BY <1>r, <2>2, CreatedType
  <2>4. rules' \in [Guests -> Seq(Rule)] /\ creates' \in [Workers -> SUBSET Rule]
    BY <1>c, <2>1, <2>3 DEF ClientTypeOK
  <2> QED
    BY <1>7, <2>4 DEF CreateRule, AfterChange, Goto, ClientTypeOK, InsideCall, DoomedAreOurs
<1>8. CASE DeleteRule(w)
  <2>1. PICK pos \in deletes[w] :
          /\ pos \in DOMAIN rules[call[w].guest]
          /\ rules' = [rules EXCEPT ![call[w].guest] = Deleted(@, pos)]
          /\ deletes' = [deletes EXCEPT ![w] = @ \ {pos}]
          /\ removed' = [removed EXCEPT ![w] = @ \cup {view[w][pos].dest}]
    BY <1>8 DEF DeleteRule
  <2>2. Deleted(rules[call[w].guest], pos) \in Seq(Rule)
    BY <1>r, <2>1, RemoveAtType DEF Deleted
  <2>3. rules' \in [Guests -> Seq(Rule)]
    BY <1>c, <2>1, <2>2 DEF ClientTypeOK
  <2>4. view[w][pos].dest \in IPs \cup Hosts
    BY DEF DoomedAreOurs
  <2>5. removed' \in [Workers -> SUBSET (IPs \cup Hosts)]
    BY <2>1, <2>4 DEF ClientTypeOK
  <2>6. deletes' \in [Workers -> SUBSET (Nat \ {0})] /\ \A v \in Workers : deletes'[v] \subseteq deletes[v]
    BY <2>1 DEF ClientTypeOK
  <2>7. ClientTypeOK'
    BY <1>8, <2>3, <2>5, <2>6 DEF DeleteRule, AfterChange, Goto, ClientTypeOK
  <2>8. InsideCall' /\ DoomedAreOurs'
    BY <1>8, <2>6 DEF DeleteRule, AfterChange, Goto, ClientTypeOK, InsideCall, DoomedAreOurs
  <2> QED
    BY <2>7, <2>8
<1>9. CASE DeleteOutOfRange(w)
  <2>1. Abort(w)
    BY <1>9 DEF DeleteOutOfRange
  <2> QED
    BY <1>9, <1>c, <2>1, AbortTyped DEF DeleteOutOfRange, ClientTypeOK
<1>10. CASE ChangeRejected(w)
  <2>1. Abort(w)
    BY <1>10 DEF ChangeRejected
  <2> QED
    BY <1>10, <1>c, <2>1, AbortTyped DEF ChangeRejected, ClientTypeOK
<1>11. CASE ChangeReplyLost(w)
  <2>1. Abort(w)
    BY <1>11 DEF ChangeReplyLost
  <2>2. \A r \in creates[w] : Created(rules[call[w].guest], r) \in Seq(Rule)
    BY <1>r, CreatedType DEF ClientTypeOK
  <2>3. \A pos \in DOMAIN rules[call[w].guest] : Deleted(rules[call[w].guest], pos) \in Seq(Rule)
    BY <1>r, RemoveAtType DEF Deleted
  <2>4. rules' \in [Guests -> Seq(Rule)]
    <3>1. CASE \E r \in creates[w] : rules' = [rules EXCEPT ![call[w].guest] = Created(@, r)]
      BY <1>c, <2>2, <3>1 DEF ClientTypeOK
    <3>2. CASE \E pos \in deletes[w] : /\ pos \in DOMAIN rules[call[w].guest]
                                      /\ rules' = [rules EXCEPT ![call[w].guest] = Deleted(@, pos)]
      BY <1>c, <2>3, <3>2 DEF ClientTypeOK
    <3> QED
      BY <1>11, <3>1, <3>2 DEF ChangeReplyLost
  <2> QED
    BY <1>11, <1>c, <2>1, <2>4, AbortTyped DEF ChangeReplyLost, ClientTypeOK
<1>12. CASE EndPass(w)
  <2>1. call' \in [Workers -> Call \cup {NoCall}] /\ \A v \in Workers : call[v] \in Call => call'[v] \in Call
    <3>1. NextPass(call[w]) \in Call
      BY <1>c, NextPassType
    <3>2. call' \in {call, [call EXCEPT ![w] = NextPass(@)]}
      BY <1>12 DEF EndPass
    <3> QED
      BY <3>1, <3>2 DEF ClientTypeOK
  <2>2. InsideCall'
    BY <1>12, <1>c, <2>1 DEF EndPass, Goto, ClientTypeOK, InsideCall
  <2>3. DoomedAreOurs'
    BY <1>12 DEF EndPass, Drop, Goto, ClientTypeOK, DoomedAreOurs
  <2>4. ClientTypeOK'
    <3>1. /\ pc' \in {[pc EXCEPT ![w] = "list"], [pc EXCEPT ![w] = "done"]}
          /\ view' = [view EXCEPT ![w] = <<>>]
          /\ creates' = [creates EXCEPT ![w] = {}]
          /\ deletes' = [deletes EXCEPT ![w] = {}]
          /\ UNCHANGED <<rules, cache, lock, removed, failed, faults, edits, drift>>
      BY <1>12 DEF EndPass, Drop, Goto
    <3>2. <<>> \in Seq(Rule)
      OBVIOUS
    <3> QED
      BY <2>1, <3>1, <3>2 DEF ClientTypeOK
  <2> QED
    BY <2>2, <2>3, <2>4
<1> QED
  BY <1>1, <1>2, <1>3, <1>4, <1>5, <1>6, <1>7, <1>8, <1>9, <1>10, <1>11, <1>12 DEF CallStep

LEMMA EnvStepTyped ==
  ASSUME ClientTyped, EnvStep
  PROVE  ClientTyped'
<1> USE DEF ClientTyped
<1>1. CASE Expire
  <2>1. <<>> \in Seq(Rule)
    OBVIOUS
  <2>2. ClientTypeOK'
    BY <1>1, <2>1 DEF Expire, Dead, workVars, ClientTypeOK
  <2>3. InsideCall' /\ DoomedAreOurs'
    BY <1>1 DEF Expire, workVars, InsideCall, DoomedAreOurs
  <2> QED
    BY <2>2, <2>3
<1>2. ASSUME NEW g \in Guests, OperatorEdits(g)
      PROVE  ClientTyped'
  <2>1. rules[g] \in Seq(Rule)
    BY DEF ClientTypeOK
  <2>2. ASSUME NEW d \in Manual
        PROVE  Created(rules[g], [owner |-> Operator, tag |-> "none", dest |-> d]) \in Seq(Rule)
    <3>1. [owner |-> Operator, tag |-> "none", dest |-> d] \in Rule
      BY DEF Rule, OperatorRule
    <3> QED
      BY <2>1, <3>1, CreatedType
  <2>3. ASSUME NEW i \in DOMAIN rules[g]
        PROVE  RemoveAt(rules[g], i) \in Seq(Rule)
    BY <2>1, RemoveAtType
  <2>4. rules' \in [Guests -> Seq(Rule)]
    BY <1>2, <2>2, <2>3 DEF OperatorEdits, ClientTypeOK
  <2>5. ClientTypeOK'
    BY <1>2, <2>4 DEF OperatorEdits, workVars, ClientTypeOK
  <2>6. InsideCall' /\ DoomedAreOurs'
    BY <1>2 DEF OperatorEdits, workVars, InsideCall, DoomedAreOurs
  <2> QED
    BY <2>5, <2>6
<1> QED
  BY <1>1, <1>2 DEF EnvStep

LEMMA StutterTyped ==
  ASSUME ClientTyped, UNCHANGED clientVars
  PROVE  ClientTyped'
  BY DEF ClientTyped, ClientTypeOK, InsideCall, DoomedAreOurs, clientVars, workVars

(***************************************************************************)
(* What the workers may do when any call can be made: RuleClient alone     *)
(* makes the calls of Calls, the coordinator those of its handlers.        *)
(***************************************************************************)
AnyClientNext ==
  \/ \E w \in Workers : CallStep(w) \/ Return(w) \/ \E c \in Call : Issue(w, c)
  \/ EnvStep

LEMMA AnyNext == [ClientNext]_clientVars => [AnyClientNext]_clientVars
  BY ClientAssumption DEF ClientNext, AnyClientNext

LEMMA NextTyped == ClientTyped /\ [AnyClientNext]_clientVars => ClientTyped'
<1> SUFFICES ASSUME ClientTyped, [AnyClientNext]_clientVars
             PROVE  ClientTyped'
  OBVIOUS
<1>1. ASSUME NEW w \in Workers, CallStep(w) PROVE ClientTyped'
  BY <1>1, CallStepTyped
<1>2. ASSUME NEW w \in Workers, Return(w) PROVE ClientTyped'
  BY <1>2, ReturnTyped
<1>3. ASSUME NEW w \in Workers, NEW c \in Call, Issue(w, c) PROVE ClientTyped'
  BY <1>3, IssueTyped
<1>4. CASE EnvStep
  BY <1>4, EnvStepTyped
<1>5. CASE UNCHANGED clientVars
  BY <1>5, StutterTyped
<1> QED
  BY <1>1, <1>2, <1>3, <1>4, <1>5 DEF AnyClientNext

\* Every reachable state is well typed, for all values of the constants.
THEOREM ClientTypeCorrect == ClientSpec => []ClientTypeOK
<1>1. ClientTyped => ClientTypeOK
  BY DEF ClientTyped
<1> QED
  BY <1>1, InitTyped, NextTyped, AnyNext, PTL DEF ClientSpec

-----------------------------------------------------------------------------
(* The mutex. *)

LEMMA InitMutex == ClientInit => MutexGuardsFetch
  BY ClientAssumption DEF ClientInit, MutexGuardsFetch, Dead

LEMMA NextMutex == ClientTyped /\ MutexGuardsFetch /\ [AnyClientNext]_clientVars => MutexGuardsFetch'
<1> SUFFICES ASSUME ClientTyped, MutexGuardsFetch, [AnyClientNext]_clientVars
             PROVE  MutexGuardsFetch'
  OBVIOUS
<1> USE ClientAssumption DEF ClientTyped, ClientTypeOK, MutexGuardsFetch, Goto
<1>1. ASSUME NEW w \in Workers, CallStep(w) PROVE MutexGuardsFetch'
  <2>1. CASE ListHit(w)
    BY <2>1 DEF ListHit, Decide
  <2>2. CASE ListMiss(w)
    BY <2>2 DEF ListMiss
  <2>3. CASE GetAnswered(w)
    BY <2>3 DEF GetAnswered
  <2>4. CASE GetFails(w)
    BY <2>4 DEF GetFails, Abort
  <2>5. CASE Store(w)
    BY <2>5 DEF Store, Decide
  <2>6. CASE Invalidate(w)
    BY <2>6 DEF Invalidate, Dead
  <2>7. CASE CreateRule(w)
    BY <2>7 DEF CreateRule, AfterChange
  <2>8. CASE DeleteRule(w)
    BY <2>8 DEF DeleteRule, AfterChange
  <2>9. CASE DeleteOutOfRange(w) \/ ChangeRejected(w) \/ ChangeReplyLost(w)
    BY <2>9 DEF DeleteOutOfRange, ChangeRejected, ChangeReplyLost, Abort
  <2>10. CASE EndPass(w)
    BY <2>10 DEF EndPass
  <2> QED
    BY <1>1, <2>1, <2>2, <2>3, <2>4, <2>5, <2>6, <2>7, <2>8, <2>9, <2>10 DEF CallStep
<1>2. ASSUME NEW w \in Workers, Return(w) PROVE MutexGuardsFetch'
  BY <1>2 DEF Return
<1>3. ASSUME NEW w \in Workers, NEW c \in Call, Issue(w, c) PROVE MutexGuardsFetch'
  BY <1>3 DEF Issue
<1>4. CASE EnvStep
  BY <1>4 DEF EnvStep, Expire, OperatorEdits, Dead, workVars
<1>5. CASE UNCHANGED clientVars
  BY <1>5 DEF clientVars, workVars
<1> QED
  BY <1>1, <1>2, <1>3, <1>4, <1>5 DEF AnyClientNext

\* Two fetches of the list never overlap, and the cache is dead during one.
THEOREM MutexCorrect == ClientSpec => []MutexGuardsFetch
<1>1. ClientInit => ClientTyped /\ MutexGuardsFetch
  BY InitTyped, InitMutex
<1>2. ClientTyped /\ MutexGuardsFetch /\ [ClientNext]_clientVars => (ClientTyped /\ MutexGuardsFetch)'
  BY NextTyped, NextMutex, AnyNext
<1> QED
  BY <1>1, <1>2, PTL DEF ClientSpec

-----------------------------------------------------------------------------
(* Coherence of the cached list and of a fetched one. *)

Coherent == FetchCoherent /\ CacheCoherent

LEMMA InitCoherent == ClientInit => Coherent
  BY DEF ClientInit, Coherent, FetchCoherent, CacheCoherent, Dead

\* A step that changes no list, keeps or kills the cache, and neither fetches
\* a list nor ends a worker's duty to invalidate keeps both coherent.
LEMMA CoherenceKept ==
  ASSUME ClientTyped, Coherent,
         UNCHANGED <<rules, drift>>, cache' \in {cache, Dead},
         \A v \in Workers : pc'[v] = "store" =>
           pc[v] = "store" /\ view'[v] = view[v] /\ call'[v] = call[v],
         \A v \in Workers : pc[v] = "invalidate" =>
           pc'[v] = "invalidate" /\ call'[v] = call[v]
  PROVE  Coherent'
<1>1. \A v \in Workers, g \in Guests : Invalidating(v, g) => Invalidating(v, g)'
  BY DEF Invalidating
<1>2. FetchCoherent'
  <2> SUFFICES ASSUME NEW w \in Workers, pc'[w] = "store", ~drift',
                      \A v \in Workers : ~Invalidating(v, call[w].guest)'
               PROVE  view'[w] = rules'[call'[w].guest]
    BY DEF FetchCoherent, Invalidating
  <2>1. pc[w] = "store" /\ call[w].guest \in Guests
    BY DEF ClientTyped, InsideCall, Call, NameCall, BootCall
  <2>2. \A v \in Workers : ~Invalidating(v, call[w].guest)
    BY <1>1, <2>1
  <2> QED
    BY <2>1, <2>2 DEF Coherent, FetchCoherent
<1>3. CacheCoherent'
  BY <1>1 DEF Coherent, CacheCoherent, Dead, ClientTyped, ClientTypeOK
<1> QED
  BY <1>2, <1>3 DEF Coherent

\* So does a change of a guest's list by a worker that now has to invalidate.
LEMMA ChangeCoherent ==
  ASSUME ClientTyped, Coherent, NEW w \in Workers, pc[w] = "apply", AfterChange(w),
         NEW X, rules' = [rules EXCEPT ![call[w].guest] = X],
         UNCHANGED <<cache, call, view, drift>>
  PROVE  Coherent'
<1> USE DEF AfterChange, Goto
<1>1. \A g \in Guests : g # call[w].guest => rules'[g] = rules[g]
  BY DEF ClientTyped, ClientTypeOK
<1>2. Invalidating(w, call[w].guest)'
  BY DEF Invalidating, ClientTyped, ClientTypeOK
<1>3. \A v \in Workers, g \in Guests : Invalidating(v, g) => Invalidating(v, g)'
  BY DEF Invalidating, ClientTyped, ClientTypeOK
<1>4. FetchCoherent'
  <2> SUFFICES ASSUME NEW u \in Workers, pc'[u] = "store", ~drift',
                      \A v \in Workers : ~Invalidating(v, call[u].guest)'
               PROVE  view'[u] = rules'[call'[u].guest]
    BY DEF FetchCoherent
  <2>1. pc[u] = "store"
    BY DEF ClientTyped, ClientTypeOK
  <2>2. call[u].guest \in Guests
    BY <2>1 DEF ClientTyped, InsideCall, Call, NameCall, BootCall
  <2>3. call[u].guest # call[w].guest
    BY <1>2 DEF Invalidating
  <2>4. \A v \in Workers : ~Invalidating(v, call[u].guest)
    BY <1>3, <2>2 DEF Invalidating
  <2>5. view[u] = rules[call[u].guest]
    BY <2>1, <2>4 DEF Coherent, FetchCoherent
  <2> QED
    BY <1>1, <2>2, <2>3, <2>5
<1>5. CacheCoherent'
  <2> SUFFICES ASSUME cache.live, ~drift, NEW g \in cache.of,
                      \A v \in Workers : ~Invalidating(v, g)'
               PROVE  cache.list = rules'[g]
    BY DEF CacheCoherent
  <2>1. g \in Guests
    BY DEF ClientTyped, ClientTypeOK
  <2>2. g # call[w].guest
    BY <1>2
  <2>3. \A v \in Workers : ~Invalidating(v, g)
    BY <1>3, <2>1
  <2> QED
    BY <1>1, <2>1, <2>2, <2>3 DEF Coherent, CacheCoherent
<1> QED
  BY <1>4, <1>5 DEF Coherent

LEMMA CallStepCoherent ==
  ASSUME ClientTyped, MutexGuardsFetch, Coherent, NEW w \in Workers, CallStep(w)
  PROVE  Coherent'
<1> USE DEF ClientTyped, ClientTypeOK
<1>1. CASE ListHit(w)
  BY <1>1, CoherenceKept DEF ListHit, Decide, Goto
<1>2. CASE ListMiss(w)
  BY <1>2, CoherenceKept DEF ListMiss, Goto
<1>3. CASE GetAnswered(w)
  <2>1. lock = w /\ ~cache.live /\ \A v \in Workers : pc[v] = "store" => v = w
    BY <1>3, ClientAssumption DEF GetAnswered, MutexGuardsFetch
  <2>2. \A v \in Workers : pc'[v] = "store" => v = w
    BY <1>3, <2>1 DEF GetAnswered, Goto
  <2>3. view'[w] = rules[call[w].guest]
    BY <1>3 DEF GetAnswered
  <2>4. FetchCoherent'
    BY <1>3, <2>2, <2>3 DEF GetAnswered, FetchCoherent
  <2>5. CacheCoherent'
    BY <1>3, <2>1 DEF GetAnswered, CacheCoherent
  <2> QED
    BY <2>4, <2>5 DEF Coherent
<1>4. CASE GetFails(w)
  <2>1. /\ UNCHANGED <<rules, drift>> /\ cache' = cache
        /\ \A v \in Workers : v # w => /\ pc'[v] = pc[v] /\ view'[v] = view[v]
                                      /\ call'[v] = call[v]
        /\ pc[w] \notin {"store", "invalidate"} /\ pc'[w] \notin {"store", "invalidate"}
    BY <1>4 DEF GetFails, Abort, Drop, Goto
  <2>2. /\ \A v \in Workers : pc'[v] = "store" =>
             pc[v] = "store" /\ view'[v] = view[v] /\ call'[v] = call[v]
        /\ \A v \in Workers : pc[v] = "invalidate" => pc'[v] = "invalidate" /\ call'[v] = call[v]
    BY <2>1
  <2> QED
    BY <2>1, <2>2, CoherenceKept
<1>5. CASE Store(w)
  <2>1. lock = w /\ \A v \in Workers : pc[v] = "store" => v = w
    BY <1>5, ClientAssumption DEF Store, MutexGuardsFetch
  <2>2. \A v \in Workers : pc'[v] # "store"
    BY <1>5, <2>1 DEF Store, Decide, Goto
  <2>3. FetchCoherent'
    BY <2>2 DEF FetchCoherent
  <2>4. CacheCoherent'
    <3>0. /\ cache' = [live |-> TRUE, list |-> view[w], of |-> {call[w].guest}]
          /\ UNCHANGED <<rules, drift, call>>
      BY <1>5 DEF Store, Decide
    <3> SUFFICES ASSUME ~drift, \A v \in Workers : ~Invalidating(v, call[w].guest)'
                 PROVE  view[w] = rules[call[w].guest]
      BY <3>0 DEF CacheCoherent, Invalidating
    <3>1. \A v \in Workers : ~Invalidating(v, call[w].guest)
      BY <1>5 DEF Store, Decide, Goto, Invalidating
    <3> QED
      BY <1>5, <3>1 DEF Store, Coherent, FetchCoherent
  <2> QED
    BY <2>3, <2>4 DEF Coherent
<1>6. CASE Invalidate(w)
  <2>1. \A v \in Workers : pc'[v] # "store"
    BY <1>6, ClientAssumption DEF Invalidate, Goto, MutexGuardsFetch
  <2> QED
    BY <1>6, <2>1 DEF Invalidate, Dead, Coherent, FetchCoherent, CacheCoherent
<1>7. CASE CreateRule(w)
  <2>1. PICK r \in creates[w] : rules' = [rules EXCEPT ![call[w].guest] = Created(@, r)]
    BY <1>7 DEF CreateRule
  <2> QED
    BY <1>7, <2>1, ChangeCoherent DEF CreateRule
<1>8. CASE DeleteRule(w)
  <2>1. PICK pos \in deletes[w] : rules' = [rules EXCEPT ![call[w].guest] = Deleted(@, pos)]
    BY <1>8 DEF DeleteRule
  <2> QED
    BY <1>8, <2>1, ChangeCoherent DEF DeleteRule
<1>9. CASE DeleteOutOfRange(w) \/ ChangeRejected(w)
  <2>1. /\ UNCHANGED <<rules, drift>> /\ cache' = cache
        /\ \A v \in Workers : v # w => /\ pc'[v] = pc[v] /\ view'[v] = view[v]
                                      /\ call'[v] = call[v]
        /\ pc[w] \notin {"store", "invalidate"} /\ pc'[w] \notin {"store", "invalidate"}
    BY <1>9 DEF DeleteOutOfRange, ChangeRejected, Abort, Drop, Goto
  <2>2. /\ \A v \in Workers : pc'[v] = "store" =>
             pc[v] = "store" /\ view'[v] = view[v] /\ call'[v] = call[v]
        /\ \A v \in Workers : pc[v] = "invalidate" => pc'[v] = "invalidate" /\ call'[v] = call[v]
    BY <2>1
  <2> QED
    BY <2>1, <2>2, CoherenceKept
<1>10. CASE ChangeReplyLost(w)
  BY <1>10 DEF ChangeReplyLost, Coherent, FetchCoherent, CacheCoherent
<1>11. CASE EndPass(w)
  <2>1. /\ UNCHANGED <<rules, drift, cache>>
        /\ \A v \in Workers : v # w => /\ pc'[v] = pc[v] /\ view'[v] = view[v]
                                      /\ call'[v] = call[v]
        /\ pc[w] = "apply" /\ pc'[w] \in {"list", "done"}
    BY <1>11 DEF EndPass, Drop, Goto
  <2>2. /\ \A v \in Workers : pc'[v] = "store" =>
             pc[v] = "store" /\ view'[v] = view[v] /\ call'[v] = call[v]
        /\ \A v \in Workers : pc[v] = "invalidate" => pc'[v] = "invalidate" /\ call'[v] = call[v]
    BY <2>1
  <2> QED
    BY <2>1, <2>2, CoherenceKept
<1> QED
  BY <1>1, <1>2, <1>3, <1>4, <1>5, <1>6, <1>7, <1>8, <1>9, <1>10, <1>11 DEF CallStep

LEMMA NextCoherent ==
  ClientTyped /\ MutexGuardsFetch /\ Coherent /\ [AnyClientNext]_clientVars => Coherent'
<1> SUFFICES ASSUME ClientTyped, MutexGuardsFetch, Coherent, [AnyClientNext]_clientVars
             PROVE  Coherent'
  OBVIOUS
<1>1. ASSUME NEW w \in Workers, CallStep(w) PROVE Coherent'
  BY <1>1, CallStepCoherent
<1>2. ASSUME NEW w \in Workers, Return(w) PROVE Coherent'
  BY <1>2, CoherenceKept DEF Return, Goto, ClientTyped, ClientTypeOK
<1>3. ASSUME NEW w \in Workers, NEW c \in Call, Issue(w, c) PROVE Coherent'
  BY <1>3, CoherenceKept DEF Issue, Goto, ClientTyped, ClientTypeOK
<1>4. CASE Expire
  BY <1>4, CoherenceKept DEF Expire, workVars
<1>5. ASSUME NEW g \in Guests, OperatorEdits(g) PROVE Coherent'
  BY <1>5 DEF OperatorEdits, workVars, Coherent, FetchCoherent, CacheCoherent
<1>6. CASE UNCHANGED clientVars
  BY <1>6, CoherenceKept DEF clientVars, workVars
<1> QED
  BY <1>1, <1>2, <1>3, <1>4, <1>5, <1>6 DEF AnyClientNext, EnvStep

LEMMA InitInv == ClientInit => ClientInv
  BY InitTyped, InitMutex, InitCoherent DEF ClientInv, ClientTyped, Coherent

LEMMA NextInv == ClientInv /\ [AnyClientNext]_clientVars => ClientInv'
  BY NextTyped, NextMutex, NextCoherent DEF ClientInv, ClientTyped, Coherent

\* The inductive invariant holds of every reachable state.
THEOREM ClientInvariant == ClientSpec => []ClientInv
  BY InitInv, NextInv, AnyNext, PTL DEF ClientSpec

\* The cache answers with a guest's real list, unless a worker is about to
\* invalidate it or the list changed behind the program's back.
THEOREM CacheIsCoherent == ClientSpec => []CacheCoherent
<1>1. ClientInv => CacheCoherent
  BY DEF ClientInv
<1> QED
  BY <1>1, ClientInvariant, PTL
=============================================================================
