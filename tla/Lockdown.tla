------------------------------ MODULE Lockdown ------------------------------
(***************************************************************************)
(* What the program promises of the guest's egress while its handlers do   *)
(* not overlap: at rest the firewall opens the latest addresses of the     *)
(* enabled names and nothing else, and on the way from one rest to the     *)
(* next it changes one address at a time, each for the better.             *)
(***************************************************************************)
CONSTANTS Names, IPs, FamilyOf(_)

VARIABLES
  enabled,     \* names the guest's list enables
  addresses,   \* per name: its addresses by the latest answers, but for those forgotten
  open,        \* pairs <<name, address>> that the firewall opens
  busy         \* a handler is under way

vars == <<enabled, addresses, open, busy>>

Wanted == {p \in Names \X IPs : p[1] \in enabled /\ p[2] \in addresses[p[1]]}

Init ==
  /\ enabled \subseteq Names
  /\ addresses \in [Names -> SUBSET IPs]
  /\ open = Wanted
  /\ busy = FALSE

Begins == ~busy /\ busy' /\ UNCHANGED <<enabled, open>>

\* An answer for n carries ips: they replace those of their family.  Of a name that
\* is not enabled, addresses of the other family may be forgotten with it: enabled
\* later, it is not opened in that family before the next answer.
Answer(n, ips) ==
  /\ Begins
  /\ LET others == {ip \in addresses[n] : \A new \in ips : FamilyOf(ip) # FamilyOf(new)} IN
     \E kept \in IF n \in enabled THEN {others} ELSE {others, {}} :
       addresses' = [addresses EXCEPT ![n] = kept \cup ips]

OtherHandler == Begins /\ UNCHANGED addresses

StoreList == busy /\ enabled' \subseteq Names /\ UNCHANGED <<addresses, open, busy>>

Forget(n) ==
  /\ busy /\ n \notin enabled
  /\ addresses' = [addresses EXCEPT ![n] = {}]
  /\ UNCHANGED <<enabled, open, busy>>

\* No wanted address is ever closed, and no other is opened.
Open  == busy /\ (\E p \in Wanted \ open : open' = open \cup {p}) /\ UNCHANGED <<enabled, addresses, busy>>
Close == busy /\ (\E p \in open \ Wanted : open' = open \ {p}) /\ UNCHANGED <<enabled, addresses, busy>>

Rest == busy /\ open = Wanted /\ ~busy' /\ UNCHANGED <<enabled, addresses, open>>

Next ==
  \/ OtherHandler \/ StoreList \/ Open \/ Close \/ Rest
  \/ \E n \in Names : Forget(n) \/ \E ips \in SUBSET IPs : Answer(n, ips)

Spec == Init /\ [][Next]_vars
=============================================================================
