---------------------------- MODULE MCRuleClient ----------------------------
(***************************************************************************)
(* Instances of RuleClient for TLC: two names, two IPv4 addresses and one  *)
(* IPv6 address, a DNS server that moved from one address to another, and  *)
(* lists in which our rules and the operator's alternate.                  *)
(***************************************************************************)
EXTENDS RuleClient

CONSTANTS n1, n2, a4, b4, a6, old, new, m1, m2, g1, g2, w1, w2

mc_Names  == {n1, n2}
mc_IPv4   == {a4, b4}
mc_IPv6   == {a6}
mc_Hosts  == {old, new}
mc_Manual == {m1, m2}

Dyn(n, ip)    == [owner |-> n, tag |-> IPFamilyFromIP(ip), dest |-> ip]
Legacy(n, ip) == [owner |-> n, tag |-> ip, dest |-> ip]
Boot(p, h)    == [owner |-> Bootstrap, tag |-> p, dest |-> h]
Op(d)         == [owner |-> Operator, tag |-> "none", dest |-> d]

\* Lists a guest has after this program and its operator have used it for a while.
MixedLists == {
  <<>>,
  <<Dyn(n1, a4), Op(m1), Dyn(n1, a6), Dyn(n2, a4)>>,
  <<Op(m1), Legacy(n1, b4), Dyn(n1, a4), Op(m2)>>,
  <<Dyn(n2, b4), Boot("udp", new), Boot("tcp", new), Op(m1), Dyn(n1, b4), Legacy(n1, b4)>>,
  <<Boot("udp", new), Boot("tcp", new), Op(m1), Boot("udp", old), Boot("tcp", old), Dyn(n1, a4)>> }

\* Lists for two workers: nothing of ours yet, or a rule to prune.
ManualList == {<<Op(m1)>>}
OneList == {<<Op(m1), Dyn(n1, b4)>>}

\* Both bootstrap rules as they are when the DNS server has just moved.
MovedList == {<<Boot("udp", old), Boot("tcp", old)>>}

NameCalls(g) ==
  { SyncOutboundAllow(g, n1, a4), SyncOutboundAllow(g, n1, a6),
    RemoveDynamicRules(g, n1, b4),
    PruneStale(g, n1, "ipv4", {a4}), PruneStale(g, n1, "ipv6", {}),
    RemoveAllManaged(g, n1) }

mc_Calls        == NameCalls(g1) \cup {SyncOutboundAllow(g1, n2, b4), RemoveAllManaged(g1, n2)}
mc_BootCalls    == {EnsureBootstrapDNS(g1, new)}
mc_AllCalls     == mc_Calls \cup mc_BootCalls
mc_OpenAndClose == {SyncOutboundAllow(g1, n1, a4), PruneStale(g1, n1, "ipv4", {b4})}
mc_FewCalls     == {SyncOutboundAllow(g1, n1, a4), PruneStale(g1, n1, "ipv4", {a4})}
=============================================================================
