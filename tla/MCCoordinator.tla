--------------------------- MODULE MCCoordinator ---------------------------
(***************************************************************************)
(* Instances of Coordinator for TLC: one guest, one or two names, two IPv4 *)
(* addresses and one IPv6 address.                                         *)
(***************************************************************************)
EXTENDS Coordinator, TLC

CONSTANTS n1, n2, a4, b4, a6, host, m1, g1, w1, w2, notes1, notes2

mc_OneName  == {n1}
mc_TwoNames == {n1, n2}
mc_IPv4     == {a4, b4}
mc_OneIPv4  == {a4}
mc_IPv6     == {a6}

Dyn(n, ip) == [owner |-> n, tag |-> IPFamilyFromIP(ip), dest |-> ip]
Boot(p)    == [owner |-> Bootstrap, tag |-> p, dest |-> host]
Op         == [owner |-> Operator, tag |-> "none", dest |-> m1]

Lists(n, status) == [EmptyList EXCEPT ![n] = status]

Running(list, notes, fw) ==
  [server |-> [list |-> list, notes |-> notes], rules |-> fw, loaded |-> TRUE]

\* Started before, and the first refresh done: nothing listed, or n1 enabled and open.
mc_Fresh   == {Running(EmptyList, notes1, <<Op>>)}
mc_Enabled == {Running(Lists(n1, "allowed"), notes1, <<Dyn(n1, a4), Op>>)}
mc_Blocked == {Running(Lists(n1, "blocked"), notes1, <<Op>>)}
mc_Booted  == {Running(EmptyList, notes1, <<Boot("udp"), Op, Boot("tcp")>>)}

\* Just restarted: the same guest, and nothing read from it yet.
mc_Restarted == {[s EXCEPT !.loaded = FALSE] : s \in mc_Enabled}

mc_InitLists == {s.rules : s \in InitStates}
mc_AllTexts  == List
mc_TwoTexts  == {Lists(n1, "blocked"), Lists(n1, "allowed")}
mc_AllowText == {Lists(n1, "allowed")}

Carrying(ips) == [ips |-> ips, seen |-> FamiliesOf(ips)]
Mapped(ip)    == [ips |-> {ip}, seen |-> {"ipv6"}]

mc_OneAnswer     == {Carrying({a4})}
mc_TwoAnswers    == {Carrying({a4, a6}), Carrying({b4})}
mc_EitherFamily  == {Carrying({a4}), Carrying({a6})}
mc_MappedAnswers == {Carrying({a4}), Mapped(a4)}
NameSymmetry == Permutations({n1, n2})
=============================================================================
