---------------------------- MODULE FirewallRules ----------------------------
(***************************************************************************)
(* The outbound rules of one Proxmox guest as internal/proxmox sees them:  *)
(* an ordered list in which a rule's only identity is its position, the    *)
(* comment tag that says who owns the rule, and the predicates by which    *)
(* the client recognises its own rules.  A data module: no variables.      *)
(*                                                                         *)
(* Positions here run from 1 to Len(list); Proxmox counts from 0.          *)
(***************************************************************************)
EXTENDS Naturals, Sequences, SequencesExt, FiniteSetsExt

CONSTANTS
  Names,     \* DNS names a rule can be tagged with
  IPv4,      \* canonical IPv4 destinations
  IPv6,      \* canonical IPv6 destinations
  Hosts,     \* addresses this DNS server may have (bootstrap destinations)
  Manual,    \* destinations of the rules the operator wrote by hand
  CreateAt   \* where Proxmox puts a created rule: "head" (what it does) or "tail"

IPs       == IPv4 \cup IPv6
Families  == {"ipv4", "ipv6"}
Protos    == {"udp", "tcp"}
Bootstrap == "bootstrap"
Operator  == "operator"

ASSUME RulesAssumption ==
  /\ IPv4 \cap IPv6 = {}
  /\ Families \cap IPs = {}
  /\ {Bootstrap, Operator} \cap Names = {}
  /\ CreateAt \in {"head", "tail"}

(***************************************************************************)
(* A dynamic rule carries "pve-dns-lockdown:" + name + ":" + tag, where    *)
(* tag is an address family, or (rules of older builds) the address        *)
(* itself.  A rule whose comment, action or type is not ours is Operator's.*)
(***************************************************************************)
DynamicRule   == [owner : Names, tag : Families \cup IPs, dest : IPs]
BootstrapRule == [owner : {Bootstrap}, tag : Protos, dest : Hosts]
OperatorRule  == [owner : {Operator}, tag : {"none"}, dest : Manual]
Rule          == DynamicRule \cup BootstrapRule \cup OperatorRule

IPFamilyFromIP(ip) == IF ip \in IPv4 THEN "ipv4" ELSE "ipv6"

\* Faulty variant: the comment lacks the family.
TagWithoutFamily(ip) == "none"

fqdnOutboundTag(ip) == IPFamilyFromIP(ip)

\* r is our allow rule for this name and exactly this destination.
dynamicRuleMatchesDest(r, name, ip) ==
  /\ r.owner = name
  /\ r.dest = ip
  /\ r.tag \in {IPFamilyFromIP(ip), ip}

\* r is an allow rule of ours for this name and address family.
ruleManagedForFQDNFamily(r, name, family) ==
  /\ r.owner = name
  /\ IPFamilyFromIP(r.dest) = family
  /\ \/ r.tag = family
     \/ r.tag \in IPs /\ IPFamilyFromIP(r.tag) = family

bootstrapRuleFor(r, proto, host) ==
  r.owner = Bootstrap /\ r.tag = proto /\ r.dest = host

\* POST .../firewall/rules: the request names no position, Proxmox chooses it.
Created(list, r) ==
  IF CreateAt = "head" THEN <<r>> \o list ELSE Append(list, r)

\* DELETE .../firewall/rules/<pos>: whatever rule is at that position now.
Deleted(list, pos) == RemoveAt(list, pos)

\* The names and destinations a list opens.
Opened(list) ==
  {<<r.owner, r.dest>> : r \in {x \in ToSet(list) : x.owner \in Names}}
=============================================================================
