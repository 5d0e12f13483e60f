----------------------------- MODULE FeedManager -----------------------------
(***************************************************************************)
(* ThreatIntelManager and its five loaders: ml/threat_intel/feeds.py.      *)
(*                                                                         *)
(* update_all() runs the loaders that are due, together, and integrates    *)
(* what they return when the last one has returned.  Two updates (the loop *)
(* and a direct call) may overlap and load a feed twice.                   *)
(***************************************************************************)
EXTENDS Naturals, Sequences, FiniteSets, SequencesExt, FiniteSetsExt

CONSTANTS
  Loaders,    \* the loaders, of the five that Entries knows
  Usable,     \* those that need no key, or have theirs
  Lists(_),   \* Lists(l): what feed l may list: sets of [value, kind]
  Addresses,  \* addresses asked about
  Covers,     \* <<address, network>>: the address lies in the network
  Updates,    \* concurrent calls of update_all
  MaxIocs     \* bound of this model: entries of a feed in _all_iocs

ASSUME FeedAssumption ==
  /\ Loaders \subseteq {"feodo_tracker", "spamhaus_drop", "emerging_threats", "otx", "misp"}
  /\ Usable \subseteq Loaders /\ MaxIocs \in Nat
  /\ \A l \in Loaders : \A raw \in Lists(l) : IsFiniteSet(raw)
  /\ \A a \in Addresses : <<a, a>> \in Covers   \* an address is a network too

VARIABLES
  due,        \* loaders for which needs_update() holds
  update,     \* update[u]: [running: loaders awaited, iocs: returned ones]
  ipSet,      \* _ip_blocklist
  cidrs,      \* _cidr_blocklist, whose repetitions nothing tells apart
  allIocs,    \* _all_iocs
  feedStats,  \* ThreatIntelStats: [total, ips, nets, sources]
  listedIocs  \* history: indicators that a load() has returned

feedMgrVars == <<due, update, ipSet, cidrs, allIocs, feedStats, listedIocs>>

-----------------------------------------------------------------------------
UpdateIdle == [active |-> FALSE, running |-> {}, iocs |-> <<>>]
EntriesOf(s, l) == Cardinality({k \in DOMAIN s : s[k].source = l})
Typed(s, t) == {x.indicator : x \in {y \in ToSet(s) : y.type = t}}

(* A text that ip_network() rejects is an IOC, and no network.             *)
Networks(s) == Typed(s, "cidr") \cap {c[2] : c \in Covers}

FeedMgrInit ==
  /\ due = Loaders
  /\ update = [u \in Updates |-> UpdateIdle]
  /\ ipSet = {}
  /\ cidrs = {}
  /\ allIocs = <<>>
  /\ feedStats = [total |-> 0, ips |-> 0, nets |-> 0, sources |-> [l \in Loaders |-> 0]]
  /\ listedIocs = {}

(* update_interval seconds since the last successful load() have gone by.  *)
BecomesDue(l) ==
  /\ due' = due \cup {l}
  /\ l \notin due
  /\ UNCHANGED <<update, ipSet, cidrs, allIocs, feedStats, listedIocs>>

BeginUpdate(u) ==
  /\ ~update[u].active
  /\ due # {}
  /\ update' = [update EXCEPT ![u] = [active |-> TRUE, running |-> due, iocs |-> <<>>]]
  /\ UNCHANGED <<due, ipSet, cidrs, allIocs, feedStats, listedIocs>>

(* What each loader makes of its feed.  kind is what the value really is:  *)
(* "ipv4", "ipv6", "network" or "text".                                    *)
As(type, raw) == {[indicator |-> x.value, type |-> type] : x \in raw}
OfKinds(raw, kinds) == {x \in raw : x.kind \in kinds}

FeodoEntries(raw) == As("ip", raw)
SpamhausEntries(raw) == As("cidr", OfKinds(raw, {"ipv4", "ipv6", "network"}))
EmergingThreatsEntries(raw) == As("ip", OfKinds(raw, {"ipv4", "ipv6"}))
OtxEntries(raw) ==
  As("ip", OfKinds(raw, {"ipv4"})) \cup As("cidr", OfKinds(raw, {"ipv6", "network"}))
MispEntries(raw) == As("ip", raw)

Entries(l, raw) ==
  CASE l = "feodo_tracker"    -> FeodoEntries(raw)
    [] l = "spamhaus_drop"    -> SpamhausEntries(raw)
    [] l = "emerging_threats" -> EmergingThreatsEntries(raw)
    [] l = "otx"              -> OtxEntries(raw)
    [] l = "misp"             -> MispEntries(raw)

(* load() returns the entries, each with its source (fewer than MaxIocs of *)
(* them are kept so far: the bound of this model).  gather() returns the   *)
(* lists in the order of the loaders; here they come in the order of their *)
(* arrival, which no answer tells apart but that of get_ioc_info.          *)
LoadReturns(u, l, raw) ==
  LET list == Entries(l, raw) IN
  /\ l \in update[u].running
  /\ EntriesOf(allIocs, l) < MaxIocs
  /\ l \in Usable
  /\ due' = due \ {l}
  /\ update' = [update EXCEPT ![u].running = @ \ {l},
       ![u].iocs = @ \o SetToSeq({[indicator |-> x.indicator, type |-> x.type, source |-> l]
                                    : x \in list})]
  /\ listedIocs' = listedIocs \cup {x.indicator : x \in list}
  /\ UNCHANGED <<ipSet, cidrs, allIocs, feedStats>>

(* No key, a status other than 200, or an exception: an empty list, and    *)
(* the feed stays due.                                                     *)
LoadFails(u, l) ==
  /\ l \in update[u].running
  /\ update' = [update EXCEPT ![u].running = @ \ {l}]
  /\ UNCHANGED <<due, ipSet, cidrs, allIocs, feedStats, listedIocs>>

(* Mutant: the new entries take the place of the old ones.                 *)
Replaced(old, new) == new

(* _all_iocs.extend()                                                      *)
Extended(old, new) == old \o new

(* gather() returns, and _integrate_iocs() runs without an await.          *)
Integrate(u) ==
  LET new == update[u].iocs
      all == Extended(allIocs, new)
  IN /\ update[u].active /\ update[u].running = {}
     /\ update' = [update EXCEPT ![u] = UpdateIdle]
     /\ IF new = <<>>
        THEN UNCHANGED <<ipSet, cidrs, allIocs, feedStats>>
        ELSE /\ ipSet' = ipSet \cup Typed(new, "ip")
             /\ cidrs' = cidrs \cup Networks(new)
             /\ allIocs' = all
             /\ feedStats' = [total |-> Len(all), ips |-> Cardinality(ipSet'),
                          nets |-> Cardinality(cidrs'),
                          sources |-> [l \in Loaders |-> EntriesOf(all, l)]]
     /\ UNCHANGED <<due, listedIocs>>

FeedMgrNext ==
  \/ \E l \in Loaders : BecomesDue(l)
  \/ \E u \in Updates :
       \/ BeginUpdate(u) \/ Integrate(u)
       \/ \E l \in Loaders :
            LoadFails(u, l) \/ \E raw \in Lists(l) : LoadReturns(u, l, raw)

FeedMgrSpec == FeedMgrInit /\ [][FeedMgrNext]_feedMgrVars

-----------------------------------------------------------------------------
(* is_blocked() and get_ioc_info().                                        *)
IsBlocked(a) == a \in ipSet \/ \E n \in cidrs : <<a, n>> \in Covers

IocInfo(i) ==
  LET ks == {k \in 1..Len(allIocs) : allIocs[k].indicator = i}
  IN IF ks = {} THEN {} ELSE {allIocs[Max(ks)]}

(* The variables keep their types.                                         *)
FeedMgrTypeOK ==
  /\ due \subseteq Loaders
  /\ \A u \in Updates : update[u].active \in BOOLEAN /\ update[u].running \subseteq Loaders
  /\ \A k \in 1..Len(allIocs) : allIocs[k].source \in Usable /\ allIocs[k].type \in {"ip", "cidr"}

(* What the answers of is_blocked() rest on: an address is blocked exactly *)
(* when an integrated entry names it or a network around it; get_ioc_info  *)
(* finds an entry for what is listed by itself; and nothing that a feed    *)
(* has listed is missing while no update runs, although updates overlap,   *)
(* other feeds fail, and lists of one feed change.  The statistics count   *)
(* the same entries.                                                       *)
BlocklistBacked ==
  /\ ipSet = Typed(allIocs, "ip")
  /\ cidrs = Networks(allIocs)
  /\ \A a \in Addresses :
       /\ a \in ipSet => IocInfo(a) # {}
       /\ (\A u \in Updates : ~update[u].active) /\ a \in listedIocs => IsBlocked(a)
  /\ feedStats.total = Len(allIocs)
  /\ feedStats.ips = Cardinality(ipSet) /\ feedStats.nets = Cardinality(cidrs)
  /\ \A l \in Loaders : feedStats.sources[l] = EntriesOf(allIocs, l)

(* Of a run: the types hold, and the block lists are backed.               *)
FeedsSound == FeedMgrTypeOK /\ BlocklistBacked
=============================================================================
