------------------------ MODULE RoundRobinHostSelector ------------------------
(***************************************************************************)
(* The weighted round robin selection of hosts                             *)
(* (src/src/host_selector/round_robin_host_selector.{h,cc}).  GetHost and  *)
(* ClearCache hold cache_mutex from beginning to end, so that each call is *)
(* one action, whichever thread makes it.  Several hosts of the cache      *)
(* point to one RoundRobinClusterInfo; infos are identified by numbers and *)
(* an info no entry points to is free.  Host names are numbers, ordered as *)
(* the names are.  A host weight string is the sequence of its pairs, and  *)
(* a pair that is malformed or has no positive weight has the weight 0.    *)
(***************************************************************************)
EXTENDS SlidingCacheMap, SequencesExt

CONSTANTS
    Clusters,     \* disjoint sets of hosts
    Calls,        \* the calls made: the set of available hosts to select
                  \* from, and the properties
    Absent,       \* a property that is not passed
    MaxLog        \* BOUND: number of results the history keeps

Hosts == UNION Clusters
Ids   == 1..(Cardinality(Hosts) + 1)

ASSUME RoundRobinAssumption ==
    /\ TTL \in Nat \ {0}
    /\ Keys = Hosts /\ Hosts \subseteq Nat \ {0} /\ IsFiniteSet(Hosts)
    /\ Values = Ids /\ NoEntry \notin Entries
    /\ \A C, D \in Clusters : C # D => C \cap D = {}
    /\ MaxLog \in Nat \ {0}
    /\ \A call \in Calls :
          /\ \E C \in Clusters : call.sel \subseteq C
          /\ call.props.default \in Nat \cup {Absent}
          /\ call.props.host \in Seq(Hosts \X Nat) \cup {Absent}

VARIABLES
    cache,        \* round_robin_cache: host -> id of an info
    info,         \* id -> RoundRobinClusterInfo
    log           \* history, cluster -> the hosts of its latest calls

vars == <<cache, info, log>>

(* A new RoundRobinClusterInfo.  A host without a weight has the weight 0  *)
(* here; last_host is 0 for none.  last_default_weight_str always holds    *)
(* the name of the property, never its value, and is left out.             *)
NewInfo == [last_host |-> 0, weigth_counter |-> 0, default_weight |-> 1,
            cluster_weight_map |-> [h \in Hosts |-> 0],
            last_host_weight_str |-> <<>>]

Referenced(c) == {c[h].value : h \in {h \in Hosts : c[h] # NoEntry}}

(* Infos without an entry are freed.                                       *)
Collected(c, i) == [d \in Ids |-> IF d \in Referenced(c) THEN i[d] ELSE NewInfo]

LowestOf(S) == CHOOSE x \in S : \A y \in S : x <= y

-----------------------------------------------------------------------------
(* The properties.                                                         *)

(* SetRoundRobinWeight: the weights of all hosts, as callers in src do it. *)
SetRoundRobinWeight(S, weight) ==
    LET names == SetToSortSeq(S, LAMBDA a, b : a < b)
    IN [n \in DOMAIN names |-> <<names[n], weight[names[n]]>>]

(* The outcome of a part of GetHost: the info, and whether it returned or  *)
(* threw.                                                                  *)
Returned(i) == [info |-> i, ok |-> TRUE]
Thrown(i)   == [info |-> i, ok |-> FALSE]

(* Mutant of IsWeight: zero is accepted.                                   *)
IsAnyNumber(weight) == weight >= 0

IsWeight(weight) == weight >= 1

UpdatePropsDefaultWeight(i, props) ==
    IF props.default = Absent THEN Returned([i EXCEPT !.default_weight = 1])
    ELSE IF IsWeight(props.default)
         THEN Returned([i EXCEPT !.default_weight = props.default])
         ELSE Thrown(i)

(* The pairs of a host weight string before the first invalid one.         *)
ValidPairs(str) ==
    {n \in DOMAIN str : \A m \in 1..n : IsWeight(str[m][2])}

(* The weights of the valid pairs, the last one of a host, are entered     *)
(* before the exception for an invalid one is thrown.                      *)
Entered(weight_map, str) ==
    [h \in Hosts |->
        LET pairs == {n \in ValidPairs(str) : str[n][1] = h}
        IN IF pairs = {} THEN weight_map[h]
           ELSE str[CHOOSE n \in pairs : \A m \in pairs : m <= n][2]]

UpdatePropsHostWeight(i, props) ==
    LET str == props.host
        new == [i EXCEPT !.cluster_weight_map = Entered(@, str),
                         !.last_host_weight_str =
                              IF ValidPairs(str) = {} THEN @ ELSE str]
    IN IF str = Absent THEN Returned(i)
       ELSE IF str = <<>> THEN Returned([i EXCEPT
                       !.cluster_weight_map = NewInfo.cluster_weight_map,
                       !.last_host_weight_str = <<>>])
       ELSE IF ValidPairs(str) = DOMAIN str THEN Returned(new) ELSE Thrown(new)

UpdateProps(i, props) ==
    LET first == UpdatePropsDefaultWeight(i, props)
    IN IF first.ok THEN UpdatePropsHostWeight(first.info, props) ELSE first

RestartRotation(i) == [i EXCEPT !.last_host = 0, !.weigth_counter = 0]

(* check_prop_change for the two properties, and what follows a change: a  *)
(* default weight that is passed always counts as changed.                 *)
UpdateChangedHostWeight(i, props) ==
    IF props.host # Absent /\ props.host # i.last_host_weight_str
    THEN UpdatePropsHostWeight(RestartRotation(i), props)
    ELSE Returned(i)

UpdateChangedProps(i, props) ==
    LET first == IF props.default = Absent THEN Returned(i)
                 ELSE UpdatePropsDefaultWeight([i EXCEPT !.default_weight = 1], props)
    IN IF first.ok THEN UpdateChangedHostWeight(first.info, props) ELSE first

-----------------------------------------------------------------------------
(* GetHost.                                                                *)

(* The target host, and the info after its selection.                      *)
TargetHost(i, S) ==
    LET after == {h \in S : h > i.last_host}
    IN IF i.weigth_counter > 0 /\ i.last_host \in S THEN i.last_host
       ELSE IF i.last_host \in S /\ after # {} THEN LowestOf(after)
       ELSE LowestOf(S)

(* Mutant of Served: the first selection of a host is not counted.         *)
ServedOnceMore(i, S) ==
    LET h      == TargetHost(i, S)
        weight == IF i.cluster_weight_map[h] > 0 THEN i.cluster_weight_map[h]
                                                 ELSE i.default_weight
    IN [i EXCEPT !.last_host = h,
                 !.weigth_counter =
                     IF i.weigth_counter > 0 /\ i.last_host \in S
                     THEN i.weigth_counter - 1 ELSE weight]

Served(i, S) ==
    LET h      == TargetHost(i, S)
        weight == IF i.cluster_weight_map[h] > 0 THEN i.cluster_weight_map[h]
                                                 ELSE i.default_weight
        start  == IF i.weigth_counter > 0 /\ i.last_host \in S
                  THEN i.weigth_counter ELSE weight
    IN [i EXCEPT !.last_host = h, !.weigth_counter = start - 1]

UpdateCache(c, S, id) ==
    [h \in Hosts |-> IF h \in S THEN Put(c, h, id)[h] ELSE c[h]]

-----------------------------------------------------------------------------
(* The history variable: what callers were given for the same arguments,   *)
(* one call after the other, with weights for all hosts they offered; the  *)
(* latest of them.                                                         *)

WeightOf(props, h) == Entered(NewInfo.cluster_weight_map, props.host)[h]

Covers(props, S) ==
    /\ props.host # Absent
    /\ ValidPairs(props.host) = DOMAIN props.host
    /\ \A h \in S : WeightOf(props, h) > 0

NoLog == [sel |-> {}, props |-> Absent, hosts |-> <<>>, left |-> 0]

Latest(n, s) == IF Len(s) > n THEN SubSeq(s, Len(s) - n + 1, Len(s)) ELSE s

LogOf(S, props, h, previous) ==
    IF ~Covers(props, S) THEN NoLog
    ELSE [sel |-> S, props |-> props, left |-> TTL,
          hosts |-> IF previous.sel = S /\ previous.props = props
                    THEN Latest(MaxLog, Append(previous.hosts, h))
                    ELSE <<h>>]

-----------------------------------------------------------------------------
Init ==
    /\ cache = EmptyCache
    /\ info = [d \in Ids |-> NewInfo]
    /\ log = [C \in Clusters |-> NoLog]

(* The cache after create_cache_entries has looked for entries: Size is    *)
(* called first, then Find for each host.                                  *)
Looked(S) == AfterFinds(AfterSize(cache), S)

(* The hosts that have an entry, and the info the first of them points to. *)
Cached(S) == {h \in S : Live(AfterSize(cache), h)}
CachedId(S) == cache[LowestOf(Cached(S))].value

FreeId(S) == CHOOSE d \in Ids : d \notin Referenced(Looked(S))

(* create_cache_entries up to update_cache: a new info, or a cached one    *)
(* with what has changed.                                                  *)
ClusterId(S) == IF Cached(S) = {} THEN FreeId(S) ELSE CachedId(S)
Prepared(S, props) ==
    IF Cached(S) = {} THEN UpdateProps(NewInfo, props)
                      ELSE UpdateChangedProps(info[CachedId(S)], props)

ClusterOf(S) == CHOOSE C \in Clusters : S \subseteq C

(* A call that returns a host.                                             *)
GetHostReturns(S, props) ==
    LET id   == ClusterId(S)
        step == Prepared(S, props)
    IN /\ S # {} /\ step.ok
       /\ cache' = UpdateCache(Looked(S), S, id)
       /\ info' = Collected(cache', [info EXCEPT ![id] = Served(step.info, S)])
       /\ log' = [log EXCEPT ![ClusterOf(S)] =
                      LogOf(S, props, TargetHost(step.info, S), @)]

(* A call that throws because of a weight: a cached info keeps what was    *)
(* entered so far.                                                         *)
GetHostThrows(S, props) ==
    LET step == Prepared(S, props)
    IN /\ S # {} /\ ~step.ok
       /\ cache' = Looked(S)
       /\ info' = Collected(cache', IF Cached(S) = {} THEN info ELSE
                                    [info EXCEPT ![CachedId(S)] = step.info])
       /\ log' = [log EXCEPT ![ClusterOf(S)] = NoLog]

(* A call with no host available throws before it looks at the cache.      *)
GetHost(S, props) == GetHostReturns(S, props) \/ GetHostThrows(S, props)

ClearCache ==
    /\ cache' = Clear(cache)
    /\ info' = [d \in Ids |-> NewInfo]
    /\ log' = [C \in Clusters |-> NoLog]

TimePasses ==
    /\ cache' = Tick(cache)
    /\ info' = info
    /\ log' = [C \in Clusters |-> IF log[C].left <= 1 THEN NoLog
                                  ELSE [log[C] EXCEPT !.left = @ - 1]]

Next ==
    \/ \E call \in Calls : GetHost(call.sel, call.props)
    \/ ClearCache
    \/ TimePasses

Spec == Init /\ [][Next]_vars

-----------------------------------------------------------------------------
(* Properties.                                                             *)

Infos == [last_host : Hosts \cup {0}, weigth_counter : Nat,
          default_weight : Nat \ {0}, cluster_weight_map : [Hosts -> Nat],
          last_host_weight_str : {call.props.host : call \in Calls} \cup {<<>>}]

(* Every variable has its type; the counter never runs below zero.         *)
TypeOK ==
    /\ cache \in Caches
    /\ info \in [Ids -> Infos]
    /\ \A C \in Clusters : log[C].left \in 0..TTL

(* A result of the log is the last of n - m + 1 of the same host; what was *)
(* before the log is not known.                                            *)
RunOf(hosts, m, n) ==
    /\ \A k \in m..n : hosts[k] = hosts[n]
    /\ m > 1 => hosts[m - 1] # hosts[n]

(* b comes after a in the order of the names, the first after the last.    *)
Follows(S, a, b) ==
    \/ a < b /\ \A c \in S : c <= a \/ b <= c
    \/ \A c \in S : b <= c /\ c <= a

(* After a run of a host shorter than its weight the host is returned      *)
(* again, after one of the length of its weight the host that follows.     *)
Rotates(l) ==
    \A m, n \in DOMAIN l.hosts :
        m <= n /\ n < Len(l.hosts) /\ RunOf(l.hosts, m, n)
           => \/ /\ l.hosts[n + 1] = l.hosts[n]
                 /\ n - m + 1 < WeightOf(l.props, l.hosts[n])
              \/ /\ Follows(l.sel, l.hosts[n], l.hosts[n + 1])
                 /\ m > 1 => n - m + 1 = WeightOf(l.props, l.hosts[n])

(* Weighted round robin: a host is returned as often in a row as its       *)
(* weight says, then the one that follows it (so that over any cycle every *)
(* host is returned as often as its weight says), whatever calls preceded  *)
(* these (other selections, other or invalid weights, expired entries, two *)
(* infos for one cluster) and are made for other clusters meanwhile.       *)
WeightedRotation == \A C \in Clusters : Rotates(log[C])

(* The cache does not grow for ever: a call leaves no entry of any cluster *)
(* that expired before it.                                                 *)
ExpiredEntriesRemoved ==
    [][(\E call \in Calls : GetHost(call.sel, call.props))
          => \A h \in Hosts : ~Expired(cache', h)]_vars

(* EXPECT_THROW(host_selector.GetHost(hosts, false, props),                *)
(* std::runtime_error) (test/unit_test/host_selector/                      *)
(* round_robin_host_selector_test.cc:216): invalid weights are rejected.   *)
(* TLC refutes it with the configuration the README describes: a weight    *)
(* string rejected at its second pair is accepted the next time.           *)
InvalidWeightsThrow ==
    [][\A call \in Calls :
          GetHostReturns(call.sel, call.props) /\ call.props.host # Absent
             => ValidPairs(call.props.host) = DOMAIN call.props.host]_vars
=============================================================================
