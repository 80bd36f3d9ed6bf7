---------------------- MODULE RoundRobinHostSelectorProofs ----------------------
(***************************************************************************)
(* Proofs about the round robin selection of hosts, for all clusters,      *)
(* weights and calls.                                                      *)
(***************************************************************************)
EXTENDS RoundRobinHostSelector, FiniteSetTheorems, TLAPS

(* Types and constants of one cache and of one call.                       *)
LEMMA ConstantFacts ==
    /\ TTL \in Nat \ {0} /\ Keys = Hosts /\ Values = Ids /\ NoEntry \notin Entries
    /\ Hosts \subseteq Nat \ {0} /\ IsFiniteSet(Hosts) /\ MaxLog \in Nat \ {0}
    /\ \A C, D \in Clusters : C # D => C \cap D = {}
    /\ \A C \in Clusters : C \subseteq Hosts
BY RoundRobinAssumption DEF RoundRobinAssumption, Hosts

LEMMA CallFacts ==
    ASSUME NEW call \in Calls
    PROVE  /\ ClusterOf(call.sel) \in Clusters
           /\ call.sel \subseteq ClusterOf(call.sel) /\ call.sel \subseteq Hosts
           /\ call.props.default \in Nat \cup {Absent}
           /\ call.props.host \in Seq(Hosts \X Nat) \cup {Absent}
<1>1. PICK C \in Clusters : call.sel \subseteq C
  BY RoundRobinAssumption DEF RoundRobinAssumption
<1>2. ClusterOf(call.sel) \in Clusters /\ call.sel \subseteq ClusterOf(call.sel)
  BY <1>1 DEF ClusterOf
<1>3. call.sel \subseteq Hosts
  BY <1>2, ConstantFacts
<1>4. /\ call.props.default \in Nat \cup {Absent}
      /\ call.props.host \in Seq(Hosts \X Nat) \cup {Absent}
  BY RoundRobinAssumption DEF RoundRobinAssumption
<1> QED
  BY <1>2, <1>3, <1>4

(* A set of numbers has a lowest and, within bounds, a highest element.    *)
LEMMA LowestExists ==
    ASSUME NEW S \in SUBSET Nat, S # {}
    PROVE  LowestOf(S) \in S /\ \A x \in S : LowestOf(S) <= x
<1> DEFINE R == {pair \in Nat \X Nat : pair[1] < pair[2]}
<1>1. IsWellFoundedOn(R, Nat)
  <2>1. R = OpToRel(<, Nat)
    BY DEF OpToRel
  <2> QED
    BY <2>1, NatLessThanWellFounded
<1>2. PICK x \in S : \A y \in S : <<y, x>> \notin R
  <2> HIDE DEF R
  <2> QED
    BY <1>1, WFMin
<1>3. ASSUME NEW y \in S PROVE x <= y
  <2>1. <<y, x>> \in Nat \X Nat /\ x \in Nat /\ y \in Nat
    BY <1>2
  <2>2. ~(y < x)
    BY <1>2, <2>1
  <2> QED
    BY <2>1, <2>2
<1> QED
  BY <1>2, <1>3 DEF LowestOf

LEMMA HighestExists ==
    ASSUME NEW n \in Nat, NEW S \in SUBSET (1..n), S # {}
    PROVE  \E x \in S : \A y \in S : y <= x
<1> DEFINE T == {n - x : x \in S}
<1>1. T \in SUBSET Nat /\ T # {}
  <2>1. \A x \in S : x \in 1..n /\ n - x \in Nat
    OBVIOUS
  <2> QED
    BY <2>1
<1>2. PICK low \in T : \A y \in T : low <= y
  BY <1>1, LowestExists
<1>3. PICK x \in S : low = n - x
  BY <1>2
<1>4. ASSUME NEW y \in S PROVE y <= x
  <2>1. n - y \in T
    OBVIOUS
  <2> QED
    BY <1>2, <1>3, <2>1
<1> QED
  BY <1>4

-----------------------------------------------------------------------------
(* The cache.                                                              *)

(* create_cache_entries purges the expired entries, and of the hosts it    *)
(* looks for those that are not live; the others it renews.                *)
LEMMA LookedFacts ==
    ASSUME cache \in Caches, NEW S \in SUBSET Hosts
    PROVE  /\ Looked(S) \in Caches
           /\ \A h \in Hosts : Live(AfterSize(cache), h) <=> Live(cache, h)
           /\ \A h \in Hosts :
                 Looked(S)[h] =
                    IF h \in S
                    THEN IF Live(cache, h) THEN [value |-> cache[h].value, left |-> TTL]
                                           ELSE NoEntry
                    ELSE IF Expired(cache, h) THEN NoEntry ELSE cache[h]
<1> DEFINE c == AfterSize(cache)
<1>1. c \in Caches
  BY DEF AfterSize, Caches
<1>2. ASSUME NEW h \in Hosts
      PROVE  /\ c[h] = IF Expired(cache, h) THEN NoEntry ELSE cache[h]
             /\ (Live(c, h) <=> Live(cache, h))
             /\ Live(cache, h) => c[h] = cache[h]
  <2>1. h \in Keys /\ cache[h] \in Entries \cup {NoEntry}
    BY ConstantFacts DEF Caches
  <2>2. c[h] = IF Expired(cache, h) THEN NoEntry ELSE cache[h]
    BY <2>1 DEF AfterSize
  <2>3. cache[h] # NoEntry => cache[h].left \in Int
    BY <2>1, ConstantFacts DEF Entries
  <2>4. (Live(c, h) <=> Live(cache, h)) /\ (Live(cache, h) => c[h] = cache[h])
    <3> HIDE DEF c
    <3> QED
      BY <2>2, <2>3 DEF Live, Expired
  <2> QED
    BY <2>2, <2>4
<1>3. ASSUME NEW h \in Hosts
      PROVE  Touched(c, h)[h] =
                IF Live(cache, h) THEN [value |-> cache[h].value, left |-> TTL]
                                  ELSE NoEntry
  <2> HIDE DEF c
  <2>1. h \in DOMAIN c
    BY <1>1, ConstantFacts DEF Caches
  <2> QED
    BY <2>1, <1>2 DEF Touched
<1>4. ASSUME NEW h \in Hosts
      PROVE  Looked(S)[h] = IF h \in S THEN Touched(c, h)[h] ELSE c[h]
  BY ConstantFacts DEF Looked, AfterFinds
<1>5. \A h \in Hosts : Looked(S)[h] =
                    IF h \in S
                    THEN IF Live(cache, h) THEN [value |-> cache[h].value, left |-> TTL]
                                           ELSE NoEntry
                    ELSE IF Expired(cache, h) THEN NoEntry ELSE cache[h]
  <2> HIDE DEF c
  <2> QED
    BY <1>2, <1>3, <1>4
<1>6. Looked(S) \in Caches
  <2>1. ASSUME NEW h \in Hosts PROVE Looked(S)[h] \in Entries \cup {NoEntry}
    <3>1. cache[h] \in Entries \cup {NoEntry}
      BY ConstantFacts DEF Caches
    <3>2. Live(cache, h) => cache[h].value \in Values
      BY <3>1 DEF Live, Entries
    <3>3. Live(cache, h) => [value |-> cache[h].value, left |-> TTL] \in Entries
      BY <3>2, ConstantFacts DEF Entries
    <3> QED
      BY <1>5, <3>1, <3>3
  <2>2. Looked(S) = [h \in Hosts |-> Looked(S)[h]]
    BY ConstantFacts DEF Looked, AfterFinds
  <2> QED
    BY <2>1, <2>2, ConstantFacts DEF Caches
<1> QED
  BY <1>2, <1>5, <1>6

LEMMA UpdateCacheFacts ==
    ASSUME NEW c \in Caches, NEW S \in SUBSET Hosts, NEW id \in Ids
    PROVE  /\ UpdateCache(c, S, id) \in Caches
           /\ \A h \in Hosts :
                 UpdateCache(c, S, id)[h] =
                    IF h \in S THEN [value |-> id, left |-> TTL] ELSE c[h]
<1>1. ASSUME NEW h \in Hosts PROVE Put(c, h, id)[h] = [value |-> id, left |-> TTL]
  <2>1. h \in DOMAIN c
    BY ConstantFacts DEF Caches
  <2> QED
    BY <2>1 DEF Put
<1>2. \A h \in Hosts :
         UpdateCache(c, S, id)[h] = IF h \in S THEN [value |-> id, left |-> TTL] ELSE c[h]
  BY <1>1 DEF UpdateCache
<1>3. [value |-> id, left |-> TTL] \in Entries
  BY ConstantFacts DEF Entries
<1>4. UpdateCache(c, S, id) = [h \in Hosts |-> UpdateCache(c, S, id)[h]]
  BY DEF UpdateCache
<1> QED
  BY <1>2, <1>3, <1>4, ConstantFacts DEF Caches

LEMMA TickFacts ==
    ASSUME NEW c \in Caches
    PROVE  /\ Tick(c) \in Caches
           /\ \A h \in Hosts :
                 /\ Tick(c)[h] = NoEntry <=> c[h] = NoEntry
                 /\ c[h] # NoEntry => /\ Tick(c)[h].value = c[h].value
                                      /\ c[h].left >= 0 => Tick(c)[h].left = c[h].left - 1
<1>1. ASSUME NEW h \in Hosts, c[h] # NoEntry
      PROVE  /\ Tick(c)[h] \in Entries /\ Tick(c)[h].value = c[h].value
             /\ c[h].left >= 0 => Tick(c)[h].left = c[h].left - 1
  <2>1. c[h] \in Entries /\ c[h].left \in -1..TTL /\ c[h].value \in Values
    BY <1>1, ConstantFacts DEF Caches, Entries
  <2>2. Tick(c)[h] = [c[h] EXCEPT !.left = IF @ < 0 THEN -1 ELSE @ - 1]
    BY <1>1, ConstantFacts DEF Tick
  <2>3. c[h] = [value |-> c[h].value, left |-> c[h].left]
    BY <2>1 DEF Entries
  <2>4. Tick(c)[h] = [value |-> c[h].value,
                      left |-> IF c[h].left < 0 THEN -1 ELSE c[h].left - 1]
    BY <2>2, <2>3
  <2>5. (IF c[h].left < 0 THEN -1 ELSE c[h].left - 1) \in -1..TTL
    BY <2>1, ConstantFacts
  <2> QED
    BY <2>1, <2>4, <2>5 DEF Entries
<1>2. ASSUME NEW h \in Hosts, c[h] = NoEntry PROVE Tick(c)[h] = NoEntry
  BY <1>2, ConstantFacts DEF Tick
<1>3. Tick(c) = [h \in Hosts |-> Tick(c)[h]]
  BY ConstantFacts DEF Tick
<1>4. Tick(c) \in Caches
  BY <1>1, <1>2, <1>3, ConstantFacts DEF Caches
<1> QED
  BY <1>1, <1>2, <1>4, ConstantFacts

(* There is always an info that no entry points to.                        *)
LEMMA FreeInfo ==
    ASSUME NEW c \in Caches
    PROVE  \E d \in Ids : d \notin Referenced(c)
<1> DEFINE H == {h \in Hosts : c[h] # NoEntry}
           f == [h \in H |-> c[h].value]
<1>1. IsFiniteSet(H) /\ Cardinality(H) <= Cardinality(Hosts)
  BY ConstantFacts, FS_Subset
<1>2. f \in Surjection(H, Referenced(c))
  BY DEF Surjection, Referenced
<1>3. IsFiniteSet(Referenced(c)) /\ Cardinality(Referenced(c)) <= Cardinality(H)
  BY <1>1, <1>2, FS_Surjection
<1>4. Cardinality(Hosts) \in Nat /\ Cardinality(H) \in Nat
      /\ Cardinality(Referenced(c)) \in Nat
  BY <1>1, <1>3, ConstantFacts, FS_CardinalityType
<1>5. Cardinality(Ids) = Cardinality(Hosts) + 1
  BY <1>4, FS_Interval DEF Ids
<1>6. ~(Ids \subseteq Referenced(c))
  BY <1>1, <1>3, <1>4, <1>5, FS_Subset
<1> QED
  BY <1>6

LEMMA InitialTypes ==
    /\ EmptyCache \in Caches
    /\ NewInfo \in Infos
<1>1. EmptyCache \in Caches
  BY DEF EmptyCache, Caches
<1>2. NewInfo.cluster_weight_map \in [Hosts -> Nat]
  BY DEF NewInfo
<1>3. NewInfo \in Infos
  BY DEF NewInfo, Infos
<1> QED
  BY <1>1, <1>3

-----------------------------------------------------------------------------
(* The weights.                                                            *)

(* The weight a string gives to a host, 0 for none.                        *)
WeightIn(str, h) == Entered(NewInfo.cluster_weight_map, str)[h]

(* Strings of weights are sequences of pairs of a host and a number.       *)
Strings == Seq(Hosts \X Nat)

(* Weights are entered over the ones there are; a string that has a weight *)
(* for a host says what the weight becomes.                                *)
LEMMA EnteredFacts ==
    ASSUME NEW map \in [Hosts -> Nat], NEW str \in Strings
    PROVE  /\ Entered(map, str) \in [Hosts -> Nat]
           /\ \A h \in Hosts : /\ WeightIn(str, h) \in Nat
                               /\ WeightIn(str, h) > 0 => Entered(map, str)[h] = WeightIn(str, h)
                               /\ ValidPairs(str) = {} => /\ Entered(map, str)[h] = map[h]
                                                          /\ WeightIn(str, h) = 0
<1> DEFINE Pairs(h) == {n \in ValidPairs(str) : str[n][1] = h}
           Final(h) == CHOOSE n \in Pairs(h) : \A m \in Pairs(h) : m <= n
<1>1. ASSUME NEW h \in Hosts, NEW any \in [Hosts -> Nat]
      PROVE  Entered(any, str)[h] = IF Pairs(h) = {} THEN any[h] ELSE str[Final(h)][2]
  BY DEF Entered
<1>2. ASSUME NEW h \in Hosts, Pairs(h) # {} PROVE str[Final(h)][2] \in Nat
  <2>1. Pairs(h) \subseteq 1..Len(str)
    BY DEF ValidPairs, Strings
  <2>2. \E n \in Pairs(h) : \A m \in Pairs(h) : m <= n
    <3> HIDE DEF Pairs
    <3>1. Len(str) \in Nat
      BY DEF Strings
    <3> QED
      BY <2>1, <3>1, <1>2, HighestExists
  <2>3. Final(h) \in Pairs(h)
    BY <2>2
  <2>4. Final(h) \in 1..Len(str)
    BY <2>1, <2>3
  <2>5. str[Final(h)] \in Hosts \X Nat
    <3> HIDE DEF Final
    <3> QED
      BY <2>4 DEF Strings
  <2> QED
    BY <2>5
<1>3. NewInfo.cluster_weight_map = [h \in Hosts |-> 0]
      /\ [h \in Hosts |-> 0] \in [Hosts -> Nat]
  BY DEF NewInfo
<1>4. ASSUME NEW h \in Hosts
      PROVE  WeightIn(str, h) = IF Pairs(h) = {} THEN 0 ELSE str[Final(h)][2]
  <2> HIDE DEF Pairs, Final
  <2>1. Entered([x \in Hosts |-> 0], str)[h]
           = IF Pairs(h) = {} THEN [x \in Hosts |-> 0][h] ELSE str[Final(h)][2]
    BY <1>1, <1>3
  <2> QED
    BY <2>1, <1>3 DEF WeightIn
<1>5. ASSUME NEW h \in Hosts
      PROVE  Entered(map, str)[h] \in Nat
  <2> HIDE DEF Pairs, Final
  <2> QED
    BY <1>1, <1>2
<1>6. Entered(map, str) = [h \in Hosts |-> Entered(map, str)[h]]
  BY DEF Entered
<1>7. ASSUME NEW h \in Hosts
      PROVE  /\ WeightIn(str, h) \in Nat
             /\ WeightIn(str, h) > 0 => Entered(map, str)[h] = WeightIn(str, h)
  <2> HIDE DEF Pairs, Final
  <2> QED
    BY <1>1, <1>2, <1>4
<1>8. ASSUME NEW h \in Hosts, ValidPairs(str) = {}
      PROVE  Entered(map, str)[h] = map[h] /\ WeightIn(str, h) = 0
  <2>1. Pairs(h) = {}
    BY <1>8
  <2> HIDE DEF Pairs, Final
  <2> QED
    BY <2>1, <1>1, <1>4
<1>9. Entered(map, str) \in [Hosts -> Nat]
  <2> DEFINE new == Entered(map, str)
  <2>1. new = [h \in Hosts |-> new[h]] /\ \A h \in Hosts : new[h] \in Nat
    BY <1>5, <1>6
  <2> HIDE DEF new
  <2>2. new \in [Hosts -> Nat]
    BY <2>1
  <2> QED
    BY <2>2 DEF new
<1> QED
  BY <1>7, <1>8, <1>9

(* The invariant of an info: its weights are as the last string that was   *)
(* entered says, whatever was entered before or after, and less is left of *)
(* a host's turn than its weight.                                          *)
InfoOK(i) ==
    /\ i \in Infos
    /\ i.last_host_weight_str \in Strings
    /\ \A h \in Hosts :
          WeightIn(i.last_host_weight_str, h) > 0
             => i.cluster_weight_map[h] = WeightIn(i.last_host_weight_str, h)
    /\ \A h \in Hosts :
          i.last_host = h /\ i.cluster_weight_map[h] > 0
             => i.weigth_counter < i.cluster_weight_map[h]

(* Two infos are at the same place of a rotation.                          *)
SamePlace(i, j) ==
    /\ i.last_host = j.last_host
    /\ i.weigth_counter = j.weigth_counter
    /\ i.last_host_weight_str = j.last_host_weight_str

LEMMA NewInfoOK == InfoOK(NewInfo) /\ NewInfo.last_host = 0
<1>1. NewInfo.last_host = 0 /\ NewInfo.last_host_weight_str = <<>>
      /\ NewInfo.cluster_weight_map = [h \in Hosts |-> 0]
  BY DEF NewInfo
<1>2. <<>> \in Strings
  BY DEF Strings
<1>3. [h \in Hosts |-> 0] \in [Hosts -> Nat] /\ ValidPairs(<<>>) = {}
  BY DEF ValidPairs
<1>4. \A h \in Hosts : WeightIn(<<>>, h) = 0
  BY <1>2, <1>3, EnteredFacts
<1> QED
  BY <1>1, <1>2, <1>4, InitialTypes, ConstantFacts DEF InfoOK

LEMMA DefaultWeightReplaced ==
    ASSUME NEW i, InfoOK(i), NEW w \in Nat \ {0}
    PROVE  LET j == [i EXCEPT !.default_weight = w]
           IN InfoOK(j) /\ SamePlace(j, i)
<1> DEFINE j == [i EXCEPT !.default_weight = w]
<1>1. j = [last_host |-> i.last_host, weigth_counter |-> i.weigth_counter,
           default_weight |-> w,
           cluster_weight_map |-> i.cluster_weight_map,
           last_host_weight_str |-> i.last_host_weight_str]
  BY DEF InfoOK, Infos
<1>2. j \in Infos
  BY <1>1 DEF InfoOK, Infos
<1> QED
  BY <1>1, <1>2 DEF InfoOK, SamePlace

LEMMA DefaultWeightKeeps ==
    ASSUME NEW i, InfoOK(i), NEW call \in Calls
    PROVE  /\ InfoOK(UpdatePropsDefaultWeight(i, call.props).info)
           /\ SamePlace(UpdatePropsDefaultWeight(i, call.props).info, i)
<1> DEFINE props == call.props
           new(w) == [i EXCEPT !.default_weight = w]
<1>2. ASSUME NEW w \in Nat \ {0} PROVE InfoOK(new(w)) /\ SamePlace(new(w), i)
  BY DefaultWeightReplaced
<1>3. props.default # Absent /\ IsWeight(props.default) => props.default \in Nat \ {0}
  BY CallFacts DEF IsWeight
<1>4. \/ UpdatePropsDefaultWeight(i, props).info = i
      \/ \E w \in Nat \ {0} : UpdatePropsDefaultWeight(i, props).info = new(w)
  BY <1>3 DEF UpdatePropsDefaultWeight, Returned, Thrown
<1>5. SamePlace(i, i)
  BY DEF SamePlace
<1> QED
  <2> HIDE DEF new, props
  <2>1. InfoOK(UpdatePropsDefaultWeight(i, props).info)
        /\ SamePlace(UpdatePropsDefaultWeight(i, props).info, i)
    BY <1>2, <1>4, <1>5
  <2> QED
    BY <2>1 DEF props

LEMMA WithWeights ==
    ASSUME NEW i \in Infos, NEW m, NEW s
    PROVE  [i EXCEPT !.cluster_weight_map = m, !.last_host_weight_str = s]
              = [last_host |-> i.last_host, weigth_counter |-> i.weigth_counter,
                 default_weight |-> i.default_weight,
                 cluster_weight_map |-> m, last_host_weight_str |-> s]
<1> DEFINE one == [i EXCEPT !.cluster_weight_map = m]
<1>1. [i EXCEPT !.cluster_weight_map = m, !.last_host_weight_str = s]
         = [one EXCEPT !.last_host_weight_str = s]
  OBVIOUS
<1>2. one = [last_host |-> i.last_host, weigth_counter |-> i.weigth_counter,
             default_weight |-> i.default_weight,
             cluster_weight_map |-> m, last_host_weight_str |-> i.last_host_weight_str]
  BY DEF Infos
<1>3. [one EXCEPT !.last_host_weight_str = s]
         = [last_host |-> i.last_host, weigth_counter |-> i.weigth_counter,
            default_weight |-> i.default_weight,
            cluster_weight_map |-> m, last_host_weight_str |-> s]
  <2> HIDE DEF one
  <2> QED
    BY <1>2
<1> QED
  BY <1>1, <1>3

(* A string is entered into an info that is not in the middle of a         *)
(* rotation; if the string covers the hosts of the call it is remembered.  *)
LEMMA HostWeightsEntered ==
    ASSUME NEW i, InfoOK(i), i.last_host = 0, NEW call \in Calls
    PROVE  LET new == UpdatePropsHostWeight(i, call.props)
           IN /\ InfoOK(new.info)
              /\ new.ok /\ call.sel # {} /\ Covers(call.props, call.sel)
                 => new.info.last_host_weight_str = call.props.host
<1> DEFINE str == call.props.host
           done == UpdatePropsHostWeight(i, call.props)
           map == Entered(i.cluster_weight_map, str)
           last == IF ValidPairs(str) = {} THEN i.last_host_weight_str ELSE str
           j == [i EXCEPT !.cluster_weight_map = Entered(@, str),
                          !.last_host_weight_str =
                              IF ValidPairs(str) = {} THEN @ ELSE str]
           k == [i EXCEPT !.cluster_weight_map = NewInfo.cluster_weight_map,
                          !.last_host_weight_str = <<>>]
<1>1. i = [last_host |-> i.last_host, weigth_counter |-> i.weigth_counter,
           default_weight |-> i.default_weight,
           cluster_weight_map |-> i.cluster_weight_map,
           last_host_weight_str |-> i.last_host_weight_str]
  BY DEF InfoOK, Infos
<1>2. /\ i.cluster_weight_map \in [Hosts -> Nat] /\ i.last_host_weight_str \in Strings
      /\ i.last_host_weight_str \in {c.props.host : c \in Calls} \cup {<<>>}
      /\ i.weigth_counter \in Nat /\ i.default_weight \in Nat \ {0}
  BY DEF InfoOK, Infos
<1>3. ASSUME str # Absent PROVE InfoOK(j) /\ j.last_host_weight_str = last
  <2>1. str \in Strings
    BY <1>3, CallFacts DEF Strings
  <2>2. j = [last_host |-> i.last_host, weigth_counter |-> i.weigth_counter,
             default_weight |-> i.default_weight,
             cluster_weight_map |-> map,
             last_host_weight_str |-> last]
    <3>1. j = [i EXCEPT !.cluster_weight_map = map, !.last_host_weight_str = last]
      OBVIOUS
    <3> HIDE DEF j, map, last
    <3> QED
      BY <3>1, WithWeights DEF InfoOK
  <2>3. map \in [Hosts -> Nat]
        /\ \A h \in Hosts : /\ WeightIn(str, h) > 0 => map[h] = WeightIn(str, h)
                            /\ ValidPairs(str) = {} => map[h] = i.cluster_weight_map[h]
    BY <1>2, <2>1, EnteredFacts
  <2>4. last \in {c.props.host : c \in Calls} \cup {<<>>} /\ last \in Strings
    BY <1>2, <2>1
  <2>5. \A h \in Hosts : WeightIn(last, h) > 0 => map[h] = WeightIn(last, h)
    BY <2>3 DEF InfoOK
  <2>6. 0 \notin Hosts
    BY ConstantFacts
  <2> HIDE DEF j, map, last
  <2>7. j \in Infos
    BY <1>2, <2>2, <2>3, <2>4, i.last_host = 0 DEF Infos
  <2> QED
    BY <2>2, <2>4, <2>5, <2>6, <2>7, i.last_host = 0 DEF InfoOK
<1>4. InfoOK(k)
  <2>1. k = [last_host |-> 0, weigth_counter |-> i.weigth_counter,
             default_weight |-> i.default_weight,
             cluster_weight_map |-> NewInfo.cluster_weight_map,
             last_host_weight_str |-> NewInfo.last_host_weight_str]
    <3>1. NewInfo.last_host_weight_str = <<>> /\ i \in Infos
      BY DEF NewInfo, InfoOK
    <3>2. k = [last_host |-> i.last_host, weigth_counter |-> i.weigth_counter,
               default_weight |-> i.default_weight,
               cluster_weight_map |-> NewInfo.cluster_weight_map,
               last_host_weight_str |-> <<>>]
      BY <3>1, WithWeights
    <3> HIDE DEF k
    <3> QED
      BY <3>1, <3>2, i.last_host = 0
  <2>2. InfoOK(NewInfo) /\ 0 \notin Hosts
    BY NewInfoOK, ConstantFacts
  <2> HIDE DEF k
  <2>3. k \in Infos
    BY <1>2, <2>1, <2>2 DEF InfoOK, Infos
  <2> QED
    BY <2>1, <2>2, <2>3 DEF InfoOK
<1>5. \/ str = Absent /\ done = Returned(i)
      \/ str # Absent /\ str = <<>> /\ done = Returned(k)
      \/ str # Absent /\ str # <<>> /\ done \in {Returned(j), Thrown(j)}
  BY DEF UpdatePropsHostWeight
<1>6. InfoOK(done.info)
  <2> HIDE DEF done, j, k, str
  <2> QED
    BY <1>3, <1>4, <1>5 DEF Returned, Thrown
<1>7. ASSUME call.sel # {}, Covers(call.props, call.sel)
      PROVE  str # Absent /\ ValidPairs(str) # {}
  <2>1. PICK h \in call.sel : WeightOf(call.props, h) > 0
    BY <1>7 DEF Covers
  <2>2. h \in Hosts /\ str # Absent /\ str \in Strings
    BY <1>7, CallFacts DEF Covers, Strings
  <2>3. WeightIn(str, h) > 0
    BY <2>1 DEF WeightIn, WeightOf
  <2> QED
    BY <1>2, <2>2, <2>3, EnteredFacts
<1>8. ASSUME done.ok, call.sel # {}, Covers(call.props, call.sel)
      PROVE  done.info.last_host_weight_str = str
  <2>1. str # Absent /\ ValidPairs(str) # {}
    BY <1>7, <1>8
  <2>2. str # <<>>
    BY <2>1 DEF ValidPairs
  <2>3. done.info = j
    <3> HIDE DEF done, j, k, str
    <3> QED
      BY <1>5, <2>1, <2>2 DEF Returned, Thrown
  <2> QED
    BY <1>3, <2>1, <2>3
<1> QED
  BY <1>6, <1>8

(* A change of the properties keeps the invariant of an info; after a call *)
(* that succeeds the string that covers its hosts is the one remembered,   *)
(* and a call with the same string does not disturb the rotation.          *)
LEMMA UpdatePropsKeeps ==
    ASSUME NEW call \in Calls
    PROVE  LET new == UpdateProps(NewInfo, call.props)
           IN /\ InfoOK(new.info)
              /\ new.ok /\ call.sel # {} /\ Covers(call.props, call.sel)
                 => new.info.last_host_weight_str = call.props.host
<1> DEFINE first == UpdatePropsDefaultWeight(NewInfo, call.props)
           new   == UpdatePropsHostWeight(first.info, call.props)
<1>1. InfoOK(first.info) /\ first.info.last_host = 0
  BY NewInfoOK, DefaultWeightKeeps DEF SamePlace
<1>2. /\ InfoOK(new.info)
      /\ new.ok /\ call.sel # {} /\ Covers(call.props, call.sel)
         => new.info.last_host_weight_str = call.props.host
  <2> HIDE DEF first
  <2> QED
    BY <1>1, HostWeightsEntered
<1>3. UpdateProps(NewInfo, call.props) = IF first.ok THEN new ELSE first
  BY DEF UpdateProps
<1> HIDE DEF first, new
<1> QED
  BY <1>1, <1>2, <1>3

LEMMA RotationRestarts ==
    ASSUME NEW i, InfoOK(i)
    PROVE  InfoOK(RestartRotation(i)) /\ RestartRotation(i).last_host = 0
<1> DEFINE one == [i EXCEPT !.last_host = 0]
<1>1. RestartRotation(i) = [one EXCEPT !.weigth_counter = 0]
  BY DEF RestartRotation
<1>2. one = [last_host |-> 0, weigth_counter |-> i.weigth_counter,
             default_weight |-> i.default_weight,
             cluster_weight_map |-> i.cluster_weight_map,
             last_host_weight_str |-> i.last_host_weight_str]
  BY DEF InfoOK, Infos
<1>3. RestartRotation(i)
         = [last_host |-> 0, weigth_counter |-> 0,
            default_weight |-> i.default_weight,
            cluster_weight_map |-> i.cluster_weight_map,
            last_host_weight_str |-> i.last_host_weight_str]
  <2> HIDE DEF one
  <2> QED
    BY <1>1, <1>2
<1>4. RestartRotation(i) \in Infos /\ 0 \notin Hosts
  BY <1>3, ConstantFacts DEF InfoOK, Infos
<1> QED
  BY <1>3, <1>4 DEF InfoOK

LEMMA ChangedPropsKeep ==
    ASSUME NEW i, InfoOK(i), NEW call \in Calls
    PROVE  LET new == UpdateChangedProps(i, call.props)
           IN /\ InfoOK(new.info)
              /\ new.ok /\ call.sel # {} /\ Covers(call.props, call.sel)
                 => new.info.last_host_weight_str = call.props.host
              /\ i.last_host_weight_str = call.props.host => SamePlace(new.info, i)
<1> DEFINE props == call.props
           one   == [i EXCEPT !.default_weight = 1]
           first == IF props.default = Absent THEN Returned(i)
                    ELSE UpdatePropsDefaultWeight(one, props)
           new   == UpdateChangedHostWeight(first.info, props)
<1>1. InfoOK(one) /\ SamePlace(one, i)
  BY DefaultWeightReplaced
<1>2. InfoOK(first.info) /\ SamePlace(first.info, i)
  <2>1. InfoOK(UpdatePropsDefaultWeight(one, props).info)
        /\ SamePlace(UpdatePropsDefaultWeight(one, props).info, one)
    <3> HIDE DEF one
    <3> QED
      BY <1>1, DefaultWeightKeeps
  <2>2. first \in {Returned(i), UpdatePropsDefaultWeight(one, props)}
    OBVIOUS
  <2>3. Returned(i).info = i /\ SamePlace(i, i)
    BY DEF Returned, SamePlace
  <2> HIDE DEF first, one, props
  <2>4. SamePlace(UpdatePropsDefaultWeight(one, props).info, i)
    BY <1>1, <2>1 DEF SamePlace
  <2> QED
    BY <2>1, <2>2, <2>3, <2>4
<1>3. CASE props.host # Absent /\ props.host # first.info.last_host_weight_str
  <2> DEFINE j == RestartRotation(first.info)
  <2>1. InfoOK(j) /\ j.last_host = 0
    <3> HIDE DEF first
    <3> QED
      BY <1>2, RotationRestarts
  <2>2. new = UpdatePropsHostWeight(j, props)
    BY <1>3 DEF UpdateChangedHostWeight
  <2>3. /\ InfoOK(new.info)
        /\ new.ok /\ call.sel # {} /\ Covers(props, call.sel)
           => new.info.last_host_weight_str = props.host
    <3> HIDE DEF j, new
    <3> QED
      BY <2>1, <2>2, HostWeightsEntered
  <2>4. i.last_host_weight_str # props.host
    BY <1>2, <1>3 DEF SamePlace
  <2>5. UpdateChangedProps(i, props) = IF first.ok THEN new ELSE first
    BY DEF UpdateChangedProps
  <2>6. first.ok \/ UpdateChangedProps(i, props) = first
    BY <2>5
  <2> HIDE DEF first, new, j
  <2>7. CASE first.ok
    BY <2>3, <2>4, <2>5, <2>7
  <2>8. CASE ~first.ok
    BY <1>2, <2>4, <2>5, <2>8
  <2> QED
    BY <2>7, <2>8
<1>4. CASE ~(props.host # Absent /\ props.host # first.info.last_host_weight_str)
  <2>1. new = Returned(first.info)
    BY <1>4 DEF UpdateChangedHostWeight
  <2>2. UpdateChangedProps(i, props) \in {first, new}
        /\ (~first.ok => UpdateChangedProps(i, props) = first)
    BY DEF UpdateChangedProps
  <2>3. Covers(props, call.sel) => first.info.last_host_weight_str = props.host
    BY <1>4 DEF Covers
  <2> HIDE DEF first, new
  <2>4. UpdateChangedProps(i, props).info = first.info
    BY <2>1, <2>2 DEF Returned
  <2> QED
    BY <1>2, <2>3, <2>4
<1> QED
  BY <1>3, <1>4

-----------------------------------------------------------------------------
(* The rotation.                                                           *)

LEMMA TargetFacts ==
    ASSUME NEW i, InfoOK(i), NEW S \in SUBSET Hosts, S # {}
    PROVE  LET h == TargetHost(i, S)
           IN /\ h \in S
              /\ i.weigth_counter > 0 /\ i.last_host \in S => h = i.last_host
              /\ i.weigth_counter = 0 /\ i.last_host \in S
                 => Follows(S, i.last_host, h)
<1> DEFINE a == i.last_host
           after == {h \in S : h > a}
<1>1. S \subseteq Nat /\ a \in Nat /\ i.weigth_counter \in Nat
  BY ConstantFacts DEF InfoOK, Infos
<1>2. LowestOf(S) \in S /\ \A x \in S : LowestOf(S) <= x
  BY <1>1, LowestExists
<1>3. after # {} => LowestOf(after) \in after /\ \A x \in after : LowestOf(after) <= x
  BY <1>1, LowestExists
<1>4. CASE i.weigth_counter > 0 /\ a \in S
  BY <1>1, <1>4 DEF TargetHost
<1>5. CASE ~(i.weigth_counter > 0 /\ a \in S) /\ a \in S /\ after # {}
  <2>1. TargetHost(i, S) = LowestOf(after)
    BY <1>5 DEF TargetHost
  <2>2. LowestOf(after) \in S /\ a < LowestOf(after)
    BY <1>1, <1>3, <1>5
  <2>3. ASSUME NEW c \in S PROVE c <= a \/ LowestOf(after) <= c
    BY <1>1, <1>3, <1>5
  <2> HIDE DEF after
  <2> QED
    BY <1>1, <1>5, <2>1, <2>2, <2>3 DEF Follows
<1>6. CASE ~(i.weigth_counter > 0 /\ a \in S) /\ ~(a \in S /\ after # {})
  <2>1. TargetHost(i, S) = LowestOf(S)
    BY <1>6 DEF TargetHost
  <2>2. a \in S => \A c \in S : c <= a
    BY <1>1, <1>6
  <2> HIDE DEF after
  <2> QED
    BY <1>1, <1>2, <1>6, <2>1, <2>2 DEF Follows
<1> QED
  BY <1>4, <1>5, <1>6

LEMMA ServedFacts ==
    ASSUME NEW i, InfoOK(i), NEW S \in SUBSET Hosts, S # {}
    PROVE  LET h == TargetHost(i, S)
               j == Served(i, S)
           IN /\ InfoOK(j) /\ j.last_host = h
              /\ j.last_host_weight_str = i.last_host_weight_str
              /\ i.weigth_counter > 0 /\ i.last_host \in S
                 => j.weigth_counter = i.weigth_counter - 1
              /\ ~(i.weigth_counter > 0 /\ i.last_host \in S) /\ i.cluster_weight_map[h] > 0
                 => j.weigth_counter = i.cluster_weight_map[h] - 1
<1> DEFINE h == TargetHost(i, S)
           on == i.weigth_counter > 0 /\ i.last_host \in S
           weight == IF i.cluster_weight_map[h] > 0 THEN i.cluster_weight_map[h]
                                                    ELSE i.default_weight
           start == IF on THEN i.weigth_counter ELSE weight
           one == [i EXCEPT !.last_host = h]
<1>1. h \in S /\ h \in Hosts /\ (on => h = i.last_host)
  BY TargetFacts
<1>2. /\ i.weigth_counter \in Nat /\ i.default_weight \in Nat \ {0}
      /\ i.cluster_weight_map \in [Hosts -> Nat]
  BY DEF InfoOK, Infos
<1>3. i.cluster_weight_map[h] \in Nat
  BY <1>1, <1>2
<1>4. start \in Nat \ {0}
  <2> HIDE DEF h
  <2> QED
    BY <1>2, <1>3
<1>5. Served(i, S) = [one EXCEPT !.weigth_counter = start - 1]
  BY DEF Served
<1>6. one = [last_host |-> h, weigth_counter |-> i.weigth_counter,
             default_weight |-> i.default_weight,
             cluster_weight_map |-> i.cluster_weight_map,
             last_host_weight_str |-> i.last_host_weight_str]
  <2> HIDE DEF h
  <2> QED
    BY DEF InfoOK, Infos
<1>7. Served(i, S) = [last_host |-> h, weigth_counter |-> start - 1,
                      default_weight |-> i.default_weight,
                      cluster_weight_map |-> i.cluster_weight_map,
                      last_host_weight_str |-> i.last_host_weight_str]
  <2> HIDE DEF one, start, h
  <2> QED
    BY <1>5, <1>6
<1>8. i.cluster_weight_map[h] > 0 => start - 1 < i.cluster_weight_map[h]
  <2>1. on /\ i.cluster_weight_map[h] > 0 => i.weigth_counter < i.cluster_weight_map[h]
    BY <1>1 DEF InfoOK
  <2> HIDE DEF h, on
  <2> QED
    BY <1>2, <1>3, <2>1
<1>9. /\ on => start = i.weigth_counter
      /\ ~on /\ i.cluster_weight_map[h] > 0 => start = i.cluster_weight_map[h]
  OBVIOUS
<1> HIDE DEF h, start
<1>10. Served(i, S) \in Infos
  BY <1>1, <1>4, <1>7 DEF InfoOK, Infos
<1>11. InfoOK(Served(i, S))
  BY <1>7, <1>8, <1>10 DEF InfoOK
<1> QED
  BY <1>7, <1>9, <1>11 DEF h

(* What is left of the turn of the last host completes the run it has had; *)
(* the beginning of a run is not known if the log begins with it, and the  *)
(* only host of a selection has no other to give its turn to.              *)
Continues(i, l) ==
    LET last == Len(l.hosts)
    IN /\ i.last_host_weight_str = l.props.host
       /\ i.last_host = l.hosts[last]
       /\ \A m \in DOMAIN l.hosts :
             RunOf(l.hosts, m, last) =>
                LET turn == i.weigth_counter + (last - m + 1)
                    weight == WeightOf(l.props, l.hosts[last])
                IN IF m > 1 THEN turn = weight
                   ELSE turn <= weight \/ l.sel = {l.hosts[last]}

(* An info that remembers a string has the weights of the string.          *)
LEMMA CoveredWeights ==
    ASSUME NEW i, InfoOK(i), NEW S \in SUBSET Hosts, NEW props, Covers(props, S),
           i.last_host_weight_str = props.host
    PROVE  \A h \in S : /\ i.cluster_weight_map[h] = WeightOf(props, h)
                        /\ WeightOf(props, h) \in Nat \ {0}
<1> SUFFICES ASSUME NEW h \in S
             PROVE  /\ i.cluster_weight_map[h] = WeightOf(props, h)
                    /\ WeightOf(props, h) \in Nat \ {0}
  OBVIOUS
<1>1. WeightOf(props, h) > 0 /\ WeightOf(props, h) = WeightIn(props.host, h)
  BY DEF Covers, WeightOf, WeightIn
<1>2. props.host \in Strings /\ h \in Hosts
  BY DEF InfoOK
<1>3. WeightIn(props.host, h) \in Nat
  BY <1>2, EnteredFacts, InitialTypes DEF Infos
<1>4. i.cluster_weight_map[h] = WeightIn(props.host, h)
  BY <1>1, <1>2 DEF InfoOK
<1> QED
  BY <1>1, <1>3, <1>4

(* The first result of a log.                                              *)
LEMMA FirstResult ==
    ASSUME NEW i, InfoOK(i), NEW l, l.sel \in SUBSET Hosts, l.sel # {},
           Covers(l.props, l.sel), i.last_host_weight_str = l.props.host,
           l.hosts = <<TargetHost(i, l.sel)>>
    PROVE  Rotates(l) /\ Continues(Served(i, l.sel), l)
<1> DEFINE h == TargetHost(i, l.sel)
           j == Served(i, l.sel)
<1>1. h \in l.sel /\ h \in Hosts
  BY TargetFacts
<1>2. /\ InfoOK(j) /\ j.last_host = h
      /\ j.last_host_weight_str = l.props.host
  BY ServedFacts
<1>3. j.cluster_weight_map[h] = WeightOf(l.props, h) /\ WeightOf(l.props, h) \in Nat \ {0}
  <2> HIDE DEF h, j
  <2> QED
    BY <1>1, <1>2, CoveredWeights
<1>4. j.weigth_counter \in Nat /\ j.weigth_counter < WeightOf(l.props, h)
  <2> HIDE DEF h, j
  <2> QED
    BY <1>1, <1>2, <1>3 DEF InfoOK, Infos
<1>5. Len(l.hosts) = 1 /\ DOMAIN l.hosts = {1} /\ l.hosts[1] = h
  OBVIOUS
<1> HIDE DEF h, j
<1>6. Rotates(l)
  BY <1>5 DEF Rotates
<1>7. Continues(j, l)
  BY <1>2, <1>3, <1>4, <1>5 DEF Continues
<1> QED
  BY <1>6, <1>7 DEF j

(* The next result of a log.                                               *)
LEMMA NextResult ==
    ASSUME NEW i, InfoOK(i), NEW l, l.sel \in SUBSET Hosts, l.sel # {},
           Covers(l.props, l.sel), i.last_host_weight_str = l.props.host,
           l.hosts \in Seq(l.sel), l.hosts # <<>>, Rotates(l), Continues(i, l),
           NEW k, k.sel = l.sel, k.props = l.props,
           k.hosts = Append(l.hosts, TargetHost(i, l.sel))
    PROVE  Rotates(k) /\ Continues(Served(i, l.sel), k)
<1> DEFINE S == l.sel
           h == TargetHost(i, S)
           j == Served(i, S)
           last == Len(l.hosts)
           g == l.hosts[last]
           w(x) == WeightOf(l.props, x)
           counter == i.weigth_counter
<1>1. /\ last \in Nat \ {0} /\ g \in S /\ DOMAIN l.hosts = 1..last
      /\ \A n \in 1..last : l.hosts[n] \in S
  OBVIOUS
<1>2. /\ Len(k.hosts) = last + 1 /\ DOMAIN k.hosts = 1..(last + 1)
      /\ k.hosts[last + 1] = h
      /\ \A n \in 1..last : k.hosts[n] = l.hosts[n]
  <2>1. h \in S /\ l.hosts \in Seq(S) /\ k.hosts = Append(l.hosts, h)
    BY TargetFacts
  <2> HIDE DEF h, S
  <2> QED
    BY <2>1
<1>3. g = i.last_host /\ g \in S
  BY <1>1 DEF Continues
<1>4. counter \in Nat
  BY DEF InfoOK, Infos
<1>5. h \in S /\ (counter > 0 => h = g) /\ (counter = 0 => Follows(S, g, h))
  <2> HIDE DEF g
  <2> QED
    BY <1>3, TargetFacts
<1>6. \A x \in S : i.cluster_weight_map[x] = w(x) /\ w(x) \in Nat \ {0}
  BY CoveredWeights
<1>7. /\ j.last_host = h /\ j.last_host_weight_str = l.props.host
      /\ counter > 0 => j.weigth_counter = counter - 1
      /\ counter = 0 => j.weigth_counter = w(h) - 1
  <2> HIDE DEF h, j, g
  <2>1. h \in S /\ i.cluster_weight_map[h] = w(h) /\ w(h) \in Nat \ {0}
    BY <1>5, <1>6
  <2> QED
    BY <1>3, <1>4, <2>1, ServedFacts DEF h, j
<1>8. S \subseteq Nat
  BY ConstantFacts
<1> HIDE DEF S, h, j, last, g, w, counter
<1>9. ASSUME NEW m \in 1..last, NEW n \in 1..last
      PROVE  RunOf(k.hosts, m, n) <=> RunOf(l.hosts, m, n)
  BY <1>1, <1>2 DEF RunOf
<1>10. ASSUME NEW m \in 1..last, RunOf(l.hosts, m, last)
       PROVE  IF m > 1 THEN counter + (last - m + 1) = w(g)
              ELSE counter + (last - m + 1) <= w(g) \/ S = {g}
  BY <1>1, <1>10 DEF Continues, last, g, w, counter, S
<1>11. S = {g} => h = g /\ \A m \in 1..last : RunOf(l.hosts, m, last) => ~(m > 1)
  <2>1. S = {g} => \A n \in 1..last : l.hosts[n] = g
    BY <1>1
  <2> QED
    BY <1>1, <1>5, <2>1 DEF RunOf, g
<1>12. ASSUME Follows(S, g, g) PROVE S = {g}
  BY <1>3, <1>8, <1>12 DEF Follows
<1>13. ASSUME S = {g} PROVE Follows(S, g, g)
  BY <1>3, <1>8, <1>13 DEF Follows
<1>14. ASSUME NEW m \in 1..last, RunOf(l.hosts, m, last)
       PROVE  \/ h = g /\ last - m + 1 < w(g)
              \/ Follows(S, g, h) /\ (m > 1 => last - m + 1 = w(g))
  <2>1. w(g) \in Nat
    BY <1>3, <1>6
  <2>2. CASE counter > 0 /\ S # {g}
    BY <1>1, <1>4, <1>5, <1>10, <1>14, <2>1, <2>2
  <2>3. CASE S = {g}
    BY <1>11, <1>13, <1>14, <2>3
  <2>4. CASE counter = 0
    BY <1>1, <1>5, <1>10, <1>14, <2>1, <2>4
  <2> QED
    BY <1>4, <2>2, <2>3, <2>4
<1>15. Rotates(k)
  <2> SUFFICES ASSUME NEW m \in DOMAIN k.hosts, NEW n \in DOMAIN k.hosts,
                      m <= n, n < Len(k.hosts), RunOf(k.hosts, m, n)
               PROVE  \/ /\ k.hosts[n + 1] = k.hosts[n]
                         /\ n - m + 1 < WeightOf(k.props, k.hosts[n])
                      \/ /\ Follows(k.sel, k.hosts[n], k.hosts[n + 1])
                         /\ m > 1 => n - m + 1 = WeightOf(k.props, k.hosts[n])
    BY DEF Rotates
  <2>1. m \in 1..last /\ n \in 1..last /\ RunOf(l.hosts, m, n)
    BY <1>1, <1>2, <1>9
  <2>2. CASE n = last
    <3>1. k.hosts[n] = g /\ k.hosts[n + 1] = h
      BY <1>1, <1>2, <2>2 DEF g
    <3> QED
      BY <1>14, <2>1, <2>2, <3>1 DEF S, w
  <2>3. CASE n # last
    <3>1. n < last /\ n + 1 \in 1..last
      BY <1>1, <2>1, <2>3
    <3>2. k.hosts[n] = l.hosts[n] /\ k.hosts[n + 1] = l.hosts[n + 1]
      BY <1>2, <2>1, <3>1
    <3>3. \/ /\ l.hosts[n + 1] = l.hosts[n]
             /\ n - m + 1 < WeightOf(l.props, l.hosts[n])
          \/ /\ Follows(l.sel, l.hosts[n], l.hosts[n + 1])
             /\ m > 1 => n - m + 1 = WeightOf(l.props, l.hosts[n])
      BY <1>1, <2>1, <3>1 DEF Rotates, last
    <3> QED
      BY <3>2, <3>3
  <2> QED
    BY <2>2, <2>3
<1>16. ASSUME NEW m \in 1..(last + 1), RunOf(k.hosts, m, last + 1)
       PROVE  IF m > 1 THEN j.weigth_counter + ((last + 1) - m + 1) = w(h)
              ELSE j.weigth_counter + ((last + 1) - m + 1) <= w(h) \/ S = {h}
  <2>1. w(h) \in Nat \ {0} /\ w(g) \in Nat \ {0}
    BY <1>3, <1>5, <1>6
  <2>2. CASE m = last + 1
    <3>1. k.hosts[last] # h
      <4>1. m > 1 /\ m - 1 = last
        BY <1>1, <2>2
      <4> QED
        BY <1>2, <1>16, <4>1 DEF RunOf
    <3>2. k.hosts[last] = g
      BY <1>1, <1>2 DEF g
    <3>3. counter = 0
      BY <1>4, <1>5, <3>1, <3>2
    <3>4. m > 1 /\ (last + 1) - m + 1 = 1
      BY <1>1, <2>2
    <3>5. j.weigth_counter + 1 = w(h)
      BY <1>7, <2>1, <3>3
    <3> QED
      BY <3>4, <3>5
  <2>3. CASE m \in 1..last
    <3>1. k.hosts[last] = h /\ h = g
      <4>1. last \in m..(last + 1)
        BY <1>1, <2>3
      <4> QED
        BY <1>1, <1>2, <1>16, <4>1 DEF RunOf, g
    <3>2. RunOf(k.hosts, m, last)
      <4>1. \A n \in m..last : n \in m..(last + 1)
        BY <1>1, <2>3
      <4> QED
        BY <1>2, <1>16, <3>1, <4>1 DEF RunOf
    <3>3. RunOf(l.hosts, m, last)
      BY <1>1, <1>9, <2>3, <3>2
    <3>4. CASE counter > 0
      BY <1>1, <1>4, <1>7, <1>10, <2>1, <2>3, <3>1, <3>3, <3>4
    <3>5. CASE counter = 0
      <4>1. S = {g}
        BY <1>5, <1>12, <3>1, <3>5
      <4> QED
        BY <1>11, <2>3, <3>1, <3>3, <4>1
    <3> QED
      BY <1>4, <3>4, <3>5
  <2> QED
    BY <1>1, <2>2, <2>3
<1>17. Continues(j, k)
  <2> DEFINE Completed(n, x) ==
         \A m \in DOMAIN k.hosts :
            RunOf(k.hosts, m, n) =>
               IF m > 1
               THEN j.weigth_counter + (n - m + 1) = WeightOf(k.props, x)
               ELSE \/ j.weigth_counter + (n - m + 1) <= WeightOf(k.props, x)
                    \/ k.sel = {x}
  <2>1. Completed(last + 1, h)
    <3>1. ASSUME NEW m \in DOMAIN k.hosts, RunOf(k.hosts, m, last + 1)
          PROVE  IF m > 1
                 THEN j.weigth_counter + ((last + 1) - m + 1) = WeightOf(k.props, h)
                 ELSE \/ j.weigth_counter + ((last + 1) - m + 1) <= WeightOf(k.props, h)
                      \/ k.sel = {h}
      BY <1>2, <1>16, <3>1 DEF S, w
    <3> QED
      BY <3>1
  <2>2. k.hosts[Len(k.hosts)] = h /\ Len(k.hosts) = last + 1
    BY <1>2
  <2>3. Completed(Len(k.hosts), k.hosts[Len(k.hosts)])
    <3> HIDE DEF Completed
    <3> QED
      BY <2>1, <2>2
  <2>4. j.last_host_weight_str = k.props.host /\ j.last_host = k.hosts[Len(k.hosts)]
    BY <1>7, <2>2
  <2> QED
    BY <2>3, <2>4, Zenon DEF Continues
<1> QED
  BY <1>15, <1>17 DEF j, S

(* The oldest result of a log is forgotten.                                *)
LEMMA ShiftedRotation ==
    ASSUME NEW i, i.weigth_counter \in Nat, NEW l, NEW S, Rotates(l), Continues(i, l),
           \A h \in S : WeightOf(l.props, h) \in Nat,
           NEW last \in Nat, last > 1, last = Len(l.hosts), DOMAIN l.hosts = 1..last,
           \A n \in 1..last : l.hosts[n] \in S,
           NEW k, k.sel = l.sel, k.props = l.props,
           Len(k.hosts) = last - 1, DOMAIN k.hosts = 1..(last - 1),
           \A n \in 1..(last - 1) : k.hosts[n] = l.hosts[n + 1]
    PROVE  Rotates(k) /\ Continues(i, k)
<1>1. /\ last \in Nat /\ last > 1 /\ DOMAIN l.hosts = 1..last
      /\ \A n \in 1..last : l.hosts[n] \in S
  OBVIOUS
<1>2. /\ Len(k.hosts) = last - 1 /\ DOMAIN k.hosts = 1..(last - 1)
      /\ \A n \in 1..(last - 1) : k.hosts[n] = l.hosts[n + 1]
  OBVIOUS
<1>3. ASSUME NEW m \in 1..(last - 1), NEW n \in m..(last - 1), RunOf(k.hosts, m, n), m > 1
      PROVE  RunOf(l.hosts, m + 1, n + 1)
  <2>1. ASSUME NEW x \in (m + 1)..(n + 1) PROVE l.hosts[x] = l.hosts[n + 1]
    <3>1. x - 1 \in m..n /\ x - 1 \in 1..(last - 1) /\ n \in 1..(last - 1) /\ (x - 1) + 1 = x
      BY <1>1
    <3>2. k.hosts[x - 1] = k.hosts[n]
      BY <1>3, <3>1 DEF RunOf
    <3>3. k.hosts[x - 1] = l.hosts[(x - 1) + 1] /\ k.hosts[n] = l.hosts[n + 1]
      BY <1>2, <3>1
    <3> QED
      BY <3>1, <3>2, <3>3
  <2>2. l.hosts[m] # l.hosts[n + 1]
    <3>1. m - 1 \in 1..(last - 1) /\ n \in 1..(last - 1) /\ (m - 1) + 1 = m
      BY <1>1, <1>3
    <3>2. k.hosts[m - 1] = l.hosts[m] /\ k.hosts[n] = l.hosts[n + 1]
      BY <1>2, <3>1
    <3> QED
      BY <1>3, <3>2 DEF RunOf
  <2>3. (m + 1) - 1 = m
    BY <1>1
  <2> QED
    BY <2>1, <2>2, <2>3 DEF RunOf
<1>4. ASSUME NEW n \in 1..(last - 1), RunOf(k.hosts, 1, n)
      PROVE  \E m \in {1, 2} : RunOf(l.hosts, m, n + 1)
  <2>1. ASSUME NEW x \in 2..(n + 1) PROVE l.hosts[x] = l.hosts[n + 1]
    <3>1. x - 1 \in 1..n /\ x - 1 \in 1..(last - 1) /\ (x - 1) + 1 = x
      BY <1>1
    <3>2. k.hosts[x - 1] = k.hosts[n]
      BY <1>4, <3>1 DEF RunOf
    <3>3. k.hosts[x - 1] = l.hosts[(x - 1) + 1] /\ k.hosts[n] = l.hosts[n + 1]
      BY <1>2, <3>1
    <3> QED
      BY <3>1, <3>2, <3>3
  <2>2. CASE l.hosts[1] = l.hosts[n + 1]
    <3>1. \A x \in 1..(n + 1) : x = 1 \/ x \in 2..(n + 1)
      BY <1>1
    <3>2. RunOf(l.hosts, 1, n + 1)
      BY <2>1, <2>2, <3>1 DEF RunOf
    <3> QED
      BY <3>2
  <2>3. CASE l.hosts[1] # l.hosts[n + 1]
    <3>1. RunOf(l.hosts, 2, n + 1)
      BY <2>1, <2>3 DEF RunOf
    <3> QED
      BY <3>1
  <2> QED
    BY <2>2, <2>3
<1>5. Rotates(k)
  <2> SUFFICES ASSUME NEW m \in DOMAIN k.hosts, NEW n \in DOMAIN k.hosts,
                      m <= n, n < Len(k.hosts), RunOf(k.hosts, m, n)
               PROVE  \/ /\ k.hosts[n + 1] = k.hosts[n]
                         /\ n - m + 1 < WeightOf(k.props, k.hosts[n])
                      \/ /\ Follows(k.sel, k.hosts[n], k.hosts[n + 1])
                         /\ m > 1 => n - m + 1 = WeightOf(k.props, k.hosts[n])
    BY DEF Rotates
  <2>1. /\ m \in 1..(last - 1) /\ n \in m..(last - 1) /\ n + 1 \in 1..(last - 1)
        /\ n \in 1..(last - 1) /\ n + 1 \in 1..last /\ n + 1 < last
        /\ m \in Nat /\ n \in Nat /\ m <= n
    BY <1>1, <1>2
  <2>2. /\ k.hosts[n] = l.hosts[n + 1] /\ k.hosts[n + 1] = l.hosts[n + 1 + 1]
    BY <1>2, <2>1
  <2>3. l.hosts[n + 1] \in S /\ WeightOf(l.props, l.hosts[n + 1]) \in Nat
    BY <1>1, <2>1
  <2>4. ASSUME NEW x \in 1..last, x <= n + 1, RunOf(l.hosts, x, n + 1)
        PROVE  \/ /\ l.hosts[n + 1 + 1] = l.hosts[n + 1]
                  /\ (n + 1) - x + 1 < WeightOf(l.props, l.hosts[n + 1])
               \/ /\ Follows(l.sel, l.hosts[n + 1], l.hosts[n + 1 + 1])
                  /\ x > 1 => (n + 1) - x + 1 = WeightOf(l.props, l.hosts[n + 1])
    BY <1>1, <2>1, <2>4 DEF Rotates
  <2>5. CASE m > 1
    <3>1. m + 1 \in 1..last /\ m + 1 <= n + 1 /\ m + 1 > 1
          /\ (n + 1) - (m + 1) + 1 = n - m + 1
      <4>1. m + 1 <= n + 1 /\ m + 1 > 1 /\ m + 1 <= last
        BY <1>1, <2>1, <2>5
      <4>2. (n + 1) - (m + 1) + 1 = n - m + 1
        BY <2>1
      <4> QED
        BY <1>1, <2>1, <4>1, <4>2
    <3>2. RunOf(l.hosts, m + 1, n + 1)
      BY <1>3, <2>1, <2>5
    <3>3. \/ /\ l.hosts[n + 1 + 1] = l.hosts[n + 1]
             /\ n - m + 1 < WeightOf(l.props, l.hosts[n + 1])
          \/ /\ Follows(l.sel, l.hosts[n + 1], l.hosts[n + 1 + 1])
             /\ n - m + 1 = WeightOf(l.props, l.hosts[n + 1])
      BY <2>4, <3>1, <3>2
    <3> QED
      BY <2>2, <3>3
  <2>6. CASE m = 1
    <3>1. PICK x \in {1, 2} : RunOf(l.hosts, x, n + 1)
      BY <1>4, <2>1, <2>6
    <3>2. x \in 1..last /\ x <= n + 1 /\ n - m + 1 <= (n + 1) - x + 1
      BY <1>1, <2>1, <2>6
    <3>3. (n + 1) - x + 1 < WeightOf(l.props, l.hosts[n + 1])
             => n - m + 1 < WeightOf(l.props, l.hosts[n + 1])
      BY <2>1, <2>3, <3>2
    <3>4. x <= n + 1 /\ ~(m > 1)
      BY <2>1, <2>6
    <3>5. \/ /\ l.hosts[n + 1 + 1] = l.hosts[n + 1]
             /\ n - m + 1 < WeightOf(l.props, l.hosts[n + 1])
          \/ Follows(l.sel, l.hosts[n + 1], l.hosts[n + 1 + 1])
      BY <2>4, <3>1, <3>2, <3>3, <3>4
    <3> QED
      BY <2>2, <3>4, <3>5
  <2>7. m > 1 \/ m = 1
    BY <2>1
  <2> QED
    BY <2>5, <2>6, <2>7
<1>6. /\ last - 1 \in 1..(last - 1) /\ k.hosts[last - 1] = l.hosts[last]
      /\ (last - 1) + 1 = last /\ l.hosts[last] \in S
  BY <1>1, <1>2
<1>7. WeightOf(l.props, l.hosts[last]) \in Nat
  BY <1>6
<1>8. ASSUME NEW x \in 1..last, RunOf(l.hosts, x, last)
      PROVE  IF x > 1
             THEN i.weigth_counter + (last - x + 1) = WeightOf(l.props, l.hosts[last])
             ELSE \/ i.weigth_counter + (last - x + 1) <= WeightOf(l.props, l.hosts[last])
                  \/ l.sel = {l.hosts[last]}
  BY <1>1, <1>8 DEF Continues
<1>9. ASSUME NEW m \in 1..(last - 1), RunOf(k.hosts, m, last - 1)
      PROVE  IF m > 1
             THEN i.weigth_counter + ((last - 1) - m + 1)
                     = WeightOf(l.props, l.hosts[last])
             ELSE \/ i.weigth_counter + ((last - 1) - m + 1)
                        <= WeightOf(l.props, l.hosts[last])
                  \/ l.sel = {l.hosts[last]}
  <2>1. CASE m > 1
    <3>1. RunOf(l.hosts, m + 1, last) /\ m + 1 \in 1..last /\ m + 1 > 1
      <4>1. last - 1 \in m..(last - 1) /\ m + 1 \in 1..last /\ m + 1 > 1
        BY <1>1, <2>1
      <4>2. RunOf(l.hosts, m + 1, (last - 1) + 1)
        BY <1>3, <1>9, <2>1, <4>1
      <4> QED
        BY <1>6, <4>1, <4>2
    <3>2. last - (m + 1) + 1 = (last - 1) - m + 1
      BY <1>1
    <3> QED
      BY <1>8, <2>1, <3>1, <3>2
  <2>2. CASE m = 1
    <3>1. PICK x \in {1, 2} : RunOf(l.hosts, x, last)
      BY <1>4, <1>6, <1>9, <2>2
    <3>2. /\ x \in 1..last
          /\ i.weigth_counter + ((last - 1) - m + 1) <= i.weigth_counter + (last - x + 1)
          /\ i.weigth_counter + (last - x + 1) \in Int
          /\ i.weigth_counter + ((last - 1) - m + 1) \in Int
      BY <1>1, <2>2
    <3> QED
      BY <1>7, <1>8, <2>2, <3>1, <3>2
  <2> QED
    BY <2>1, <2>2
<1>10. Continues(i, k)
  BY <1>2, <1>6, <1>9 DEF Continues
<1> QED
  BY <1>5, <1>10

LEMMA OldestForgotten ==
    ASSUME NEW i, i.weigth_counter \in Nat, NEW l, NEW S, l.hosts \in Seq(S),
           Len(l.hosts) > 1, Rotates(l), Continues(i, l),
           \A h \in S : WeightOf(l.props, h) \in Nat,
           NEW k, k.sel = l.sel, k.props = l.props,
           k.hosts = SubSeq(l.hosts, 2, Len(l.hosts))
    PROVE  Rotates(k) /\ Continues(i, k)
<1> DEFINE last == Len(l.hosts)
<1>1. /\ last \in Nat /\ last > 1 /\ DOMAIN l.hosts = 1..last
      /\ \A n \in 1..last : l.hosts[n] \in S
  OBVIOUS
<1>2. /\ Len(k.hosts) = last - 1 /\ DOMAIN k.hosts = 1..(last - 1)
      /\ \A n \in 1..(last - 1) : k.hosts[n] = l.hosts[n + 1]
  OBVIOUS
<1> QED
  BY <1>1, <1>2, ShiftedRotation

-----------------------------------------------------------------------------
(* The inductive invariant.                                                *)

(* The hosts of a log have the same info in the cache, for as long as the  *)
(* log is kept, and the info continues the log.                            *)
SharedInfo(l, c, infos) ==
    \E id \in Ids :
       /\ \A h \in l.sel : c[h] # NoEntry /\ c[h].value = id /\ c[h].left >= l.left
       /\ Continues(infos[id], l)

LogOK(C, l, c, infos) ==
    /\ l = [sel |-> l.sel, props |-> l.props, left |-> l.left, hosts |-> l.hosts]
    /\ l.sel \subseteq C /\ l.sel # {} /\ Covers(l.props, l.sel)
    /\ l.props.host \in Strings
    /\ l.left \in 1..TTL
    /\ l.hosts \in Seq(l.sel) /\ Len(l.hosts) \in 1..MaxLog
    /\ Rotates(l)
    /\ SharedInfo(l, c, infos)

(* No two clusters share an info.                                          *)
InfosApart(c) ==
    \A C \in Clusters, g, h \in Hosts :
        g \in C /\ c[g] # NoEntry /\ c[h] # NoEntry /\ c[g].value = c[h].value
        => h \in C

InfosOK(infos) == infos \in [Ids -> Infos] /\ \A d \in Ids : InfoOK(infos[d])

LogsOK(logs, c, infos) ==
    /\ logs = [C \in Clusters |-> logs[C]]
    /\ \A C \in Clusters : logs[C] = NoLog \/ LogOK(C, logs[C], c, infos)

RotationInv ==
    /\ cache \in Caches
    /\ InfosOK(info)
    /\ InfosApart(cache)
    /\ LogsOK(log, cache, info)

LEMMA NoLogRotates == Rotates(NoLog) /\ NoLog.left = 0 /\ NoLog.sel = {}
<1>1. NoLog.hosts = <<>> /\ NoLog.left = 0 /\ NoLog.sel = {}
  BY DEF NoLog
<1>2. DOMAIN NoLog.hosts = {}
  BY <1>1
<1> QED
  BY <1>1, <1>2 DEF Rotates

LEMMA RotationInvSuffices == RotationInv => TypeOK /\ WeightedRotation
<1> SUFFICES ASSUME RotationInv PROVE TypeOK /\ WeightedRotation
  OBVIOUS
<1>1. ASSUME NEW C \in Clusters PROVE log[C].left \in 0..TTL /\ Rotates(log[C])
  <2>1. log[C] = NoLog \/ LogOK(C, log[C], cache, info)
    BY DEF RotationInv, LogsOK
  <2>2. CASE log[C] = NoLog
    BY <2>2, NoLogRotates, ConstantFacts
  <2>3. CASE LogOK(C, log[C], cache, info)
    BY <2>3, ConstantFacts DEF LogOK
  <2> QED
    BY <2>1, <2>2, <2>3
<1> QED
  BY <1>1 DEF RotationInv, InfosOK, TypeOK, WeightedRotation

LEMMA EmptyOK ==
    /\ EmptyCache \in Caches /\ InfosApart(EmptyCache)
    /\ InfosOK([d \in Ids |-> NewInfo])
    /\ \A c, infos : LogsOK([C \in Clusters |-> NoLog], c, infos)
<1>1. InfosApart(EmptyCache)
  BY ConstantFacts DEF InfosApart, EmptyCache
<1>2. InfosOK([d \in Ids |-> NewInfo])
  BY InitialTypes, NewInfoOK DEF InfosOK
<1>3. \A c, infos : LogsOK([C \in Clusters |-> NoLog], c, infos)
  BY DEF LogsOK
<1> QED
  BY <1>1, <1>2, <1>3, InitialTypes

LEMMA InitRotation == Init => RotationInv
BY EmptyOK DEF Init, RotationInv

-----------------------------------------------------------------------------
(* A call.                                                                 *)

(* The cached info of a call is in the cache, a new one is not; after the  *)
(* look at the cache the info belongs to no other cluster than the call's. *)
LEMMA CallInfo ==
    ASSUME RotationInv, NEW call \in Calls, call.sel # {}
    PROVE  LET S == call.sel
               id == ClusterId(S)
           IN /\ id \in Ids
              /\ Cached(S) # {} => \E g \in S : cache[g] # NoEntry /\ cache[g].value = id
              /\ Cached(S) # {} => CachedId(S) = id
              /\ \A h \in Hosts :
                    Looked(S)[h] # NoEntry => /\ cache[h] # NoEntry
                                              /\ Looked(S)[h].value = cache[h].value
              /\ \A h \in Hosts :
                    Looked(S)[h] # NoEntry /\ Looked(S)[h].value = id
                    => h \in ClusterOf(S)
<1> DEFINE S == call.sel
           id == ClusterId(S)
           C0 == ClusterOf(S)
<1>1. S \in SUBSET Hosts /\ C0 \in Clusters /\ S \subseteq C0
  BY CallFacts
<1>2. cache \in Caches /\ InfosApart(cache)
  BY DEF RotationInv
<1>3. /\ Looked(S) \in Caches
      /\ \A h \in Hosts : Live(AfterSize(cache), h) <=> Live(cache, h)
      /\ \A h \in Hosts :
            Looked(S)[h] # NoEntry => /\ cache[h] # NoEntry
                                      /\ Looked(S)[h].value = cache[h].value
  <2>1. /\ Looked(S) \in Caches
        /\ \A h \in Hosts : Live(AfterSize(cache), h) <=> Live(cache, h)
    BY <1>1, <1>2, LookedFacts
  <2>2. ASSUME NEW h \in Hosts, Looked(S)[h] # NoEntry
        PROVE  cache[h] # NoEntry /\ Looked(S)[h].value = cache[h].value
    <3>1. \/ Live(cache, h) /\ Looked(S)[h] = [value |-> cache[h].value, left |-> TTL]
          \/ Looked(S)[h] = cache[h]
      BY <1>1, <1>2, <2>2, LookedFacts
    <3> QED
      BY <2>2, <3>1 DEF Live
  <2> QED
    BY <2>1, <2>2
<1> HIDE DEF S, C0
<1>4. CASE Cached(S) = {}
  <2>1. id = FreeId(S)
    BY <1>4 DEF ClusterId
  <2>2. id \in Ids /\ id \notin Referenced(Looked(S))
    BY <1>3, <2>1, FreeInfo DEF FreeId
  <2>3. \A h \in Hosts : Looked(S)[h] # NoEntry => Looked(S)[h].value # id
    BY <2>2 DEF Referenced
  <2> QED
    BY <1>3, <1>4, <2>2, <2>3 DEF S, C0
<1>5. CASE Cached(S) # {}
  <2> DEFINE g == LowestOf(Cached(S))
  <2>1. Cached(S) \in SUBSET Nat
    BY <1>1, ConstantFacts DEF Cached
  <2>2. g \in Cached(S)
    BY <1>5, <2>1, LowestExists
  <2>3. g \in S /\ g \in Hosts /\ cache[g] # NoEntry
    BY <1>1, <1>3, <2>2 DEF Cached, Live
  <2>4. id = CachedId(S) /\ id = cache[g].value
    BY <1>5 DEF ClusterId, CachedId
  <2>5. id \in Ids
    <3>1. cache[g] \in Entries
      BY <1>2, <2>3, ConstantFacts DEF Caches
    <3> HIDE DEF g, id
    <3> QED
      BY <2>4, <3>1, ConstantFacts DEF Entries
  <2> HIDE DEF g, id
  <2>6. ASSUME NEW h \in Hosts, Looked(S)[h] # NoEntry, Looked(S)[h].value = id
        PROVE  h \in C0
    <3>1. cache[h] # NoEntry /\ cache[h].value = cache[g].value
      BY <1>3, <2>4, <2>6
    <3> QED
      BY <1>1, <1>2, <2>3, <3>1 DEF InfosApart
  <2> QED
    BY <1>3, <1>5, <2>3, <2>4, <2>5, <2>6 DEF S, C0, id
<1> QED
  BY <1>4, <1>5

(* What the call makes of the info.                                        *)
LEMMA PreparedFacts ==
    ASSUME RotationInv, NEW call \in Calls, call.sel # {}
    PROVE  LET step == Prepared(call.sel, call.props)
           IN /\ InfoOK(step.info)
              /\ step.ok /\ Covers(call.props, call.sel)
                 => step.info.last_host_weight_str = call.props.host
              /\ Cached(call.sel) # {}
                   /\ info[CachedId(call.sel)].last_host_weight_str = call.props.host
                 => SamePlace(step.info, info[CachedId(call.sel)])
<1>1. CASE Cached(call.sel) = {}
  <2>1. Prepared(call.sel, call.props) = UpdateProps(NewInfo, call.props)
    BY <1>1 DEF Prepared
  <2> QED
    BY <1>1, <2>1, UpdatePropsKeeps
<1>2. CASE Cached(call.sel) # {}
  <2>1. Prepared(call.sel, call.props)
           = UpdateChangedProps(info[CachedId(call.sel)], call.props)
    BY <1>2 DEF Prepared
  <2>2. InfoOK(info[CachedId(call.sel)])
    BY <1>2, CallInfo DEF RotationInv, InfosOK
  <2> QED
    BY <1>2, <2>1, <2>2, ChangedPropsKeep
<1> QED
  BY <1>1, <1>2

LEMMA CollectedFacts ==
    ASSUME NEW c, NEW infos, InfosOK(infos)
    PROVE  /\ InfosOK(Collected(c, infos))
           /\ \A h \in Hosts : c[h] # NoEntry /\ c[h].value \in Ids
                 => Collected(c, infos)[c[h].value] = infos[c[h].value]
<1>1. InfosOK(Collected(c, infos))
  BY NewInfoOK, InitialTypes DEF InfosOK, Collected
<1>2. \A h \in Hosts : c[h] # NoEntry => c[h].value \in Referenced(c)
  BY DEF Referenced
<1> QED
  BY <1>1, <1>2 DEF Collected

LEMMA InfoReplaced ==
    ASSUME NEW infos, InfosOK(infos), NEW d \in Ids, NEW i, InfoOK(i)
    PROVE  /\ InfosOK([infos EXCEPT ![d] = i])
           /\ \A e \in Ids : [infos EXCEPT ![d] = i][e] = IF e = d THEN i ELSE infos[e]
BY DEF InfosOK, InfoOK

(* A call for one cluster leaves the logs of the others as they are.       *)
LEMMA OtherLogKept ==
    ASSUME NEW C \in Clusters, NEW l, NEW c \in Caches, NEW infos, LogOK(C, l, c, infos),
           NEW d, NEW dinfos,
           \A h \in C : c[h] # NoEntry /\ c[h].left > 0 => d[h] = c[h],
           \A h \in C : d[h] # NoEntry /\ d[h].value \in Ids
                        => dinfos[d[h].value] = infos[d[h].value]
    PROVE  LogOK(C, l, d, dinfos)
<1>1. PICK id \in Ids :
         /\ \A h \in l.sel : c[h] # NoEntry /\ c[h].value = id /\ c[h].left >= l.left
         /\ Continues(infos[id], l)
  BY DEF LogOK, SharedInfo
<1>2. l.left \in Nat /\ l.left >= 1
  BY ConstantFacts DEF LogOK
<1>3. l.sel \subseteq C /\ l.sel \subseteq Hosts
  BY ConstantFacts DEF LogOK
<1>4. PICK g : g \in l.sel
  BY DEF LogOK
<1>5. ASSUME NEW h \in l.sel PROVE c[h].left > 0
  <2>1. c[h] \in Entries
    BY <1>1, <1>3, ConstantFacts DEF Caches
  <2>2. c[h].left \in Int
    BY <2>1 DEF Entries
  <2> QED
    BY <1>1, <1>2, <2>2
<1>6. \A h \in l.sel : d[h] = c[h]
  BY <1>1, <1>3, <1>5
<1>7. dinfos[id] = infos[id]
  BY <1>1, <1>3, <1>4, <1>6
<1>8. SharedInfo(l, d, dinfos)
  BY <1>1, <1>6, <1>7 DEF SharedInfo
<1> QED
  BY <1>8 DEF LogOK

(* The log of a call that returns goes on or begins.                       *)
LEMMA NextLog ==
    ASSUME NEW i, InfoOK(i), NEW S \in SUBSET Hosts, S # {}, NEW props, Covers(props, S),
           i.last_host_weight_str = props.host, NEW previous,
           previous.sel = S /\ previous.props = props =>
              /\ previous.hosts \in Seq(S) /\ Len(previous.hosts) \in 1..MaxLog
              /\ Rotates(previous) /\ Continues(i, previous)
    PROVE  LET l == LogOf(S, props, TargetHost(i, S), previous)
           IN /\ l.sel = S /\ l.props = props /\ l.left = TTL
              /\ l.hosts \in Seq(S) /\ Len(l.hosts) \in 1..MaxLog
              /\ Rotates(l) /\ Continues(Served(i, S), l)
<1> DEFINE h == TargetHost(i, S)
           l == LogOf(S, props, h, previous)
           j == Served(i, S)
<1>1. h \in S
  BY TargetFacts
<1>2. MaxLog \in Nat \ {0}
  BY ConstantFacts
<1>3. l.sel = S /\ l.props = props /\ l.left = TTL
      /\ l.hosts = IF previous.sel = S /\ previous.props = props
                   THEN Latest(MaxLog, Append(previous.hosts, h))
                   ELSE <<h>>
  BY DEF LogOf
<1>4. CASE ~(previous.sel = S /\ previous.props = props)
  <2>1. l.hosts = <<h>>
    BY <1>3, <1>4
  <2>2. Rotates(l) /\ Continues(j, l)
    <3> HIDE DEF l
    <3> QED
      BY <1>3, <2>1, FirstResult
  <2>3. l.hosts \in Seq(S) /\ Len(l.hosts) \in 1..MaxLog
    <3> HIDE DEF l, h
    <3> QED
      BY <1>1, <1>2, <2>1
  <2> QED
    BY <1>3, <2>2, <2>3
<1>5. CASE previous.sel = S /\ previous.props = props
  <2> DEFINE longer == Append(previous.hosts, h)
             k == [sel |-> S, props |-> props, hosts |-> longer]
  <2>1. /\ previous.hosts \in Seq(S) /\ Len(previous.hosts) \in 1..MaxLog
        /\ Rotates(previous) /\ Continues(i, previous)
    BY <1>5
  <2>2. Rotates(k) /\ Continues(j, k)
    <3>1. k.sel = previous.sel /\ k.props = previous.props
          /\ k.hosts = Append(previous.hosts, TargetHost(i, previous.sel))
      BY <1>5
    <3>2. previous.hosts # <<>> /\ previous.hosts \in Seq(previous.sel)
      BY <1>5, <2>1
    <3> HIDE DEF k
    <3>3. Rotates(k) /\ Continues(Served(i, previous.sel), k)
      BY <1>5, <2>1, <3>1, <3>2, NextResult
    <3> QED
      BY <1>5, <3>3
  <2>3. longer \in Seq(S) /\ Len(longer) = Len(previous.hosts) + 1
    <3> HIDE DEF h
    <3> QED
      BY <1>1, <2>1
  <2>4. l.hosts = IF Len(longer) > MaxLog
                  THEN SubSeq(longer, Len(longer) - MaxLog + 1, Len(longer))
                  ELSE longer
    <3> HIDE DEF l, longer
    <3> QED
      BY <1>3, <1>5 DEF Latest, longer
  <2>5. k.sel = l.sel /\ k.props = l.props /\ k.hosts = longer
    BY <1>3
  <2> HIDE DEF h, l, j, k, longer
  <2>6. CASE Len(longer) <= MaxLog
    <3>1. l.hosts = longer /\ Len(l.hosts) \in 1..MaxLog
      BY <1>2, <2>1, <2>3, <2>4, <2>6
    <3>2. Rotates(l) /\ Continues(j, l)
      BY <2>2, <2>5, <3>1 DEF Rotates, Continues
    <3> QED
      BY <1>3, <2>3, <3>1, <3>2 DEF h, l, j
  <2>7. CASE Len(longer) > MaxLog
    <3>1. Len(longer) = MaxLog + 1 /\ Len(longer) > 1 /\ Len(longer) - MaxLog + 1 = 2
      BY <1>2, <2>1, <2>3, <2>7
    <3>2. l.hosts = SubSeq(longer, 2, Len(longer))
      BY <2>4, <2>7, <3>1
    <3>3. l.hosts \in Seq(S) /\ Len(l.hosts) = MaxLog
      <4>1. \A n \in 1..Len(longer) : longer[n] \in S
        BY <2>3
      <4> QED
        BY <1>2, <2>3, <3>1, <3>2, <4>1
    <3>4. InfoOK(j)
      BY ServedFacts DEF j
    <3>5. j.weigth_counter \in Nat /\ j.last_host_weight_str = props.host
      BY <3>4, ServedFacts DEF InfoOK, Infos, j
    <3>6. \A x \in S : WeightOf(k.props, x) \in Nat
      BY <1>3, <2>5, CoveredWeights
    <3>7. Rotates(l) /\ Continues(j, l)
      BY <2>2, <2>3, <2>5, <3>1, <3>2, <3>5, <3>6, OldestForgotten
    <3> QED
      BY <1>2, <1>3, <3>3, <3>7 DEF h, l, j
  <2> QED
    BY <1>2, <2>1, <2>3, <2>6, <2>7
<1> QED
  BY <1>4, <1>5

LEMMA SamePlaceContinues ==
    ASSUME NEW i, NEW j, NEW l, SamePlace(i, j), Continues(j, l)
    PROVE  Continues(i, l)
BY DEF SamePlace, Continues

(* If the log of a cluster is about the hosts of the call and its          *)
(* properties, the info of the call continues it.                          *)
LEMMA CallContinuesLog ==
    ASSUME RotationInv, NEW call \in Calls, call.sel # {}, NEW C \in Clusters,
           log[C].sel = call.sel, log[C].props = call.props
    PROVE  /\ LogOK(C, log[C], cache, info)
           /\ Continues(Prepared(call.sel, call.props).info, log[C])
<1> DEFINE S == call.sel
           l == log[C]
<1>1. l # NoLog
  BY NoLogRotates
<1>2. LogOK(C, l, cache, info)
  BY <1>1 DEF RotationInv, LogsOK
<1>3. PICK id \in Ids :
         /\ \A h \in S : cache[h] # NoEntry /\ cache[h].value = id /\ cache[h].left >= l.left
         /\ Continues(info[id], l)
  BY <1>2 DEF LogOK, SharedInfo
<1>4. S \in SUBSET Hosts /\ cache \in Caches /\ l.left \in Nat /\ l.left >= 1
  BY <1>2, CallFacts, ConstantFacts DEF RotationInv, LogOK
<1>5. ASSUME NEW h \in S PROVE Live(AfterSize(cache), h)
  <2>1. cache[h] \in Entries
    BY <1>3, <1>4, ConstantFacts DEF Caches
  <2>2. cache[h].left \in Int /\ cache[h].left >= l.left
    BY <1>3, <2>1 DEF Entries
  <2>3. Live(cache, h)
    BY <1>3, <1>4, <2>2 DEF Live
  <2> QED
    BY <1>4, <2>3, LookedFacts
<1>6. Cached(S) = S
  BY <1>5 DEF Cached
<1>7. LowestOf(S) \in S
  BY <1>4, ConstantFacts, LowestExists
<1>8. CachedId(S) = id
  BY <1>3, <1>6, <1>7 DEF CachedId
<1>9. info[CachedId(S)].last_host_weight_str = call.props.host
  BY <1>3, <1>8 DEF Continues
<1>10. SamePlace(Prepared(S, call.props).info, info[id])
  BY <1>6, <1>8, <1>9, PreparedFacts
<1>11. Continues(Prepared(S, call.props).info, l)
  <2> HIDE DEF l
  <2> QED
    BY <1>3, <1>10, SamePlaceContinues
<1> QED
  BY <1>2, <1>11

(* The cache after a call: what it looked at, and what update_cache put.   *)
LEMMA CallKeepsOthers ==
    ASSUME RotationInv, NEW call \in Calls, call.sel # {}, NEW d \in Caches,
           d \in {Looked(call.sel), UpdateCache(Looked(call.sel), call.sel,
                                                ClusterId(call.sel))}
    PROVE  /\ InfosApart(d)
           /\ \A C \in Clusters : C # ClusterOf(call.sel) =>
                 \A h \in C : /\ cache[h] # NoEntry /\ cache[h].left > 0 => d[h] = cache[h]
                              /\ d[h] # NoEntry => /\ d[h].value \in Ids
                                                   /\ d[h].value # ClusterId(call.sel)
<1> DEFINE S == call.sel
           C0 == ClusterOf(S)
           id == ClusterId(S)
<1>1. S \in SUBSET Hosts /\ C0 \in Clusters /\ S \subseteq C0
  BY CallFacts
<1>2. /\ id \in Ids
      /\ Cached(S) # {} => \E g \in S : cache[g] # NoEntry /\ cache[g].value = id
      /\ \A h \in Hosts : Looked(S)[h] # NoEntry => /\ cache[h] # NoEntry
                                                    /\ Looked(S)[h].value = cache[h].value
      /\ \A h \in Hosts : Looked(S)[h] # NoEntry /\ Looked(S)[h].value = id => h \in C0
  BY CallInfo
<1>3. cache \in Caches /\ InfosApart(cache)
  BY DEF RotationInv
<1>4. /\ Looked(S) \in Caches
      /\ \A h \in Hosts \ S : Looked(S)[h] = IF Expired(cache, h) THEN NoEntry ELSE cache[h]
  BY <1>1, <1>3, LookedFacts
<1>5. ASSUME NEW h \in Hosts
      PROVE  \/ h \in S /\ d[h] = [value |-> id, left |-> TTL]
             \/ d[h] = Looked(S)[h]
  <2>1. UpdateCache(Looked(S), S, id)[h]
           = IF h \in S THEN [value |-> id, left |-> TTL] ELSE Looked(S)[h]
    BY <1>1, <1>2, <1>4, UpdateCacheFacts
  <2> QED
    BY <2>1
<1>6. ASSUME NEW C \in Clusters, NEW g \in Hosts, NEW h \in Hosts, g \in C,
             Looked(S)[g] # NoEntry, Looked(S)[h] # NoEntry,
             Looked(S)[g].value = Looked(S)[h].value
      PROVE  h \in C
  BY <1>2, <1>3, <1>6 DEF InfosApart
<1> HIDE DEF S, C0, id
<1>7. ASSUME NEW h \in Hosts, d[h] # NoEntry, d[h].value = id PROVE h \in C0
  BY <1>1, <1>2, <1>5, <1>7
<1>8. \A C \in Clusters : C # C0 => C \cap C0 = {}
  BY <1>1, ConstantFacts
<1>9. InfosApart(d)
  <2> SUFFICES ASSUME NEW C \in Clusters, NEW g \in Hosts, NEW h \in Hosts, g \in C,
                      d[g] # NoEntry, d[h] # NoEntry, d[g].value = d[h].value
               PROVE  h \in C
    BY DEF InfosApart
  <2>1. CASE d[g].value = id
    <3>1. g \in C0 /\ h \in C0
      BY <1>7, <2>1
    <3> QED
      BY <1>8, <3>1
  <2>2. CASE d[g].value # id
    <3>1. d[g] = Looked(S)[g] /\ d[h] = Looked(S)[h]
      BY <1>5, <2>2
    <3> QED
      BY <1>6, <3>1
  <2> QED
    BY <2>1, <2>2
<1>10. ASSUME NEW C \in Clusters, C # C0, NEW h \in C
       PROVE  /\ cache[h] # NoEntry /\ cache[h].left > 0 => d[h] = cache[h]
              /\ d[h] # NoEntry => d[h].value \in Ids /\ d[h].value # id
  <2>1. h \in Hosts /\ h \notin C0 /\ h \notin S
    BY <1>1, <1>8, <1>10, ConstantFacts
  <2>2. d[h] = IF Expired(cache, h) THEN NoEntry ELSE cache[h]
    BY <1>4, <1>5, <2>1
  <2>3. cache[h] # NoEntry => cache[h].left \in Int
    BY <1>3, <2>1, ConstantFacts DEF Caches, Entries
  <2>4. d[h] # NoEntry => d[h].value \in Ids /\ d[h].value # id
    <3>1. d[h] # NoEntry => d[h] \in Entries
      BY <2>1, ConstantFacts DEF Caches
    <3> QED
      BY <1>7, <2>1, <3>1, ConstantFacts DEF Entries
  <2>5. cache[h] # NoEntry /\ cache[h].left > 0 => ~Expired(cache, h)
    BY <2>3 DEF Expired
  <2> QED
    BY <2>2, <2>4, <2>5
<1> QED
  BY <1>9, <1>10 DEF S, C0, id

LEMMA ReturnsKeeps ==
    ASSUME RotationInv, NEW call \in Calls, GetHostReturns(call.sel, call.props)
    PROVE  RotationInv'
<1> DEFINE S == call.sel
           C0 == ClusterOf(S)
           id == ClusterId(S)
           step == Prepared(S, call.props)
           served == Served(step.info, S)
           infos == [info EXCEPT ![id] = served]
           h0 == TargetHost(step.info, S)
           l0 == LogOf(S, call.props, h0, log[C0])
<1>1. /\ S # {} /\ step.ok
      /\ cache' = UpdateCache(Looked(S), S, id)
      /\ info' = Collected(cache', infos)
      /\ log' = [log EXCEPT ![C0] = l0]
  BY DEF GetHostReturns
<1>2. S \in SUBSET Hosts /\ C0 \in Clusters /\ S \subseteq C0 /\ id \in Ids
  BY <1>1, CallFacts, CallInfo
<1>3. /\ cache \in Caches /\ InfosOK(info)
      /\ log = [C \in Clusters |-> log[C]]
      /\ \A C \in Clusters : log[C] = NoLog \/ LogOK(C, log[C], cache, info)
  BY DEF RotationInv, LogsOK
<1>4. InfoOK(step.info) /\ InfoOK(served)
  <2>1. InfoOK(step.info)
    BY <1>1, PreparedFacts
  <2> HIDE DEF step
  <2> QED
    BY <1>1, <1>2, <2>1, ServedFacts
<1>5. InfosOK(infos) /\ \A d \in Ids : infos[d] = IF d = id THEN served ELSE info[d]
  <2> HIDE DEF id, served
  <2> QED
    BY <1>2, <1>3, <1>4, InfoReplaced
<1>6. /\ cache' \in Caches
      /\ \A h \in S : cache'[h] = [value |-> id, left |-> TTL]
  <2>1. Looked(S) \in Caches
    BY <1>2, <1>3, LookedFacts
  <2> HIDE DEF id
  <2> QED
    BY <1>1, <1>2, <2>1, UpdateCacheFacts
<1>7. /\ InfosApart(cache')
      /\ \A C \in Clusters : C # C0 =>
            \A h \in C : /\ cache[h] # NoEntry /\ cache[h].left > 0 => cache'[h] = cache[h]
                         /\ cache'[h] # NoEntry => cache'[h].value \in Ids
                                                   /\ cache'[h].value # id
  BY <1>1, <1>6, CallKeepsOthers
<1>8. /\ InfosOK(info')
      /\ \A h \in Hosts : cache'[h] # NoEntry /\ cache'[h].value \in Ids
            => info'[cache'[h].value] = infos[cache'[h].value]
  <2> HIDE DEF infos
  <2> QED
    BY <1>1, <1>5, CollectedFacts
<1>9. ASSUME Covers(call.props, S) PROVE LogOK(C0, l0, cache', info')
  <2>1. step.info.last_host_weight_str = call.props.host
    BY <1>1, <1>9, PreparedFacts
  <2>2. log[C0].sel = S /\ log[C0].props = call.props =>
           /\ log[C0].hosts \in Seq(S) /\ Len(log[C0].hosts) \in 1..MaxLog
           /\ Rotates(log[C0]) /\ Continues(step.info, log[C0])
    BY <1>1, <1>2, CallContinuesLog DEF LogOK
  <2>3. /\ l0.sel = S /\ l0.props = call.props /\ l0.left = TTL
        /\ l0.hosts \in Seq(S) /\ Len(l0.hosts) \in 1..MaxLog
        /\ Rotates(l0) /\ Continues(served, l0)
    <3> HIDE DEF step, S, C0
    <3> QED
      BY <1>1, <1>2, <1>4, <1>9, <2>1, <2>2, NextLog
  <2>4. info'[id] = served
    <3>1. PICK h : h \in S
      BY <1>1
    <3>2. cache'[h].value = id /\ cache'[h] # NoEntry
      <4>1. [value |-> id, left |-> TTL] \in Entries
        BY <1>2, ConstantFacts DEF Entries
      <4> HIDE DEF id
      <4> QED
        BY <1>6, <3>1, <4>1, ConstantFacts
    <3> HIDE DEF id, served, infos
    <3> QED
      BY <1>2, <1>5, <1>8, <3>1, <3>2
  <2>5. SharedInfo(l0, cache', info')
    <3>1. ASSUME NEW h \in S
          PROVE  cache'[h] # NoEntry /\ cache'[h].value = id /\ cache'[h].left >= TTL
      <4>1. [value |-> id, left |-> TTL] \in Entries
        BY <1>2, ConstantFacts DEF Entries
      <4> HIDE DEF id
      <4> QED
        BY <1>6, <4>1, ConstantFacts
    <3> HIDE DEF id, served, l0, S
    <3> QED
      BY <1>2, <2>3, <2>4, <3>1 DEF SharedInfo
  <2>6. call.props.host \in Strings
    BY <1>9, CallFacts DEF Covers, Strings
  <2>7. l0 = [sel |-> l0.sel, props |-> l0.props, left |-> l0.left, hosts |-> l0.hosts]
    BY <1>9 DEF LogOf
  <2> HIDE DEF l0, S, C0
  <2> QED
    BY <1>1, <1>2, <1>9, <2>3, <2>5, <2>6, <2>7, ConstantFacts DEF LogOK
<1>10. LogsOK(log', cache', info')
  <2> SUFFICES ASSUME NEW C \in Clusters
               PROVE  log'[C] = NoLog \/ LogOK(C, log'[C], cache', info')
    BY <1>1, <1>3 DEF LogsOK
  <2>1. CASE C = C0
    <3>1. log'[C] = l0
      <4> HIDE DEF l0, C0
      <4> QED
        BY <1>1, <1>3, <2>1
    <3>2. ~Covers(call.props, S) => l0 = NoLog
      BY DEF LogOf
    <3> HIDE DEF l0
    <3> QED
      BY <1>9, <2>1, <3>1, <3>2
  <2>2. CASE C # C0
    <3>1. log'[C] = log[C]
      <4> HIDE DEF l0, C0
      <4> QED
        BY <1>1, <1>3, <2>2
    <3>2. \A h \in C : cache'[h] # NoEntry /\ cache'[h].value \in Ids
             => info'[cache'[h].value] = info[cache'[h].value]
      <4> HIDE DEF infos, served, id, C0
      <4> QED
        BY <1>5, <1>7, <1>8, <2>2, ConstantFacts
    <3> HIDE DEF C0, id
    <3>3. LogOK(C, log[C], cache, info) => LogOK(C, log[C], cache', info')
      BY <1>3, <1>7, <2>2, <3>2, OtherLogKept
    <3> QED
      BY <1>3, <3>1, <3>3
  <2> QED
    BY <2>1, <2>2
<1> QED
  BY <1>6, <1>7, <1>8, <1>10 DEF RotationInv

LEMMA ThrowsKeeps ==
    ASSUME RotationInv, NEW call \in Calls, GetHostThrows(call.sel, call.props)
    PROVE  RotationInv'
<1> DEFINE S == call.sel
           C0 == ClusterOf(S)
           id == ClusterId(S)
           step == Prepared(S, call.props)
           infos == IF Cached(S) = {} THEN info
                    ELSE [info EXCEPT ![CachedId(S)] = step.info]
<1>1. /\ S # {}
      /\ cache' = Looked(S)
      /\ info' = Collected(cache', infos)
      /\ log' = [log EXCEPT ![C0] = NoLog]
  BY DEF GetHostThrows
<1>2. S \in SUBSET Hosts /\ C0 \in Clusters /\ id \in Ids
      /\ (Cached(S) # {} => CachedId(S) = id)
  BY <1>1, CallFacts, CallInfo
<1>3. /\ cache \in Caches /\ InfosOK(info)
      /\ log = [C \in Clusters |-> log[C]]
      /\ \A C \in Clusters : log[C] = NoLog \/ LogOK(C, log[C], cache, info)
  BY DEF RotationInv, LogsOK
<1>4. InfoOK(step.info)
  BY <1>1, PreparedFacts
<1>5. InfosOK(infos) /\ \A d \in Ids : d # id => infos[d] = info[d]
  <2>1. CASE Cached(S) = {}
    BY <1>3, <2>1
  <2>2. CASE Cached(S) # {}
    <3>1. infos = [info EXCEPT ![id] = step.info]
      BY <1>2, <2>2
    <3> HIDE DEF infos, id, step
    <3>2. /\ InfosOK([info EXCEPT ![id] = step.info])
          /\ \A d \in Ids : [info EXCEPT ![id] = step.info][d]
                              = IF d = id THEN step.info ELSE info[d]
      BY <1>2, <1>3, <1>4, InfoReplaced
    <3> QED
      BY <3>1, <3>2
  <2> QED
    BY <2>1, <2>2
<1>6. cache' \in Caches
  BY <1>1, <1>2, <1>3, LookedFacts
<1>7. /\ InfosApart(cache')
      /\ \A C \in Clusters : C # C0 =>
            \A h \in C : /\ cache[h] # NoEntry /\ cache[h].left > 0 => cache'[h] = cache[h]
                         /\ cache'[h] # NoEntry => cache'[h].value \in Ids
                                                   /\ cache'[h].value # id
  BY <1>1, <1>6, CallKeepsOthers
<1>8. /\ InfosOK(info')
      /\ \A h \in Hosts : cache'[h] # NoEntry /\ cache'[h].value \in Ids
            => info'[cache'[h].value] = infos[cache'[h].value]
  <2> HIDE DEF infos
  <2> QED
    BY <1>1, <1>5, CollectedFacts
<1>9. LogsOK(log', cache', info')
  <2> SUFFICES ASSUME NEW C \in Clusters
               PROVE  log'[C] = NoLog \/ LogOK(C, log'[C], cache', info')
    BY <1>1, <1>3 DEF LogsOK
  <2>1. CASE C = C0
    <3> HIDE DEF C0
    <3> QED
      BY <1>1, <1>3, <2>1
  <2>2. CASE C # C0
    <3>1. log'[C] = log[C]
      <4> HIDE DEF C0
      <4> QED
        BY <1>1, <1>3, <2>2
    <3>2. \A h \in C : cache'[h] # NoEntry /\ cache'[h].value \in Ids
             => info'[cache'[h].value] = info[cache'[h].value]
      <4> HIDE DEF infos, id, C0
      <4> QED
        BY <1>5, <1>7, <1>8, <2>2, ConstantFacts
    <3> HIDE DEF C0, id
    <3>3. LogOK(C, log[C], cache, info) => LogOK(C, log[C], cache', info')
      BY <1>3, <1>7, <2>2, <3>2, OtherLogKept
    <3> QED
      BY <1>3, <3>1, <3>3
  <2> QED
    BY <2>1, <2>2
<1> QED
  BY <1>6, <1>7, <1>8, <1>9 DEF RotationInv

LEMMA TimeKeeps == ASSUME RotationInv, TimePasses PROVE RotationInv'
<1>1. /\ cache' = Tick(cache) /\ info' = info
      /\ log' = [C \in Clusters |-> IF log[C].left <= 1 THEN NoLog
                                    ELSE [log[C] EXCEPT !.left = @ - 1]]
  BY DEF TimePasses
<1>2. /\ cache \in Caches /\ InfosOK(info) /\ InfosApart(cache)
      /\ \A C \in Clusters : log[C] = NoLog \/ LogOK(C, log[C], cache, info)
  BY DEF RotationInv, LogsOK
<1>3. /\ cache' \in Caches
      /\ \A h \in Hosts : /\ cache'[h] = NoEntry <=> cache[h] = NoEntry
                          /\ cache[h] # NoEntry =>
                                /\ cache'[h].value = cache[h].value
                                /\ cache[h].left >= 0 => cache'[h].left = cache[h].left - 1
  BY <1>1, <1>2, TickFacts
<1>4. InfosApart(cache')
  BY <1>2, <1>3 DEF InfosApart
<1>5. ASSUME NEW C \in Clusters
      PROVE  log'[C] = NoLog \/ LogOK(C, log'[C], cache', info')
  <2> DEFINE l == log[C]
             k == [l EXCEPT !.left = l.left - 1]
  <2>1. CASE l.left <= 1
    BY <1>1, <2>1
  <2>2. CASE ~(l.left <= 1)
    <3>1. log'[C] = k
      BY <1>1, <2>2
    <3>2. LogOK(C, l, cache, info)
      BY <1>2, <2>2, NoLogRotates
    <3> SUFFICES LogOK(C, k, cache', info')
      BY <3>1
    <3>3. l.left \in 1..TTL /\ l.left > 1
      BY <2>2, <3>2, ConstantFacts DEF LogOK
    <3>5. k = [sel |-> l.sel, props |-> l.props, left |-> l.left - 1, hosts |-> l.hosts]
      <4>1. l = [sel |-> l.sel, props |-> l.props, left |-> l.left, hosts |-> l.hosts]
        BY <3>2 DEF LogOK
      <4> HIDE DEF l
      <4> QED
        BY <4>1
    <3> HIDE DEF k, l
    <3>6. k.left = l.left - 1 /\ k.left \in 1..TTL
          /\ k = [sel |-> k.sel, props |-> k.props, left |-> k.left, hosts |-> k.hosts]
      BY <3>3, <3>5, ConstantFacts
    <3>7. PICK id \in Ids :
             /\ \A h \in l.sel : /\ cache[h] # NoEntry /\ cache[h].value = id
                                 /\ cache[h].left >= l.left
             /\ Continues(info[id], l)
      BY <3>2 DEF LogOK, SharedInfo
    <3>8. ASSUME NEW h \in k.sel
          PROVE  cache'[h] # NoEntry /\ cache'[h].value = id /\ cache'[h].left >= k.left
      <4>1. h \in Hosts /\ h \in l.sel
        BY <3>2, <3>5, ConstantFacts DEF LogOK
      <4>2. cache[h].left \in Int
        BY <1>2, <3>7, <4>1, ConstantFacts DEF Caches, Entries
      <4>3. cache[h].left >= 0 /\ cache[h].left - 1 >= k.left
        BY <3>3, <3>6, <3>7, <4>1, <4>2
      <4> QED
        BY <1>3, <3>7, <4>1, <4>3
    <3>9. Continues(info'[id], k)
      BY <1>1, <3>5, <3>7 DEF Continues
    <3>10. SharedInfo(k, cache', info')
      BY <3>8, <3>9 DEF SharedInfo
    <3>11. Rotates(k)
      BY <3>2, <3>5 DEF LogOK, Rotates
    <3> QED
      BY <3>2, <3>5, <3>6, <3>10, <3>11 DEF LogOK
  <2> QED
    BY <2>1, <2>2
<1> QED
  BY <1>1, <1>2, <1>3, <1>4, <1>5 DEF RotationInv, LogsOK

LEMMA StepRotation == RotationInv /\ [Next]_vars => RotationInv'
<1> SUFFICES ASSUME RotationInv, [Next]_vars PROVE RotationInv'
  OBVIOUS
<1>1. ASSUME NEW call \in Calls, GetHost(call.sel, call.props) PROVE RotationInv'
  BY <1>1, ReturnsKeeps, ThrowsKeeps DEF GetHost
<1>2. CASE ClearCache
  <2>1. /\ cache' = EmptyCache /\ info' = [d \in Ids |-> NewInfo]
        /\ log' = [C \in Clusters |-> NoLog]
    BY <1>2 DEF ClearCache, Clear
  <2> QED
    BY <2>1, EmptyOK DEF RotationInv
<1>3. CASE TimePasses
  BY <1>3, TimeKeeps
<1>4. CASE UNCHANGED vars
  BY <1>4 DEF RotationInv, vars
<1> QED
  BY <1>1, <1>2, <1>3, <1>4 DEF Next

-----------------------------------------------------------------------------
(* The results.                                                            *)

LEMMA RotationInvariant == Spec => []RotationInv
<1> QED
  BY InitRotation, StepRotation, PTL DEF Spec

(* The infos keep their types whatever the properties hold: weights are    *)
(* numbers, a default weight is positive, and the counter of a turn never  *)
(* runs below zero.                                                        *)
THEOREM CounterStaysNatural == Spec => []TypeOK
BY RotationInvariant, RotationInvSuffices, PTL

(* Weighted round robin, for any clusters, weights and calls: each host    *)
(* that is available gets a turn of the length of its weight, in the order *)
(* of the names, although infos are shared, replaced, expire and keep what *)
(* was entered by calls that threw.                                        *)
THEOREM RotatesByWeight == Spec => []WeightedRotation
BY RotationInvariant, RotationInvSuffices, PTL

LEMMA CallPurges ==
    ASSUME RotationInv, NEW call \in Calls, GetHost(call.sel, call.props)
    PROVE  \A h \in Hosts : ~Expired(cache', h)
<1> DEFINE S == call.sel
<1>1. S # {}
  BY DEF GetHost, GetHostReturns, GetHostThrows
<1>2. S \in SUBSET Hosts /\ ClusterId(S) \in Ids /\ cache \in Caches
  BY <1>1, CallFacts, CallInfo DEF RotationInv
<1>3. Looked(S) \in Caches
  BY <1>2, LookedFacts
<1>4. TTL \in Nat
  BY ConstantFacts
<1>5. ASSUME NEW h \in Hosts PROVE ~Expired(Looked(S), h)
  <2>1. \/ Looked(S)[h] = NoEntry
        \/ Looked(S)[h] = [value |-> cache[h].value, left |-> TTL]
        \/ ~Expired(cache, h) /\ Looked(S)[h] = cache[h]
    BY <1>2, LookedFacts
  <2> QED
    BY <1>4, <2>1 DEF Expired
<1>6. ASSUME NEW h \in Hosts, GetHostReturns(S, call.props) PROVE ~Expired(cache', h)
  <2>1. cache'[h] = IF h \in S THEN [value |-> ClusterId(S), left |-> TTL] ELSE Looked(S)[h]
    BY <1>2, <1>3, <1>6, UpdateCacheFacts DEF GetHostReturns
  <2> QED
    BY <1>4, <1>5, <2>1 DEF Expired
<1>7. ASSUME NEW h \in Hosts, GetHostThrows(S, call.props) PROVE ~Expired(cache', h)
  BY <1>5, <1>7 DEF GetHostThrows
<1> QED
  BY <1>6, <1>7 DEF GetHost

(* The cache does not grow for ever: every call, also one that throws,     *)
(* purges the entries of all clusters that expired before it.              *)
THEOREM ExpiredEntriesPurged == Spec => ExpiredEntriesRemoved
<1>1. RotationInv /\ [Next]_vars
         => [(\E call \in Calls : GetHost(call.sel, call.props))
                => \A h \in Hosts : ~Expired(cache', h)]_vars
  BY CallPurges
<1> QED
  BY <1>1, RotationInvariant, PTL DEF Spec, ExpiredEntriesRemoved
=============================================================================
