-------------------------- MODULE RulesReloadProofs --------------------------
(***************************************************************************)
(* Proofs about RulesReload, for any number of edits and any network: the  *)
(* rules in force only ever give way to later good ones, no edit is missed *)
(* by a resting watcher, and a resting watcher has left rulesBox filled.   *)
(* And about RuleMatching, for any rules, requests and capacity: a request *)
(* is decided by the rules of one version (OneVersionDecides), and a cache *)
(* keeps the addresses used last (LatestKept).                             *)
(***************************************************************************)
EXTENDS RuleMatching, SequenceTheorems, TLAPS

\* What is known of the file.
FileInv ==
    /\ good \subseteq 1..version
    /\ content = "good" => version \in good
    /\ lastMod <= version

\* What is in force was good, and is not newer than the file.
BoxInv ==
    /\ pc \in {"load", "store"} => box = Unset
    /\ pc \notin {"load", "store"} => box # Unset
    /\ box \in Version => box \in good

\* What the goroutine holds. A round looks the time up before it reads the
\* file, so that seen is never later than what was compiled.
RoundInv ==
    /\ pc = "store" /\ compiled \in Version => compiled \in good
    /\ pc \in {"reload", "swap"} => lastMod < seen /\ seen <= version
    /\ pc = "swap" =>
          /\ compiled \in good
          /\ seen <= compiled
          /\ box \in Version => box <= compiled

IndInv == TypeOK /\ FileInv /\ BoxInv /\ RoundInv /\ NothingMissed

USE DEF Version, Content, Starting, rulesFile

\* The invariant holds at the start.
LEMMA InitInv == Init => IndInv
  BY VersionsAssumption, BoxAssumption
  DEF Init, IndInv, TypeOK, FileInv, BoxInv, RoundInv, NothingMissed

\* Every step preserves the invariant.
LEMMA NextInv == IndInv /\ [Next]_vars => IndInv'
<1> SUFFICES ASSUME IndInv, [Next]_vars
             PROVE  IndInv'
  OBVIOUS
<1> USE VersionsAssumption, BoxAssumption
        DEF IndInv, TypeOK, FileInv, BoxInv, RoundInv, NothingMissed
<1>1. CASE Edit
  <2>1. version' \in Int /\ version' = version + 1 /\ version' <= MaxVersions
    BY <1>1 DEF Edit
  <2>2. good' \subseteq 1..version'
    BY <1>1, <2>1 DEF Edit
  <2>3. TypeOK' /\ FileInv'
    BY <1>1, <2>1, <2>2 DEF Edit
  <2>4. good \subseteq good'
    BY <1>1 DEF Edit
  <2>5. BoxInv' /\ RoundInv' /\ NothingMissed'
    BY <1>1, <2>1, <2>4 DEF Edit
  <2> QED BY <2>3, <2>5
<1>2. CASE Delete
  BY <1>2 DEF Delete
<1>3. CASE Load
  BY <1>3 DEF Load, MayFail
<1>4. CASE StoreFirst
  BY <1>4 DEF StoreFirst
<1>5. CASE FirstStat
  BY <1>5 DEF FirstStat
<1>6. CASE Stat
  BY <1>6 DEF Stat
<1>7. CASE Reload
  BY <1>7 DEF Reload
<1>8. CASE ReloadFails
  BY <1>8 DEF ReloadFails, MayFail
<1>9. CASE Swap
  BY <1>9 DEF Swap
<1>10. CASE UNCHANGED vars
  BY <1>10 DEF vars
<1> QED
  BY <1>1, <1>2, <1>3, <1>4, <1>5, <1>6, <1>7, <1>8, <1>9, <1>10
  DEF Next, Loader

\* The invariant holds throughout.
LEMMA Invariance == Spec => []IndInv
<1> QED
  BY InitInv, NextInv, PTL DEF Spec

\* The variables keep their shape.
THEOREM TypeCorrect == Spec => []TypeOK
<1>1. IndInv => TypeOK
  BY DEF IndInv
<1> QED
  BY <1>1, Invariance, PTL

\* An edit at any moment of a round, during a load of seconds or between the
\* look at the modification time and the read, is noticed in the next round
\* (watchRulesSource keeps the time it looked up before the load).
THEOREM NoEditMissed == Spec => []NothingMissed
<1>1. IndInv => NothingMissed
  BY DEF IndInv
<1> QED
  BY <1>1, Invariance, PTL

\* Rules in force give way only to later good ones: failed reloads keep them.
THEOREM RulesStay == Spec => GoodRulesStay
<1> DEFINE Stays == (box \in Version) => (box' \in good' /\ box' >= box)
<1>1. IndInv /\ [Next]_vars => [Stays]_vars
  <2> SUFFICES ASSUME IndInv, Next, box \in Version
               PROVE  box' \in good' /\ box' >= box
    OBVIOUS
  <2> USE BoxAssumption
          DEF IndInv, TypeOK, FileInv, BoxInv, RoundInv
  <2>1. CASE Edit
    BY <2>1 DEF Edit
  <2>2. CASE StoreFirst
    BY <2>2 DEF StoreFirst
  <2>3. CASE Swap
    BY <2>3 DEF Swap
  <2>4. CASE UNCHANGED <<box, good>>
    BY <2>4
  <2> QED
    BY <2>1, <2>2, <2>3, <2>4
    DEF Next, Loader, Delete, Load, FirstStat, Stat, Reload, ReloadFails
<1>2. Spec => [][Stays]_vars
  BY <1>1, Invariance, PTL DEF Spec
<1> QED
  BY <1>2 DEF GoodRulesStay

-----------------------------------------------------------------------------
(* Requests: what a handler holds at each place.                           *)

\* The shape of a request under way.
InHand == [at : {"rule", "get", "put", "decided"}, client : Client,
           box : Version \cup {Unset, NoRules}, matcher : Nat, rule : Nat \ {0},
           action : STRING \cup {"none", "default"},
           inForce : SUBSET (Version \cup {Unset, NoRules})]

\* The rules of a version, none of anything else.
RulesIn(v) == IF v \in Version THEN Rules[v] ELSE <<>>

\* No rule before this one applies.
PassedOver(r) ==
    \A j \in 1..r.rule - 1 :
        j <= Len(RulesIn(r.box)) => ~Applies(RulesIn(r.box)[j], r.client, Asn[r.box][r.client])

\* The rule at hand turns on the ASN.
TurnsOnAsn(r) ==
    /\ r.box \in Version /\ r.rule <= Len(Rules[r.box])
    /\ LET rule == Rules[r.box][r.rule]
       IN  r.client \in rule.met /\ rule.onNetwork /\ r.client \notin rule.nets

RequestOk(r) ==
    r = Idle \/ /\ r \in InHand
                /\ r.box \in r.inForce
                /\ r.at # "decided" => PassedOver(r)
                /\ r.at \in {"get", "put"} => TurnsOnAsn(r)
                /\ r.at = "decided" => r.action = Verdict(r.box, r.client)

RequestInv == request \in [Proc -> InHand \cup {Idle}] /\ \A p \in Proc : RequestOk(request[p])

(* Caches: to whom they belong.                                            *)

Cache == [list : Seq(Client), items : UNION {[S -> Nat] : S \in SUBSET Client}]

\* A cache answers as the database of a version.
Of(cache, v) == \A c \in DOMAIN cache.items : cache.items[c] = Asn[v][c]

Busy(p) == request[p] # Idle /\ request[p].box \in Version

\* A matcher serves the requests of one version only: the one it was made for.
\* What is compiled and not yet in the box has a fresh one.
MatcherInv ==
    /\ inUse \in 0..Len(caches)
    /\ box \in Version => inUse # 0 /\ Of(caches[inUse], box)
    /\ pc \in {"store", "swap"} /\ compiled \in Version =>
          inUse < Len(caches) /\ caches[Len(caches)] = EmptyCache
    /\ \A p \in Proc : Busy(p) =>
          /\ pc \notin {"load", "store"}
          /\ request[p].matcher \in 1..inUse
          /\ Of(caches[request[p].matcher], request[p].box)
          /\ request[p].matcher = inUse => request[p].box = box
    /\ \A p, q \in Proc :
          Busy(p) /\ Busy(q) /\ request[p].matcher = request[q].matcher =>
            request[p].box = request[q].box

Distinct(seq) == \A i, j \in 1..Len(seq) : seq[i] = seq[j] => i = j

\* There is a list of the keys used for every cache, and each key is there once.
HistoryInv ==
    /\ caches \in Seq(Cache)
    /\ recent \in Seq(Seq(Client)) /\ Len(recent) = Len(caches)
    /\ \A m \in 1..Len(recent) : Distinct(recent[m])

MatchInv == IndInv /\ RequestInv /\ MatcherInv /\ HistoryInv /\ RecentKept

-----------------------------------------------------------------------------
(* The list of a cache.                                                    *)

\* Where a key is in a list, or the place behind it.
IsPlace(list, key, place) ==
    /\ place \in 1..Len(list) + 1
    /\ place <= Len(list) => list[place] = key
    /\ place = Len(list) + 1 => \A i \in 1..Len(list) : list[i] # key

Moved(list, key, place) ==
    [i \in 1..(IF place <= Len(list) THEN Len(list) ELSE place) |->
        IF i = 1 THEN key ELSE IF i <= place THEN list[i - 1] ELSE list[i]]

\* ToFront moves the key from the place where it is.
LEMMA ToFrontMoves ==
    ASSUME NEW list \in Seq(Client), NEW key \in Client, Distinct(list),
           NEW place, IsPlace(list, key, place)
    PROVE  ToFront(list, key) = Moved(list, key, place)
<1> DEFINE found == {i \in DOMAIN list : list[i] = key}
<1>1. Len(list) \in Nat /\ DOMAIN list = 1..Len(list)
  OBVIOUS
<1>2. CASE place <= Len(list)
  <2>1. found = {place}
    BY <1>1, <1>2 DEF IsPlace, Distinct
  <2>2. found # {} /\ (CHOOSE i \in found : TRUE) = place
    BY <2>1
  <2> QED
    BY <1>2, <2>2 DEF ToFront, Moved
<1>3. CASE place = Len(list) + 1
  <2>1. found = {} /\ ~(place <= Len(list))
    BY <1>1, <1>3 DEF IsPlace
  <2> QED
    BY <1>3, <2>1 DEF ToFront, Moved
<1> QED
  BY <1>1, <1>2, <1>3 DEF IsPlace

LEMMA SomePlace ==
    ASSUME NEW list \in Seq(Client), NEW key \in Client
    PROVE  \E place : IsPlace(list, key, place)
<1>1. Len(list) \in Nat
  OBVIOUS
<1>2. CASE \E i \in 1..Len(list) : list[i] = key
  <2>1. PICK i \in 1..Len(list) : list[i] = key
    BY <1>2
  <2>2. IsPlace(list, key, i)
    BY <1>1, <2>1 DEF IsPlace
  <2> QED
    BY <2>2
<1>3. CASE \A i \in 1..Len(list) : list[i] # key
  <2>1. IsPlace(list, key, Len(list) + 1)
    BY <1>1, <1>3 DEF IsPlace
  <2> QED
    BY <2>1
<1> QED
  BY <1>2, <1>3

Elements(list) == {list[i] : i \in 1..Len(list)}

\* What the moved list is.
LEMMA MovedShape ==
    ASSUME NEW list \in Seq(Client), NEW key \in Client, Distinct(list),
           NEW place, IsPlace(list, key, place)
    PROVE  /\ Moved(list, key, place) \in Seq(Client)
           /\ Len(Moved(list, key, place)) = IF place <= Len(list) THEN Len(list) ELSE Len(list) + 1
           /\ Distinct(Moved(list, key, place))
           /\ Elements(Moved(list, key, place)) = Elements(list) \cup {key}
<1> DEFINE size == IF place <= Len(list) THEN Len(list) ELSE place
           moved == Moved(list, key, place)
<1>1. /\ Len(list) \in Nat /\ place \in Nat /\ place >= 1 /\ size \in Nat
      /\ size = IF place <= Len(list) THEN Len(list) ELSE Len(list) + 1
      /\ place <= size
      /\ \A i \in 1..Len(list) : list[i] \in Client
  BY DEF IsPlace
<1>2. /\ DOMAIN moved = 1..size
      /\ \A i \in 1..size :
           moved[i] = IF i = 1 THEN key ELSE IF i <= place THEN list[i - 1] ELSE list[i]
  BY DEF Moved
<1>3. ASSUME NEW i \in 1..size
      PROVE  moved[i] \in Client
  BY <1>1, <1>2
<1>4. moved = [i \in 1..size |-> moved[i]]
  BY DEF Moved
<1> HIDE DEF moved, size
<1>5. moved \in Seq(Client) /\ Len(moved) = size
  <2>1. moved \in [1..size -> Client]
    BY <1>3, <1>4
  <2> QED
    BY <1>1, <2>1
<1>6. ASSUME NEW i \in 1..size, NEW j \in 1..size, moved[i] = moved[j], i < j
      PROVE  FALSE
  <2>1. CASE i = 1
    BY <1>1, <1>2, <1>6, <2>1 DEF IsPlace, Distinct
  <2>2. CASE i # 1
    BY <1>1, <1>2, <1>6, <2>2 DEF IsPlace, Distinct
  <2> QED
    BY <2>1, <2>2
<1>7. Distinct(moved)
  BY <1>1, <1>5, <1>6 DEF Distinct
<1>8. ASSUME NEW i \in 1..size
      PROVE  moved[i] \in {list[j] : j \in 1..Len(list)} \cup {key}
  BY <1>1, <1>2
<1>9. ASSUME NEW j \in 1..Len(list)
      PROVE  \E i \in 1..size : moved[i] = list[j]
  <2>1. CASE j < place
    <3>1. j + 1 \in 1..size /\ moved[j + 1] = list[j]
      BY <1>1, <1>2, <2>1
    <3> QED
      BY <3>1
  <2>2. CASE j = place
    <3>1. 1 \in 1..size /\ moved[1] = list[j]
      BY <1>1, <1>2, <2>2 DEF IsPlace
    <3> QED
      BY <3>1
  <2>3. CASE j > place
    <3>1. j \in 1..size /\ moved[j] = list[j]
      BY <1>1, <1>2, <2>3
    <3> QED
      BY <3>1
  <2> QED
    BY <1>1, <2>1, <2>2, <2>3
<1>10. 1 \in 1..size /\ moved[1] = key
  BY <1>1, <1>2
<1>11. {moved[i] : i \in 1..size} = {list[j] : j \in 1..Len(list)} \cup {key}
  BY <1>8, <1>9, <1>10
<1> QED
  BY <1>1, <1>5, <1>7, <1>11 DEF moved, size, Elements

\* What ToFront makes of a list.
LEMMA FrontShape ==
    ASSUME NEW list \in Seq(Client), NEW key \in Client, Distinct(list),
           NEW place, IsPlace(list, key, place)
    PROVE  /\ ToFront(list, key) \in Seq(Client) /\ Distinct(ToFront(list, key))
           /\ Len(ToFront(list, key)) = IF place <= Len(list) THEN Len(list) ELSE Len(list) + 1
           /\ Elements(ToFront(list, key)) = Elements(list) \cup {key}
<1>1. ToFront(list, key) = Moved(list, key, place)
  BY ToFrontMoves
<1> HIDE DEF Elements
<1> QED
  BY <1>1, MovedShape

\* The part of a list that there is room for.
Kept(list) == IF Len(list) < Capacity THEN Len(list) ELSE Capacity

\* A key in use comes to the front of what is kept as it does of everything.
LEMMA KnownKept ==
    ASSUME NEW list \in Seq(Client), NEW key \in Client, Distinct(list),
           NEW place, IsPlace(list, key, place), place <= Kept(list)
    PROVE  ToFront(SubSeq(list, 1, Kept(list)), key)
             = SubSeq(ToFront(list, key), 1, Kept(ToFront(list, key)))
<1> DEFINE kept == SubSeq(list, 1, Kept(list))
<1>1. /\ Len(list) \in Nat /\ Kept(list) \in 0..Len(list) /\ place \in 1..Kept(list)
      /\ place <= Len(list)
  BY MatchingAssumption DEF Kept, IsPlace
<1>2. /\ kept \in Seq(Client) /\ Len(kept) = Kept(list)
      /\ \A i \in 1..Kept(list) : kept[i] = list[i]
  BY <1>1
<1> HIDE DEF kept
<1>3. Distinct(kept)
  BY <1>1, <1>2 DEF Distinct
<1>4. IsPlace(kept, key, place)
  BY <1>1, <1>2 DEF IsPlace
<1>5. ToFront(kept, key) = Moved(kept, key, place) /\ ToFront(list, key) = Moved(list, key, place)
  BY <1>2, <1>3, <1>4, ToFrontMoves
<1>6. /\ Moved(list, key, place) \in Seq(Client) /\ Len(Moved(list, key, place)) = Len(list)
      /\ Kept(Moved(list, key, place)) = Kept(list)
  BY <1>1, MovedShape DEF Kept
<1>7. SubSeq(Moved(list, key, place), 1, Kept(list))
        = [i \in 1..Kept(list) |-> Moved(list, key, place)[i]]
  BY <1>1, <1>6
<1>8. Moved(kept, key, place) = [i \in 1..Kept(list) |-> Moved(list, key, place)[i]]
  BY <1>1, <1>2 DEF Moved
<1> QED
  BY <1>5, <1>6, <1>7, <1>8 DEF kept

\* A key that was not kept comes to the front, and what there is no room for goes.
LEMMA NewKept ==
    ASSUME NEW list \in Seq(Client), NEW key \in Client, Distinct(list),
           \A i \in 1..Kept(list) : list[i] # key
    PROVE  LET put == ToFront(SubSeq(list, 1, Kept(list)), key)
               now == ToFront(list, key)
           IN  /\ put \in Seq(Client) /\ Distinct(put) /\ Len(put) = Kept(list) + 1
               /\ Len(put) <= Capacity => put = SubSeq(now, 1, Kept(now))
               /\ Len(put) > Capacity => SubSeq(put, 1, Len(put) - 1) = SubSeq(now, 1, Kept(now))
<1> DEFINE kept == SubSeq(list, 1, Kept(list))
           last == Kept(list) + 1
<1>1. Len(list) \in Nat /\ Kept(list) \in 0..Len(list) /\ last \in Nat \ {0} /\ Capacity \in Nat \ {0}
  BY MatchingAssumption DEF Kept
<1>2. /\ kept \in Seq(Client) /\ Len(kept) = Kept(list)
      /\ \A i \in 1..Kept(list) : kept[i] = list[i]
  BY <1>1
<1> HIDE DEF kept
<1>3. Distinct(kept) /\ IsPlace(kept, key, last)
  BY <1>1, <1>2 DEF Distinct, IsPlace
<1>4. PICK place : IsPlace(list, key, place)
  BY SomePlace
<1>5. place \in 1..Len(list) + 1 /\ place >= last
  BY <1>1, <1>4 DEF IsPlace
<1>6. ToFront(kept, key) = Moved(kept, key, last) /\ ToFront(list, key) = Moved(list, key, place)
  BY <1>2, <1>3, <1>4, ToFrontMoves
<1> DEFINE put == Moved(kept, key, last)
           now == Moved(list, key, place)
<1>7. /\ put \in Seq(Client) /\ Distinct(put) /\ Len(put) = last
      /\ now \in Seq(Client) /\ Len(now) = IF place <= Len(list) THEN Len(list) ELSE Len(list) + 1
  BY <1>1, <1>2, <1>3, <1>4, MovedShape
<1>8. \A i \in 1..last : i \in 1..Len(now) => put[i] = now[i]
  BY <1>1, <1>2, <1>5, <1>7 DEF Moved
<1> HIDE DEF put, now
<1>9. ASSUME last <= Capacity
      PROVE  put = SubSeq(now, 1, Kept(now))
  <2>1. Kept(list) = Len(list) /\ place = last
    BY <1>1, <1>5, <1>9 DEF Kept
  <2>2. Kept(now) = last /\ Len(now) = last
    BY <1>1, <1>7, <1>9, <2>1 DEF Kept
  <2>3. SubSeq(now, 1, last) = [i \in 1..last |-> now[i]]
    BY <1>1, <1>7, <2>2
  <2>4. put = [i \in 1..last |-> put[i]]
    BY <1>7
  <2> QED
    BY <1>8, <2>2, <2>3, <2>4
<1>10. ASSUME last > Capacity
       PROVE  SubSeq(put, 1, last - 1) = SubSeq(now, 1, Kept(now))
  <2>1. Kept(list) = Capacity /\ Capacity <= Len(list) /\ last - 1 = Capacity
    BY <1>1, <1>10 DEF Kept
  <2>2. Kept(now) = Capacity /\ Capacity <= Len(now)
    BY <1>1, <1>7, <2>1 DEF Kept
  <2>3. SubSeq(now, 1, Capacity) = [i \in 1..Capacity |-> now[i]]
    BY <1>1, <1>7, <2>2
  <2>4. SubSeq(put, 1, Capacity) = [i \in 1..Capacity |-> put[i]]
    BY <1>1, <1>7, <2>1
  <2> QED
    BY <1>1, <1>8, <2>1, <2>2, <2>3, <2>4
<1> QED
  BY <1>6, <1>7, <1>9, <1>10 DEF kept, put, now

-----------------------------------------------------------------------------
(* Verdicts.                                                               *)

LEMMA FirstDecides ==
    ASSUME NEW v \in Version, NEW c \in Client, NEW i \in 1..Len(Rules[v]),
           Applies(Rules[v][i], c, Asn[v][c]),
           \A j \in 1..i - 1 : ~Applies(Rules[v][j], c, Asn[v][c])
    PROVE  Verdict(v, c) = Rules[v][i].action
<1> DEFINE applying == {j \in DOMAIN Rules[v] : Applies(Rules[v][j], c, Asn[v][c])}
<1>1. Rules[v] \in Seq(Rule)
  BY MatchingAssumption
<1>2. DOMAIN Rules[v] = 1..Len(Rules[v]) /\ Len(Rules[v]) \in Nat
  BY <1>1
<1>3. i \in applying /\ \A j \in applying : i <= j
  BY <1>2
<1>4. \A k \in applying : (\A j \in applying : k <= j) => k = i
  BY <1>2, <1>3
<1>5. (CHOOSE k \in applying : \A j \in applying : k <= j) = i
  BY <1>3, <1>4
<1>6. applying # {}
  BY <1>3
<1> QED
  BY <1>5, <1>6 DEF Verdict

LEMMA NoneDecides ==
    ASSUME NEW v, NEW c,
           \A j \in 1..Len(RulesIn(v)) : ~Applies(RulesIn(v)[j], c, Asn[v][c])
    PROVE  Verdict(v, c) = "default"
<1>1. RulesIn(v) \in Seq(Rule)
  BY MatchingAssumption DEF RulesIn
<1>2. DOMAIN RulesIn(v) = 1..Len(RulesIn(v))
  BY <1>1
<1> QED
  BY <1>2 DEF Verdict, RulesIn

\* What a rule leads to, if it is judged by what the database says.
LEMMA AfterRule ==
    ASSUME NEW p \in Proc, request[p] \in InHand, RequestOk(request[p]),
           request[p].at # "decided",
           request[p].box \in Version, request[p].rule <= Len(Rules[request[p].box]),
           NEW matches \in BOOLEAN,
           matches <=> Applies(CurrentRule(p), request[p].client, Asn[request[p].box][request[p].client])
    PROVE  /\ Match(p, matches) \in InHand /\ RequestOk(Match(p, matches))
           /\ Match(p, matches).box = request[p].box
           /\ Match(p, matches).matcher = request[p].matcher
<1> DEFINE r == request[p]
           i == r.rule
           current == Rules[r.box][i]
<1>1. /\ r.at \in {"rule", "get", "put"} /\ r.client \in Client /\ r.box \in Version
      /\ i \in Nat \ {0} /\ r.inForce \in SUBSET (Version \cup {Unset, NoRules})
      /\ r.matcher \in Nat
  BY DEF InHand
<1>2. r # Idle
  BY <1>1 DEF Idle
<1>3. r.box \in r.inForce /\ PassedOver(r)
  BY <1>2 DEF RequestOk
<1>4. Rules[r.box] \in Seq(Rule)
  BY <1>1, MatchingAssumption
<1>5. i \in 1..Len(Rules[r.box]) /\ Len(Rules[r.box]) \in Nat /\ current \in Rule
  BY <1>1, <1>4
<1>6. CurrentRule(p) = current /\ RulesIn(r.box) = Rules[r.box]
  BY DEF CurrentRule, RulesOf, RulesIn
<1>7. CASE matches
  <2> DEFINE after == [r EXCEPT !.at = "decided", !.action = current.action]
  <2>1. Match(p, matches) = after
    BY <1>6, <1>7 DEF Match, Decided
  <2>2. current.action \in STRING
    BY <1>5 DEF Rule
  <2>3. after \in InHand
    BY <2>2 DEF InHand
  <2>4. /\ after.at = "decided" /\ after.action = current.action /\ after.client = r.client
        /\ after.box = r.box /\ after.matcher = r.matcher /\ after.inForce = r.inForce
    BY DEF InHand
  <2>5. \A j \in 1..i - 1 : ~Applies(Rules[r.box][j], r.client, Asn[r.box][r.client])
    BY <1>1, <1>3, <1>5, <1>6 DEF PassedOver
  <2>6. Verdict(r.box, r.client) = current.action
    BY <1>1, <1>5, <1>6, <1>7, <2>5, FirstDecides
  <2>7. RequestOk(after)
    BY <1>3, <2>3, <2>4, <2>6 DEF RequestOk
  <2> QED
    BY <2>1, <2>3, <2>4, <2>7
<1>8. CASE ~matches
  <2> DEFINE after == [r EXCEPT !.at = "rule", !.rule = @ + 1]
  <2>1. Match(p, matches) = after
    BY <1>8 DEF Match
  <2>2. after \in InHand
    <3>1. i + 1 \in Nat \ {0}
      BY <1>1
    <3> QED
      BY <3>1 DEF InHand
  <2>3. /\ after.at = "rule" /\ after.rule = i + 1 /\ after.client = r.client
        /\ after.box = r.box /\ after.matcher = r.matcher /\ after.inForce = r.inForce
    BY DEF InHand
  <2>4. ASSUME NEW j \in 1..i, j <= Len(Rules[r.box])
        PROVE  ~Applies(Rules[r.box][j], r.client, Asn[r.box][r.client])
    <3>1. CASE j = i
      BY <1>6, <1>8, <3>1
    <3>2. CASE j # i
      BY <1>1, <1>3, <1>6, <2>4, <3>2 DEF PassedOver
    <3> QED
      BY <3>1, <3>2
  <2>5. PassedOver(after)
    BY <1>1, <1>6, <2>3, <2>4 DEF PassedOver
  <2>6. RequestOk(after)
    BY <1>3, <2>2, <2>3, <2>5 DEF RequestOk
  <2> QED
    BY <2>1, <2>2, <2>3, <2>6
<1> QED
  BY <1>7, <1>8

-----------------------------------------------------------------------------
(* The invariant of requests and caches.                                   *)

LEMMA MatchStart == MatchInit => MatchInv
<1> SUFFICES ASSUME MatchInit PROVE MatchInv
  OBVIOUS
<1>1. IndInv
  BY InitInv DEF MatchInit
<1>2. RequestInv
  BY DEF MatchInit, RequestInv, RequestOk
<1>3. MatcherInv
  BY BoxAssumption DEF MatchInit, Init, MatcherInv, Busy
<1>4. HistoryInv /\ RecentKept
  BY DEF MatchInit, HistoryInv, RecentKept
<1> QED
  BY <1>1, <1>2, <1>3, <1>4 DEF MatchInv

\* What the loader's steps mean for the matchers.
LEMMA LoaderSteps ==
    ASSUME IndInv, Next
    PROVE  /\ pc' \in {"load", "store"} => pc \in {"load", "store"}
           /\ \/ Compiles /\ pc \notin {"store", "swap"} /\ box' = box
              \/ /\ ~Compiles /\ pc \in {"store", "swap"} /\ pc' \notin {"store", "swap"}
                 /\ box' = compiled
              \/ /\ ~Compiles /\ box' = box
                 /\ pc' = pc \/ pc \notin {"store", "swap"}
                 /\ pc' \in {"store", "swap"} /\ compiled' \in Version =>
                      pc' = pc /\ compiled' = compiled
<1> USE VersionsAssumption, BoxAssumption DEF IndInv, TypeOK, Compiles
<1>1. CASE Edit
  BY <1>1 DEF Edit
<1>2. CASE Delete
  BY <1>2 DEF Delete
<1>3. CASE Load
  BY <1>3 DEF Load
<1>4. CASE StoreFirst
  BY <1>4 DEF StoreFirst
<1>5. CASE FirstStat
  BY <1>5 DEF FirstStat
<1>6. CASE Stat
  BY <1>6 DEF Stat
<1>7. CASE Reload
  BY <1>7 DEF Reload
<1>8. CASE ReloadFails
  BY <1>8 DEF ReloadFails
<1>9. CASE Swap
  BY <1>9 DEF Swap
<1> QED
  BY <1>1, <1>2, <1>3, <1>4, <1>5, <1>6, <1>7, <1>8, <1>9 DEF Next, Loader

\* A request only learns that other rules are in force.
LEMMA ReloadsAndRequests ==
    ASSUME RequestInv, Reloads, box' \in Version \cup {Unset, NoRules}
    PROVE  /\ RequestInv'
           /\ \A p \in Proc : Busy(p)' <=> Busy(p)
           /\ \A p \in Proc : Busy(p) => /\ request'[p].box = request[p].box
                                        /\ request'[p].matcher = request[p].matcher
<1>1. ASSUME NEW p \in Proc
      PROVE  /\ request'[p] \in InHand \cup {Idle} /\ RequestOk(request'[p])
             /\ request'[p] = Idle <=> request[p] = Idle
             /\ request[p] # Idle => /\ request'[p].box = request[p].box
                                     /\ request'[p].matcher = request[p].matcher
  <2>1. CASE request[p] = Idle
    <3>1. request'[p] = Idle
      BY <2>1 DEF Reloads, Idle
    <3> QED
      BY <2>1, <3>1 DEF RequestOk
  <2>2. CASE request[p] # Idle
    <3> DEFINE r == request[p]
               after == [r EXCEPT !.inForce = @ \cup {box'}]
    <3>1. r \in InHand /\ RequestOk(r) /\ r.at # "idle"
      BY <2>2 DEF RequestInv, InHand
    <3>2. request'[p] = after
      BY <3>1 DEF Reloads
    <3>3. after \in InHand
      BY <3>1 DEF InHand
    <3>4. /\ after.at = r.at /\ after.client = r.client /\ after.box = r.box
          /\ after.matcher = r.matcher /\ after.rule = r.rule /\ after.action = r.action
          /\ after.inForce = r.inForce \cup {box'}
      BY <3>1 DEF InHand
    <3>5. PassedOver(r) <=> PassedOver(after)
      BY <3>4 DEF PassedOver
    <3>6. TurnsOnAsn(r) <=> TurnsOnAsn(after)
      BY <3>4 DEF TurnsOnAsn
    <3>7. RequestOk(after)
      BY <2>2, <3>1, <3>3, <3>4, <3>5, <3>6 DEF RequestOk
    <3>8. after # Idle
      BY <3>1, <3>4 DEF Idle
    <3> QED
      BY <2>2, <3>2, <3>3, <3>4, <3>7, <3>8
  <2> QED
    BY <2>1, <2>2
<1>2. request' = [p \in Proc |-> request'[p]]
  BY DEF Reloads
<1>3. request' \in [Proc -> InHand \cup {Idle}]
  BY <1>1, <1>2
<1>4. RequestInv'
  BY <1>1, <1>3 DEF RequestInv, RequestOk, PassedOver, TurnsOnAsn
<1> QED
  BY <1>1, <1>4 DEF Busy

LEMMA ReloadsKeep == MatchInv /\ IndInv' /\ Next /\ Reloads => MatchInv'
<1> SUFFICES ASSUME MatchInv, IndInv', Next, Reloads
             PROVE  MatchInv'
  OBVIOUS
<1>1. IndInv /\ RequestInv /\ MatcherInv /\ HistoryInv /\ RecentKept
  BY DEF MatchInv
<1>2. /\ box \in Version \cup {Unset, NoRules} /\ box' \in Version \cup {Unset, NoRules}
      /\ compiled \in Version \cup {NoRules}
  BY <1>1 DEF IndInv, TypeOK
<1>3. /\ RequestInv'
      /\ \A p \in Proc : Busy(p)' <=> Busy(p)
      /\ \A p \in Proc : Busy(p) => /\ request'[p].box = request[p].box
                                   /\ request'[p].matcher = request[p].matcher
  BY <1>1, <1>2, ReloadsAndRequests
<1>4. /\ caches \in Seq(Cache) /\ recent \in Seq(Seq(Client)) /\ Len(recent) = Len(caches)
      /\ pc' \in {"load", "store"} => pc \in {"load", "store"}
      /\ pc = "swap" => compiled \in Version
      /\ DOMAIN caches = 1..Len(caches)
  BY <1>1, LoaderSteps DEF HistoryInv, IndInv, RoundInv, FileInv, TypeOK
<1>5. CASE Compiles /\ pc \notin {"store", "swap"} /\ box' = box
  <2>1. /\ caches' = Append(caches, EmptyCache) /\ recent' = Append(recent, <<>>)
        /\ inUse' = inUse
    BY <1>5 DEF Reloads, NewMatcher
  <2>2. EmptyCache \in Cache
    BY DEF EmptyCache, Cache
  <2>3. /\ caches' \in Seq(Cache) /\ Len(caches') = Len(caches) + 1
        /\ \A m \in 1..Len(caches) : caches'[m] = caches[m]
        /\ caches'[Len(caches')] = EmptyCache
    BY <1>4, <2>1, <2>2
  <2>4. /\ recent' \in Seq(Seq(Client)) /\ Len(recent') = Len(caches) + 1
        /\ \A m \in 1..Len(caches) : recent'[m] = recent[m]
        /\ recent'[Len(caches) + 1] = <<>>
    BY <1>4, <2>1
  <2>5. Len(caches) \in Nat
    BY <1>4
  <2>7. MatcherInv'
    <3>1. inUse \in 0..Len(caches)
      BY <1>1 DEF MatcherInv
    <3>2. box' \in Version => inUse' # 0 /\ Of(caches'[inUse'], box')
      BY <1>1, <1>5, <2>1, <2>3, <2>5, <3>1 DEF MatcherInv
    <3>3. inUse' < Len(caches') /\ caches'[Len(caches')] = EmptyCache /\ inUse' \in 0..Len(caches')
      BY <2>1, <2>3, <2>5, <3>1
    <3>4. ASSUME NEW p \in Proc, Busy(p)
          PROVE  /\ pc' \notin {"load", "store"}
                 /\ request'[p].matcher \in 1..inUse'
                 /\ Of(caches'[request'[p].matcher], request'[p].box)
                 /\ request'[p].matcher = inUse' => request'[p].box = box'
      <4>1. /\ request[p].matcher \in 1..inUse /\ pc \notin {"load", "store"}
            /\ Of(caches[request[p].matcher], request[p].box)
            /\ request[p].matcher = inUse => request[p].box = box
        BY <1>1, <3>4 DEF MatcherInv
      <4>2. request'[p].box = request[p].box /\ request'[p].matcher = request[p].matcher
        BY <1>3, <3>4
      <4>3. caches'[request[p].matcher] = caches[request[p].matcher]
        BY <2>3, <2>5, <3>1, <4>1
      <4> QED
        BY <1>4, <1>5, <2>1, <4>1, <4>2, <4>3
    <3>5. \A p, q \in Proc :
            Busy(p)' /\ Busy(q)' /\ request'[p].matcher = request'[q].matcher =>
              request'[p].box = request'[q].box
      BY <1>1, <1>3 DEF MatcherInv
    <3> QED
      BY <1>3, <2>1, <3>2, <3>3, <3>4, <3>5 DEF MatcherInv
  <2>8. HistoryInv'
    <3>1. ASSUME NEW m \in 1..Len(recent')
          PROVE  Distinct(recent'[m])
      <4>1. CASE m = Len(caches) + 1
        BY <2>4, <4>1 DEF Distinct
      <4>2. CASE m # Len(caches) + 1
        <5>1. m \in 1..Len(recent) /\ recent'[m] = recent[m]
          BY <1>4, <2>4, <2>5, <4>2
        <5> QED
          BY <1>1, <5>1 DEF HistoryInv
      <4> QED
        BY <4>1, <4>2
    <3> QED
      BY <2>3, <2>4, <3>1 DEF HistoryInv
  <2>9. RecentKept'
    <3> SUFFICES ASSUME NEW m \in 1..Len(caches')
                 PROVE  /\ caches'[m].list = SubSeq(recent'[m], 1, Kept(recent'[m]))
                        /\ DOMAIN caches'[m].items
                             = {caches'[m].list[i] : i \in 1..Kept(recent'[m])}
      BY <2>3, SMTT(30) DEF RecentKept, Kept
    <3>1. CASE m \in 1..Len(caches)
      <4>1. caches'[m] = caches[m] /\ recent'[m] = recent[m]
        BY <2>3, <2>4, <3>1
      <4>2. /\ caches[m].list = SubSeq(recent[m], 1, Kept(recent[m]))
            /\ DOMAIN caches[m].items = {caches[m].list[i] : i \in 1..Kept(recent[m])}
        BY <1>1, <1>4, <3>1 DEF RecentKept, Kept
      <4> QED
        BY <4>1, <4>2
    <3>2. CASE m = Len(caches) + 1
      <4>1. Kept(recent'[m]) = 0 /\ recent'[m] = <<>>
        BY <2>4, <3>2, MatchingAssumption DEF Kept
      <4>2. caches'[m].list = <<>> /\ DOMAIN caches'[m].items = {}
        BY <2>3, <3>2 DEF EmptyCache
      <4> QED
        BY <4>1, <4>2
    <3> QED
      BY <2>3, <2>5, <3>1, <3>2
  <2> QED
    BY <1>3, <2>7, <2>8, <2>9 DEF MatchInv
<1>6. CASE /\ ~Compiles /\ pc \in {"store", "swap"} /\ pc' \notin {"store", "swap"}
           /\ box' = compiled
  <2>1. UNCHANGED <<caches, recent>> /\ inUse' = Len(caches)
    BY <1>6 DEF Reloads, NewMatcher
  <2>2. Len(caches) \in Nat /\ inUse \in 0..Len(caches)
    BY <1>1, <1>4 DEF MatcherInv
  <2>3. ASSUME box' \in Version
        PROVE  inUse < Len(caches) /\ caches[Len(caches)] = EmptyCache
    BY <1>1, <1>6, <2>3 DEF MatcherInv
  <2>4. box' \in Version => Of(caches'[inUse'], box')
    BY <2>1, <2>3 DEF Of, EmptyCache
  <2>6. ASSUME NEW p \in Proc, Busy(p)
        PROVE  /\ pc' \notin {"load", "store"}
               /\ request'[p].matcher \in 1..inUse'
               /\ Of(caches'[request'[p].matcher], request'[p].box)
               /\ request'[p].matcher = inUse' => request'[p].box = box'
    <3>1. /\ request[p].matcher \in 1..inUse /\ pc \notin {"load", "store"}
          /\ Of(caches[request[p].matcher], request[p].box)
      BY <1>1, <2>6 DEF MatcherInv
    <3>2. request'[p].box = request[p].box /\ request'[p].matcher = request[p].matcher
      BY <1>3, <2>6
    <3>3. box' \in Version
      BY <1>4, <1>6, <3>1
    <3> QED
      BY <1>4, <2>1, <2>2, <2>3, <3>1, <3>2, <3>3
  <2>7. MatcherInv'
    BY <1>1, <1>3, <1>6, <2>1, <2>2, <2>3, <2>4, <2>6 DEF MatcherInv
  <2>8. HistoryInv' /\ RecentKept'
    BY <1>1, <2>1 DEF HistoryInv, RecentKept
  <2> QED
    BY <1>3, <2>7, <2>8 DEF MatchInv
<1>7. CASE /\ ~Compiles /\ box' = box
           /\ pc' = pc \/ pc \notin {"store", "swap"}
           /\ pc' \in {"store", "swap"} /\ compiled' \in Version => pc' = pc /\ compiled' = compiled
  <2>1. UNCHANGED <<caches, recent, inUse>>
    BY <1>7 DEF Reloads, NewMatcher
  <2>2. MatcherInv'
    <3>1. ASSUME NEW p \in Proc, Busy(p)
          PROVE  /\ pc' \notin {"load", "store"}
                 /\ request'[p].matcher \in 1..inUse'
                 /\ Of(caches'[request'[p].matcher], request'[p].box)
                 /\ request'[p].matcher = inUse' => request'[p].box = box'
      <4>1. /\ request[p].matcher \in 1..inUse /\ pc \notin {"load", "store"}
            /\ Of(caches[request[p].matcher], request[p].box)
            /\ request[p].matcher = inUse => request[p].box = box
        BY <1>1, <3>1 DEF MatcherInv
      <4>2. request'[p].box = request[p].box /\ request'[p].matcher = request[p].matcher
        BY <1>3, <3>1
      <4> QED
        BY <1>4, <1>7, <2>1, <4>1, <4>2
    <3>2. /\ inUse' \in 0..Len(caches')
          /\ box' \in Version => inUse' # 0 /\ Of(caches'[inUse'], box')
          /\ pc' \in {"store", "swap"} /\ compiled' \in Version =>
               inUse' < Len(caches') /\ caches'[Len(caches')] = EmptyCache
      BY <1>1, <1>7, <2>1 DEF MatcherInv
    <3>3. \A p, q \in Proc :
            Busy(p)' /\ Busy(q)' /\ request'[p].matcher = request'[q].matcher =>
              request'[p].box = request'[q].box
      BY <1>1, <1>3 DEF MatcherInv
    <3> QED
      BY <1>3, <3>1, <3>2, <3>3 DEF MatcherInv
  <2>3. HistoryInv' /\ RecentKept'
    BY <1>1, <2>1 DEF HistoryInv, RecentKept
  <2> QED
    BY <1>3, <2>2, <2>3 DEF MatchInv
<1> QED
  BY <1>1, <1>5, <1>6, <1>7, LoaderSteps

LEMMA RequestMoves ==
    ASSUME RequestInv, NEW p \in Proc, NEW r \in InHand \cup {Idle}, RequestOk(r), Steps(p, r)
    PROVE  /\ RequestInv'
           /\ request'[p] = r /\ \A q \in Proc \ {p} : request'[q] = request[q]
<1>1. request' = [request EXCEPT ![p] = r]
  BY DEF Steps
<1>2. request' \in [Proc -> InHand \cup {Idle}]
  BY <1>1 DEF RequestInv
<1>3. request'[p] = r /\ \A q \in Proc \ {p} : request'[q] = request[q]
  BY <1>1 DEF RequestInv
<1>4. \A q \in Proc : RequestOk(request'[q])
  BY <1>3 DEF RequestInv
<1> QED
  BY <1>2, <1>3, <1>4 DEF RequestInv, RequestOk, PassedOver, TurnsOnAsn

\* A request that goes on under its rules leaves every matcher to its version,
\* if what it puts into its own is true.
LEMMA MatchersStay ==
    ASSUME MatcherInv, HistoryInv, RequestInv, NEW p \in Proc, NEW r \in InHand \cup {Idle},
           RequestOk(r), Steps(p, r),
           r # Idle => /\ request[p] # Idle
                       /\ r.box = request[p].box /\ r.matcher = request[p].matcher,
           UNCHANGED <<vars, inUse>>, Len(caches') = Len(caches),
           \A m \in 1..Len(caches) :
               \/ caches'[m] = caches[m]
               \/ Busy(p) /\ m = request[p].matcher /\ Of(caches'[m], request[p].box)
    PROVE  MatcherInv'
<1>1. request'[p] = r /\ \A q \in Proc \ {p} : request'[q] = request[q]
  BY RequestMoves
<1>2. UNCHANGED <<box, pc, compiled>>
  BY DEF vars
<1>3. Len(caches) \in Nat /\ inUse \in 0..Len(caches)
  BY DEF MatcherInv, HistoryInv
<1>4. ASSUME NEW q \in Proc, Busy(q)'
      PROVE  /\ Busy(q)
             /\ request'[q].box = request[q].box /\ request'[q].matcher = request[q].matcher
  BY <1>1, <1>4 DEF Busy
<1>5. ASSUME NEW m \in 1..inUse, NEW v, Of(caches[m], v),
             Busy(p) /\ request[p].matcher = m => request[p].box = v
      PROVE  Of(caches'[m], v)
  BY <1>3, <1>5
<1>6. box' \in Version => inUse' # 0 /\ Of(caches'[inUse'], box')
  BY <1>2, <1>3, <1>5 DEF MatcherInv
<1>7. ASSUME pc \in {"store", "swap"}, compiled \in Version
      PROVE  inUse < Len(caches) /\ caches'[Len(caches)] = EmptyCache
  <2>1. inUse < Len(caches) /\ caches[Len(caches)] = EmptyCache
    BY <1>7 DEF MatcherInv
  <2>2. Busy(p) => request[p].matcher # Len(caches)
    BY <1>3, <2>1 DEF MatcherInv
  <2> QED
    BY <1>3, <2>1, <2>2
<1>8. ASSUME NEW q \in Proc, Busy(q)'
      PROVE  /\ pc' \notin {"load", "store"}
             /\ request'[q].matcher \in 1..inUse'
             /\ Of(caches'[request'[q].matcher], request'[q].box)
             /\ request'[q].matcher = inUse' => request'[q].box = box'
  <2>1. /\ Busy(q)
        /\ request'[q].box = request[q].box /\ request'[q].matcher = request[q].matcher
    BY <1>4, <1>8
  <2>2. /\ pc \notin {"load", "store"} /\ request[q].matcher \in 1..inUse
        /\ Of(caches[request[q].matcher], request[q].box)
        /\ request[q].matcher = inUse => request[q].box = box
    BY <2>1 DEF MatcherInv
  <2>3. Busy(p) /\ request[p].matcher = request[q].matcher => request[p].box = request[q].box
    BY <2>1 DEF MatcherInv
  <2>4. Of(caches'[request[q].matcher], request[q].box)
    BY <1>5, <2>2, <2>3
  <2> QED
    BY <1>2, <2>1, <2>2, <2>4
<1>9. ASSUME NEW q \in Proc, NEW s \in Proc, Busy(q)', Busy(s)',
             request'[q].matcher = request'[s].matcher
      PROVE  request'[q].box = request'[s].box
  BY <1>4, <1>9 DEF MatcherInv
<1> QED
  BY <1>2, <1>3, <1>6, <1>7, <1>8, <1>9 DEF MatcherInv

\* Steps that use no cache.
LEMMA CachesRest ==
    ASSUME MatchInv, UNCHANGED <<vars, caches, inUse, recent>>
    PROVE  IndInv' /\ HistoryInv' /\ RecentKept'
<1>1. IndInv' <=> IndInv
  BY DEF vars, IndInv, TypeOK, FileInv, BoxInv, RoundInv, NothingMissed
<1> QED
  BY <1>1 DEF MatchInv, HistoryInv, RecentKept

LEMMA ArriveKeeps == ASSUME MatchInv, NEW p \in Proc, Arrive(p) PROVE MatchInv'
<1>1. PICK c \in Client :
        Steps(p, [at |-> "rule", client |-> c, box |-> box, matcher |-> inUse,
                  rule |-> 1, action |-> "none", inForce |-> {box}])
  BY DEF Arrive
<1> DEFINE r == [at |-> "rule", client |-> c, box |-> box, matcher |-> inUse,
                 rule |-> 1, action |-> "none", inForce |-> {box}]
<1>2. UNCHANGED <<vars, caches, inUse, recent>> /\ UNCHANGED <<box, pc, compiled>>
  BY DEF Arrive, vars
<1>3. RequestInv /\ MatcherInv /\ HistoryInv /\ IndInv
  BY DEF MatchInv
<1>4. box \in Version \cup {Unset, NoRules} /\ inUse \in Nat
  BY <1>3 DEF IndInv, TypeOK, MatcherInv, HistoryInv
<1>5. r \in InHand
  <2>1. {box} \in SUBSET (Version \cup {Unset, NoRules}) /\ 1 \in Nat \ {0}
    BY <1>4
  <2> HIDE DEF Version
  <2> QED
    BY <1>4, <2>1 DEF InHand
<1>6. PassedOver(r)
  BY DEF PassedOver
<1>7. RequestOk(r)
  BY <1>5, <1>6 DEF RequestOk
<1>8. /\ RequestInv'
      /\ request'[p] = r /\ \A q \in Proc \ {p} : request'[q] = request[q]
  BY <1>1, <1>3, <1>5, <1>7, RequestMoves
<1>9. ASSUME NEW q \in Proc, Busy(q)', q # p
      PROVE  Busy(q) /\ request'[q] = request[q]
  BY <1>8, <1>9 DEF Busy
<1>10. ASSUME Busy(p)'
       PROVE  /\ box \in Version /\ inUse # 0 /\ Of(caches[inUse], box)
              /\ pc \notin {"load", "store"}
              /\ request'[p].box = box /\ request'[p].matcher = inUse
  <2>1. box \in Version
    BY <1>8, <1>10 DEF Busy
  <2> QED
    BY <1>3, <1>8, <2>1, BoxAssumption DEF MatcherInv, IndInv, BoxInv
<1>11. ASSUME NEW q \in Proc, Busy(q)'
       PROVE  /\ pc' \notin {"load", "store"}
              /\ request'[q].matcher \in 1..inUse'
              /\ Of(caches'[request'[q].matcher], request'[q].box)
              /\ request'[q].matcher = inUse' => request'[q].box = box'
  <2>1. CASE q = p
    BY <1>2, <1>4, <1>10, <1>11, <2>1
  <2>2. CASE q # p
    BY <1>2, <1>3, <1>9, <1>11, <2>2 DEF MatcherInv
  <2> QED
    BY <2>1, <2>2
<1>12. ASSUME NEW q \in Proc, NEW s \in Proc, Busy(q)', Busy(s)',
              request'[q].matcher = request'[s].matcher
       PROVE  request'[q].box = request'[s].box
  <2>1. CASE q # p /\ s # p
    BY <1>3, <1>9, <1>12, <2>1 DEF MatcherInv
  <2>2. CASE q = p \/ s = p
    BY <1>2, <1>10, <1>11, <1>12, <2>2
  <2> QED
    BY <2>1, <2>2
<1>13. MatcherInv'
  BY <1>2, <1>3, <1>11, <1>12 DEF MatcherInv
<1> QED
  BY <1>2, <1>8, <1>13, CachesRest DEF MatchInv

LEMMA LeaveKeeps == ASSUME MatchInv, NEW p \in Proc, Leave(p) PROVE MatchInv'
<1>1. RequestInv /\ MatcherInv /\ HistoryInv
  BY DEF MatchInv
<1>2. Steps(p, Idle) /\ UNCHANGED <<vars, caches, inUse, recent>> /\ RequestOk(Idle)
  BY DEF Leave, RequestOk
<1>3. RequestInv'
  BY <1>1, <1>2, RequestMoves
<1>4. MatcherInv'
  BY <1>1, <1>2, MatchersStay
<1> QED
  BY <1>2, <1>3, <1>4, CachesRest DEF MatchInv

\* A request at a place other than these two is in hand.
LEMMA InHandThere ==
    ASSUME RequestInv, NEW p \in Proc, request[p].at \in {"rule", "get", "put"}
    PROVE  /\ request[p] \in InHand /\ request[p] # Idle
           /\ RequestOk(request[p]) /\ PassedOver(request[p])
           /\ request[p].at \in {"get", "put"} =>
                /\ TurnsOnAsn(request[p]) /\ Busy(p)
                /\ request[p].rule <= Len(Rules[request[p].box])
                /\ request[p].box \in Version /\ request[p].client \in Client
<1>1. request[p] # Idle
  BY DEF Idle
<1>2. request[p] \in InHand /\ RequestOk(request[p])
  BY <1>1 DEF RequestInv
<1>3. /\ PassedOver(request[p])
      /\ request[p].at \in {"get", "put"} => TurnsOnAsn(request[p])
  BY <1>1, <1>2 DEF RequestOk
<1>4. request[p].client \in Client
  BY <1>2 DEF InHand
<1> QED
  BY <1>1, <1>2, <1>3, <1>4 DEF TurnsOnAsn, Busy

\* Steps that use no cache and keep the request with its rules.
LEMMA StaysKeeps ==
    ASSUME MatchInv, NEW p \in Proc, request[p] # Idle, NEW r \in InHand, RequestOk(r), Steps(p, r),
           r.box = request[p].box, r.matcher = request[p].matcher,
           UNCHANGED <<vars, caches, inUse, recent>>
    PROVE  MatchInv'
<1>1. RequestInv /\ MatcherInv /\ HistoryInv
  BY DEF MatchInv
<1>2. RequestInv'
  BY <1>1, RequestMoves
<1>3. MatcherInv'
  BY <1>1, MatchersStay
<1> QED
  BY <1>2, <1>3, CachesRest DEF MatchInv

LEMMA EvaluateKeeps == ASSUME MatchInv, NEW p \in Proc, Evaluate(p) PROVE MatchInv'
<1> DEFINE r == request[p]
           rule == CurrentRule(p)
           turns == r.client \in rule.met /\ rule.onNetwork /\ r.client \notin rule.nets /\ rule.asns # {}
           matches == r.client \in rule.met /\ (rule.onNetwork => r.client \in rule.nets)
<1>1. r.at = "rule" /\ UNCHANGED <<vars, caches, inUse, recent>>
  BY DEF Evaluate, At
<1>2. /\ r \in InHand /\ r # Idle /\ RequestOk(r) /\ PassedOver(r)
  BY <1>1, InHandThere DEF MatchInv
<1>3. /\ r.client \in Client /\ r.rule \in Nat \ {0} /\ r.box \in r.inForce
  BY <1>2 DEF InHand, RequestOk
<1>4. RulesOf(p) = RulesIn(r.box) /\ RulesIn(r.box) \in Seq(Rule)
  BY MatchingAssumption DEF RulesOf, RulesIn
<1>5. CASE r.rule > Len(RulesOf(p))
  <2> DEFINE after == [r EXCEPT !.at = "decided", !.action = "default"]
  <2>1. Steps(p, after)
    BY <1>5 DEF Evaluate, Decided
  <2>2. after \in InHand
    BY <1>2 DEF InHand
  <2>3. /\ after.at = "decided" /\ after.action = "default" /\ after.client = r.client
        /\ after.box = r.box /\ after.matcher = r.matcher /\ after.inForce = r.inForce
    BY <1>2 DEF InHand
  <2>4. \A j \in 1..Len(RulesIn(r.box)) :
          ~Applies(RulesIn(r.box)[j], r.client, Asn[r.box][r.client])
    BY <1>2, <1>3, <1>4, <1>5 DEF PassedOver
  <2>5. Verdict(r.box, r.client) = "default"
    BY <2>4, NoneDecides
  <2>6. RequestOk(after)
    BY <1>3, <2>2, <2>3, <2>5 DEF RequestOk
  <2> QED
    BY <1>1, <1>2, <2>1, <2>2, <2>3, <2>6, StaysKeeps
<1>6. CASE ~(r.rule > Len(RulesOf(p)))
  <2>1. r.box \in Version /\ r.rule <= Len(Rules[r.box])
    BY <1>3, <1>4, <1>6 DEF RulesIn
  <2>2. rule = Rules[r.box][r.rule]
    BY <2>1 DEF CurrentRule, RulesOf
  <2>3. CASE turns
    <3> DEFINE after == [r EXCEPT !.at = "get"]
    <3>1. Steps(p, after)
      BY <1>6, <2>3 DEF Evaluate
    <3>2. after \in InHand
      BY <1>2 DEF InHand
    <3>3. /\ after.at = "get" /\ after.client = r.client /\ after.rule = r.rule
          /\ after.box = r.box /\ after.matcher = r.matcher /\ after.inForce = r.inForce
      BY <1>2 DEF InHand
    <3>4. PassedOver(after)
      BY <1>2, <3>3 DEF PassedOver
    <3>5. TurnsOnAsn(after)
      BY <2>1, <2>2, <2>3, <3>3 DEF TurnsOnAsn
    <3>6. RequestOk(after)
      BY <1>3, <3>2, <3>3, <3>4, <3>5 DEF RequestOk
    <3> QED
      BY <1>1, <1>2, <3>1, <3>2, <3>3, <3>6, StaysKeeps
  <2>4. CASE ~turns
    <3>1. Steps(p, Match(p, matches))
      BY <1>6, <2>4 DEF Evaluate
    <3>2. matches <=> Applies(rule, r.client, Asn[r.box][r.client])
      BY <2>4 DEF Applies
    <3>3. /\ Match(p, matches) \in InHand /\ RequestOk(Match(p, matches))
          /\ Match(p, matches).box = r.box /\ Match(p, matches).matcher = r.matcher
      <4>1. matches \in BOOLEAN
        OBVIOUS
      <4> HIDE DEF matches
      <4> QED
        BY <1>1, <1>2, <2>1, <3>2, <4>1, AfterRule
    <3> HIDE DEF matches
    <3> QED
      BY <1>1, <1>2, <3>1, <3>3, StaysKeeps
  <2> QED
    BY <2>3, <2>4
<1> QED
  BY <1>5, <1>6

LEMMA MissKeeps == ASSUME MatchInv, NEW p \in Proc, Miss(p) PROVE MatchInv'
<1> DEFINE r == request[p]
           after == [r EXCEPT !.at = "put"]
<1>1. r.at = "get" /\ Steps(p, after) /\ UNCHANGED <<vars, caches, inUse, recent>>
  BY DEF Miss, At
<1>2. r \in InHand /\ r # Idle /\ RequestOk(r) /\ PassedOver(r) /\ TurnsOnAsn(r)
  BY <1>1, InHandThere DEF MatchInv
<1>3. after \in InHand
  BY <1>2 DEF InHand
<1>4. /\ after.at = "put" /\ after.client = r.client /\ after.rule = r.rule
      /\ after.box = r.box /\ after.matcher = r.matcher /\ after.inForce = r.inForce
  BY <1>2 DEF InHand
<1>5. PassedOver(after) /\ TurnsOnAsn(after)
  BY <1>2, <1>4 DEF PassedOver, TurnsOnAsn
<1>6. RequestOk(after)
  BY <1>2, <1>3, <1>4, <1>5 DEF RequestOk
<1> QED
  BY <1>1, <1>2, <1>3, <1>4, <1>6, StaysKeeps

-----------------------------------------------------------------------------
(* What Get and Put make of a cache.                                       *)

LEMMA CacheShape ==
    ASSUME NEW c
    PROVE  c \in Cache <=>
             /\ c = [list |-> c.list, items |-> c.items]
             /\ c.list \in Seq(Client)
             /\ DOMAIN c.items \subseteq Client /\ c.items \in [DOMAIN c.items -> Nat]
  BY DEF Cache

\* A cache holds the latest of the keys used, in the list and in the map.
Holds(cache, list) ==
    /\ cache.list = SubSeq(list, 1, Kept(list))
    /\ DOMAIN cache.items = {cache.list[i] : i \in 1..Kept(list)}

LEMMA RecentHeld == RecentKept <=> \A m \in DOMAIN caches : Holds(caches[m], recent[m])
  BY DEF RecentKept, Holds, Kept

LEMMA KeptShape ==
    ASSUME NEW list \in Seq(Client), Distinct(list), NEW cache \in Cache, Holds(cache, list)
    PROVE  /\ Kept(list) \in 0..Len(list) /\ Kept(list) <= Capacity /\ Len(list) \in Nat
           /\ cache.list \in Seq(Client) /\ Len(cache.list) = Kept(list) /\ Distinct(cache.list)
           /\ \A i \in 1..Kept(list) : cache.list[i] = list[i]
<1>1. Kept(list) \in 0..Len(list) /\ Kept(list) <= Capacity /\ Len(list) \in Nat
  BY MatchingAssumption DEF Kept
<1>2. /\ cache.list \in Seq(Client) /\ Len(cache.list) = Kept(list)
      /\ \A i \in 1..Kept(list) : cache.list[i] = list[i]
  BY <1>1 DEF Holds
<1>3. Distinct(cache.list)
  BY <1>1, <1>2 DEF Distinct
<1> QED
  BY <1>1, <1>2, <1>3

\* A key that is there comes to the front.
LEMMA KnownHeld ==
    ASSUME NEW list \in Seq(Client), Distinct(list), NEW cache \in Cache, Holds(cache, list),
           NEW key \in DOMAIN cache.items
    PROVE  LET moved == ToFront(cache.list, key)
               now == ToFront(list, key)
           IN  /\ key \in Client /\ moved \in Seq(Client) /\ Len(moved) = Kept(list)
               /\ moved = SubSeq(now, 1, Kept(now)) /\ Kept(now) = Kept(list)
               /\ {moved[i] : i \in 1..Kept(now)} = DOMAIN cache.items
<1>1. /\ Kept(list) \in 0..Len(list) /\ Len(list) \in Nat
      /\ cache.list \in Seq(Client) /\ Len(cache.list) = Kept(list) /\ Distinct(cache.list)
      /\ \A i \in 1..Kept(list) : cache.list[i] = list[i]
  BY KeptShape
<1>2. PICK place \in 1..Kept(list) : cache.list[place] = key
  BY DEF Holds
<1>3. key \in Client /\ IsPlace(list, key, place) /\ IsPlace(cache.list, key, place)
  BY <1>1, <1>2 DEF IsPlace
<1> DEFINE moved == ToFront(cache.list, key)
           now == ToFront(list, key)
<1>4. moved = SubSeq(now, 1, Kept(now))
  BY <1>2, <1>3, KnownKept DEF Holds
<1>5. /\ now \in Seq(Client) /\ Len(now) = Len(list)
  BY <1>1, <1>2, <1>3, FrontShape
<1>6. Kept(now) = Kept(list)
  BY <1>5 DEF Kept
<1>7. /\ moved \in Seq(Client) /\ Len(moved) = Kept(list)
      /\ {moved[i] : i \in 1..Len(moved)} = {cache.list[i] : i \in 1..Len(cache.list)} \cup {key}
  <2>1. place \in Nat /\ place <= Len(cache.list)
    BY <1>1, <1>2
  <2> QED
    BY <1>1, <1>3, <2>1, FrontShape DEF Elements
<1>8. key \in {cache.list[i] : i \in 1..Len(cache.list)}
  BY <1>1, <1>2
<1>9. DOMAIN cache.items = {cache.list[i] : i \in 1..Len(cache.list)}
  BY <1>1 DEF Holds
<1> QED
  BY <1>3, <1>4, <1>6, <1>7, <1>8, <1>9

LEMMA HitHolds ==
    ASSUME NEW list \in Seq(Client), Distinct(list), NEW cache \in Cache, Holds(cache, list),
           NEW key \in DOMAIN cache.items
    PROVE  LET new == [cache EXCEPT !.list = ToFront(@, key)]
           IN  new \in Cache /\ Holds(new, ToFront(list, key)) /\ new.items = cache.items
<1> DEFINE new == [cache EXCEPT !.list = ToFront(@, key)]
<1>1. new.list = ToFront(cache.list, key) /\ new.items = cache.items
      /\ new = [list |-> new.list, items |-> new.items]
  BY CacheShape
<1> HIDE DEF new
<1>2. new.list \in Seq(Client) /\ Holds(new, ToFront(list, key))
  <2>1. /\ new.list \in Seq(Client)
        /\ new.list = SubSeq(ToFront(list, key), 1, Kept(ToFront(list, key)))
        /\ Kept(ToFront(list, key)) = Kept(list)
        /\ {new.list[i] : i \in 1..Kept(ToFront(list, key))} = DOMAIN new.items
    BY <1>1, KnownHeld
  <2> QED
    BY <2>1 DEF Holds
<1>3. DOMAIN new.items \subseteq Client /\ new.items \in [DOMAIN new.items -> Nat]
  BY <1>1, CacheShape
<1>4. new \in Cache
  BY <1>1, <1>2, <1>3, CacheShape
<1> QED
  BY <1>1, <1>2, <1>4 DEF new

LEMMA PutHolds ==
    ASSUME NEW list \in Seq(Client), Distinct(list), NEW cache \in Cache, Holds(cache, list),
           NEW key \in Client, NEW value \in Nat
    PROVE  LET new == Put(cache, key, value)
           IN  /\ new \in Cache /\ Holds(new, ToFront(list, key))
               /\ \A k \in DOMAIN new.items :
                    \/ k = key /\ new.items[k] = value
                    \/ k \in DOMAIN cache.items /\ new.items[k] = cache.items[k]
<1>1. /\ Kept(list) \in 0..Len(list) /\ Kept(list) <= Capacity /\ Len(list) \in Nat
      /\ cache.list \in Seq(Client) /\ Len(cache.list) = Kept(list) /\ Distinct(cache.list)
      /\ Capacity \in Nat \ {0}
  BY KeptShape, MatchingAssumption
<1> DEFINE items == Extended(cache.items, key, value)
           moved == ToFront(cache.list, key)
           now == ToFront(list, key)
           put == [list |-> moved, items |-> items]
<1>2. /\ DOMAIN items = DOMAIN cache.items \cup {key}
      /\ \A k \in DOMAIN items : items[k] = IF k = key THEN value ELSE cache.items[k]
  BY DEF Extended
<1>3. cache.items \in [DOMAIN cache.items -> Nat] /\ DOMAIN cache.items \subseteq Client
  BY CacheShape
<1>4. items \in [DOMAIN items -> Nat] /\ DOMAIN items \subseteq Client
  BY <1>2, <1>3 DEF Extended
<1> HIDE DEF items
<1>5. CASE key \in DOMAIN cache.items
  <2>1. /\ moved \in Seq(Client) /\ Len(moved) = Kept(list)
        /\ moved = SubSeq(now, 1, Kept(now)) /\ Kept(now) = Kept(list)
        /\ {moved[i] : i \in 1..Kept(now)} = DOMAIN cache.items
    BY <1>5, KnownHeld
  <2> HIDE DEF moved, now
  <2>2. Put(cache, key, value) = put
    BY <1>1, <2>1 DEF Put, moved, items
  <2>3. put.list = moved /\ put.items = items /\ DOMAIN items = DOMAIN cache.items
    BY <1>2, <1>5
  <2>4. Holds(put, now)
    BY <2>1, <2>3 DEF Holds
  <2>5. put \in Cache
    BY <1>4, <2>1, <2>3, CacheShape
  <2> QED
    BY <1>2, <1>5, <2>2, <2>3, <2>4, <2>5 DEF now
<1>6. CASE key \notin DOMAIN cache.items
  <2>1. \A i \in 1..Kept(list) : cache.list[i] # key
    BY <1>6 DEF Holds
  <2>2. \A i \in 1..Kept(list) : list[i] # key
    BY <2>1, KeptShape
  <2>3. /\ moved \in Seq(Client) /\ Distinct(moved) /\ Len(moved) = Kept(list) + 1
        /\ Len(moved) <= Capacity => moved = SubSeq(now, 1, Kept(now))
        /\ Len(moved) > Capacity => SubSeq(moved, 1, Len(moved) - 1) = SubSeq(now, 1, Kept(now))
    <3>1. cache.list = SubSeq(list, 1, Kept(list))
      BY DEF Holds
    <3> DEFINE kept == ToFront(SubSeq(list, 1, Kept(list)), key)
    <3>2. /\ kept \in Seq(Client) /\ Distinct(kept) /\ Len(kept) = Kept(list) + 1
          /\ Len(kept) <= Capacity => kept = SubSeq(now, 1, Kept(now))
          /\ Len(kept) > Capacity => SubSeq(kept, 1, Len(kept) - 1) = SubSeq(now, 1, Kept(now))
      BY <2>2, NewKept, Zenon
    <3>3. kept = moved
      BY <3>1, Zenon
    <3> HIDE DEF kept, moved, now
    <3> QED
      BY <3>2, <3>3
  <2>4. IsPlace(cache.list, key, Kept(list) + 1)
    BY <1>1, <2>1 DEF IsPlace
  <2>5. {moved[i] : i \in 1..Len(moved)} = {cache.list[i] : i \in 1..Kept(list)} \cup {key}
    <3>1. ~(Kept(list) + 1 <= Len(cache.list))
      BY <1>1
    <3> QED
      BY <1>1, <2>4, <3>1, FrontShape DEF Elements
  <2>6. DOMAIN items = {moved[i] : i \in 1..Len(moved)}
    BY <1>2, <2>5 DEF Holds
  <2>7. now \in Seq(Client) /\ Kept(now) \in 0..Len(now) /\ Len(now) \in Nat
    <3>1. PICK place : IsPlace(list, key, place)
      BY SomePlace
    <3>2. now \in Seq(Client)
      BY <3>1, FrontShape
    <3> QED
      BY <3>2, MatchingAssumption DEF Kept
  <2> HIDE DEF moved, now
  <2>8. Len(SubSeq(now, 1, Kept(now))) = Kept(now)
    BY <2>7
  <2>9. CASE Len(moved) <= Capacity
    <3>1. Put(cache, key, value) = put
      BY <1>1, <2>3, <2>9 DEF Put, moved, items
    <3>2. put.list = moved /\ put.items = items /\ Kept(now) = Len(moved)
      BY <2>3, <2>8, <2>9
    <3>3. Holds(put, now)
      BY <2>3, <2>6, <2>9, <3>2 DEF Holds
    <3>4. put \in Cache
      BY <1>4, <2>3, <3>2, CacheShape
    <3> QED
      BY <1>2, <3>1, <3>2, <3>3, <3>4 DEF now
  <2>10. CASE Len(moved) > Capacity
    <3> DEFINE last == Len(moved)
               oldest == moved[last]
               rest == SubSeq(moved, 1, last - 1)
               left == [k \in DOMAIN items \ {oldest} |-> items[k]]
               new == [list |-> rest, items |-> left]
    <3>1. Put(cache, key, value) = new
      BY <1>1, <2>3, <2>10 DEF Put, RemoveOldest, moved, items
    <3>2. last \in Nat \ {0}
      BY <1>1, <2>3
    <3>3. /\ rest \in Seq(Client) /\ Len(rest) = last - 1
          /\ \A i \in 1..last - 1 : rest[i] = moved[i]
      BY <2>3, <3>2
    <3>4. Kept(now) = last - 1 /\ rest = SubSeq(now, 1, Kept(now))
      BY <2>3, <2>8, <2>10, <3>3
    <3>5. DOMAIN items \ {oldest} = {moved[i] : i \in 1..last - 1}
      <4>1. \A i \in 1..last - 1 : i \in 1..last /\ moved[i] # oldest
        BY <2>3, <3>2 DEF Distinct
      <4>2. \A i \in 1..last : i # last => i \in 1..last - 1
        BY <3>2
      <4> QED
        BY <2>6, <4>1, <4>2
    <3> HIDE DEF last, oldest, rest
    <3>6. DOMAIN left = {rest[i] : i \in 1..last - 1}
      BY <3>3, <3>5
    <3>7. /\ new.list = rest /\ new.items = left
          /\ DOMAIN left \subseteq DOMAIN items /\ \A k \in DOMAIN left : left[k] = items[k]
      OBVIOUS
    <3>8. Holds(new, now)
      BY <3>4, <3>6, <3>7 DEF Holds
    <3>9. left \in [DOMAIN left -> Nat] /\ DOMAIN left \subseteq Client
      BY <1>4
    <3>10. new \in Cache
      BY <3>3, <3>7, <3>9, CacheShape
    <3> HIDE DEF left
    <3> QED
      BY <1>2, <3>1, <3>7, <3>8, <3>10 DEF now
  <2> QED
    BY <1>1, <2>3, <2>9, <2>10
<1> QED
  BY <1>5, <1>6

-----------------------------------------------------------------------------
(* The steps that use a cache.                                             *)

\* A request uses the cache of its matcher and goes by what the database says.
LEMMA CacheStep ==
    ASSUME MatchInv, NEW p \in Proc, request[p].at \in {"get", "put"},
           NEW m, m = request[p].matcher, NEW key, key = request[p].client,
           NEW new \in Cache, Of(new, request[p].box), Holds(new, ToFront(recent[m], key)),
           caches' = [caches EXCEPT ![m] = new],
           recent' = [recent EXCEPT ![m] = ToFront(recent[m], key)],
           MatchAsn(p, Asn[request[p].box][key]), UNCHANGED <<vars, inUse>>
    PROVE  MatchInv'
<1> DEFINE r == request[p]
           asn == Asn[r.box][r.client]
           rule == CurrentRule(p)
           matches == asn # 0 /\ asn \in rule.asns
           after == Match(p, matches)
<1>1. /\ r \in InHand /\ r # Idle /\ RequestOk(r) /\ TurnsOnAsn(r) /\ Busy(p)
      /\ r.box \in Version /\ r.rule <= Len(Rules[r.box]) /\ r.client \in Client
  BY InHandThere DEF MatchInv
<1>2. RequestInv /\ MatcherInv /\ HistoryInv /\ RecentKept
  BY DEF MatchInv
<1>3. /\ Len(caches) \in Nat /\ Len(recent) = Len(caches)
      /\ caches \in Seq(Cache) /\ recent \in Seq(Seq(Client))
      /\ DOMAIN caches = 1..Len(caches) /\ DOMAIN recent = 1..Len(caches)
  BY <1>2 DEF HistoryInv
<1>4. m \in 1..Len(caches)
  BY <1>1, <1>2, <1>3 DEF MatcherInv
<1>5. /\ caches' \in Seq(Cache) /\ Len(caches') = Len(caches) /\ caches'[m] = new
      /\ \A k \in 1..Len(caches) : k # m => caches'[k] = caches[k]
  BY <1>3, <1>4
<1>6. /\ recent[m] \in Seq(Client) /\ Distinct(recent[m])
  BY <1>2, <1>3, <1>4 DEF HistoryInv
<1>7. ToFront(recent[m], key) \in Seq(Client) /\ Distinct(ToFront(recent[m], key))
  <2>1. PICK place : IsPlace(recent[m], key, place)
    BY <1>1, <1>6, SomePlace
  <2> QED
    BY <1>1, <1>6, <2>1, FrontShape
<1>8. /\ recent' \in Seq(Seq(Client)) /\ Len(recent') = Len(caches)
      /\ recent'[m] = ToFront(recent[m], key)
      /\ \A k \in 1..Len(caches) : k # m => recent'[k] = recent[k]
  BY <1>3, <1>4, <1>7
<1>9. /\ after \in InHand /\ RequestOk(after) /\ after.box = r.box /\ after.matcher = r.matcher
  <2>1. rule = Rules[r.box][r.rule]
    BY <1>1 DEF CurrentRule, RulesOf
  <2>2. matches <=> Applies(rule, r.client, asn)
    BY <1>1, <2>1 DEF TurnsOnAsn, Applies
  <2>3. matches \in BOOLEAN
    OBVIOUS
  <2> HIDE DEF matches
  <2> QED
    BY <1>1, <2>2, <2>3, AfterRule
<1>10. Steps(p, after)
  BY DEF MatchAsn
<1> HIDE DEF after
<1>11. RequestInv'
  BY <1>2, <1>9, <1>10, RequestMoves
<1>12. MatcherInv'
  BY <1>1, <1>2, <1>5, <1>9, <1>10, MatchersStay
<1>13. HistoryInv'
  <2>1. ASSUME NEW k \in 1..Len(caches)
        PROVE  Distinct(recent'[k])
    <3>1. CASE k = m
      BY <1>7, <1>8, <3>1
    <3>2. CASE k # m
      BY <1>2, <1>3, <1>8, <3>2 DEF HistoryInv
    <3> QED
      BY <3>1, <3>2
  <2> QED
    BY <1>5, <1>8, <2>1 DEF HistoryInv
<1>14. RecentKept'
  <2>1. ASSUME NEW k \in 1..Len(caches)
        PROVE  Holds(caches'[k], recent'[k])
    <3>1. CASE k = m
      BY <1>5, <1>8, <3>1
    <3>2. CASE k # m
      <4>1. Holds(caches[k], recent[k])
        BY <1>2, <1>3, RecentHeld
      <4> QED
        BY <1>5, <1>8, <3>2, <4>1
    <3> QED
      BY <3>1, <3>2
  <2>2. DOMAIN caches' = 1..Len(caches)
    BY <1>5
  <2>3. ASSUME NEW k \in DOMAIN caches'
        PROVE  LET size == IF Len(recent'[k]) < Capacity THEN Len(recent'[k]) ELSE Capacity
               IN  /\ caches'[k].list = SubSeq(recent'[k], 1, size)
                   /\ DOMAIN caches'[k].items = {caches'[k].list[i] : i \in 1..size}
    <3>1. Holds(caches'[k], recent'[k])
      BY <2>1, <2>2
    <3> QED
      BY <3>1 DEF Holds, Kept
  <2> QED
    BY <2>3 DEF RecentKept
<1>15. IndInv'
  BY <1>2 DEF MatchInv, vars, IndInv, TypeOK, FileInv, BoxInv, RoundInv, NothingMissed
<1> QED
  BY <1>11, <1>12, <1>13, <1>14, <1>15 DEF MatchInv

\* What both steps find: the cache of the matcher, in step with its history.
LEMMA CacheAtHand ==
    ASSUME MatchInv, NEW p \in Proc, request[p].at \in {"get", "put"},
           NEW m, m = request[p].matcher
    PROVE  /\ m \in 1..Len(caches) /\ DOMAIN caches = 1..Len(caches)
           /\ DOMAIN recent = 1..Len(caches)
           /\ caches[m] \in Cache /\ recent[m] \in Seq(Client) /\ Distinct(recent[m])
           /\ Holds(caches[m], recent[m]) /\ Of(caches[m], request[p].box)
           /\ request[p].client \in Client /\ request[p].box \in Version
<1>1. Busy(p) /\ request[p].box \in Version /\ request[p].client \in Client
  BY InHandThere DEF MatchInv
<1>2. MatcherInv /\ HistoryInv /\ RecentKept
  BY DEF MatchInv
<1>3. /\ Len(caches) \in Nat /\ Len(recent) = Len(caches)
      /\ caches \in Seq(Cache) /\ recent \in Seq(Seq(Client))
      /\ DOMAIN caches = 1..Len(caches) /\ DOMAIN recent = 1..Len(caches)
  BY <1>2 DEF HistoryInv
<1>4. m \in 1..Len(caches) /\ Of(caches[m], request[p].box)
  BY <1>1, <1>2, <1>3 DEF MatcherInv
<1>5. Holds(caches[m], recent[m])
  BY <1>2, <1>3, <1>4, RecentHeld
<1>6. caches[m] \in Cache /\ recent[m] \in Seq(Client)
  BY <1>3, <1>4
<1>7. Distinct(recent[m])
  BY <1>2, <1>3, <1>4 DEF HistoryInv
<1> QED
  BY <1>1, <1>3, <1>4, <1>5, <1>6, <1>7

LEMMA HitKeeps == ASSUME MatchInv, NEW p \in Proc, Hit(p) PROVE MatchInv'
<1> DEFINE m == request[p].matcher
           key == request[p].client
           new == [caches[m] EXCEPT !.list = ToFront(@, key)]
<1>1. /\ request[p].at = "get" /\ key \in DOMAIN caches[m].items
      /\ caches' = [caches EXCEPT ![m].list = ToFront(@, key)]
      /\ recent' = [recent EXCEPT ![m] = ToFront(@, key)]
      /\ MatchAsn(p, caches[m].items[key]) /\ UNCHANGED <<vars, inUse>>
  BY DEF Hit, At, Use
<1>2. /\ m \in 1..Len(caches) /\ DOMAIN caches = 1..Len(caches) /\ DOMAIN recent = 1..Len(caches)
      /\ caches[m] \in Cache /\ recent[m] \in Seq(Client) /\ Distinct(recent[m])
      /\ Holds(caches[m], recent[m]) /\ Of(caches[m], request[p].box)
  BY <1>1, CacheAtHand
<1>3. caches' = [caches EXCEPT ![m] = new] /\ recent' = [recent EXCEPT ![m] = ToFront(recent[m], key)]
  BY <1>1, <1>2
<1>4. new \in Cache /\ Holds(new, ToFront(recent[m], key)) /\ new.items = caches[m].items
  BY <1>1, <1>2, HitHolds
<1> HIDE DEF new
<1>5. Of(new, request[p].box) /\ caches[m].items[key] = Asn[request[p].box][key]
  BY <1>1, <1>2, <1>4 DEF Of
<1>6. MatchAsn(p, Asn[request[p].box][key])
  BY <1>1, <1>5
<1> QED
  BY <1>1, <1>3, <1>4, <1>5, <1>6, CacheStep

LEMMA PutKeeps == ASSUME MatchInv, NEW p \in Proc, PutAsn(p) PROVE MatchInv'
<1> DEFINE m == request[p].matcher
           key == request[p].client
           asn == Asn[request[p].box][key]
           new == Put(caches[m], key, asn)
<1>1. /\ request[p].at = "put"
      /\ caches' = [caches EXCEPT ![m] = Put(@, key, asn)]
      /\ recent' = [recent EXCEPT ![m] = ToFront(@, key)]
      /\ MatchAsn(p, asn) /\ UNCHANGED <<vars, inUse>>
  BY DEF PutAsn, At, Use
<1>2. /\ m \in 1..Len(caches) /\ DOMAIN caches = 1..Len(caches) /\ DOMAIN recent = 1..Len(caches)
      /\ caches[m] \in Cache /\ recent[m] \in Seq(Client) /\ Distinct(recent[m])
      /\ Holds(caches[m], recent[m]) /\ Of(caches[m], request[p].box)
      /\ key \in Client /\ request[p].box \in Version
  BY <1>1, CacheAtHand
<1>3. caches' = [caches EXCEPT ![m] = new] /\ recent' = [recent EXCEPT ![m] = ToFront(recent[m], key)]
  BY <1>1, <1>2
<1>4. asn \in Nat
  BY <1>2, MatchingAssumption
<1> HIDE DEF asn
<1>5. /\ new \in Cache /\ Holds(new, ToFront(recent[m], key))
      /\ \A k \in DOMAIN new.items :
           \/ k = key /\ new.items[k] = asn
           \/ k \in DOMAIN caches[m].items /\ new.items[k] = caches[m].items[k]
  BY <1>2, <1>4, PutHolds
<1> HIDE DEF new
<1>6. Of(new, request[p].box)
  BY <1>2, <1>5 DEF Of, asn
<1>7. MatchAsn(p, Asn[request[p].box][key])
  BY <1>1 DEF asn
<1> QED
  BY <1>1, <1>3, <1>5, <1>6, <1>7, CacheStep

-----------------------------------------------------------------------------
(* The requests and the reloads together.                                  *)

LEMMA MatchNext ==
    ASSUME MatchInv, [(Next /\ Reloads) \/ Requests]_<<vars, matching>>
    PROVE  MatchInv'
<1>1. CASE Next /\ Reloads
  <2>1. IndInv'
    BY <1>1, NextInv DEF MatchInv
  <2> QED
    BY <1>1, <2>1, ReloadsKeep
<1>2. CASE Requests
  <2>1. PICK p \in Proc : Arrive(p) \/ Evaluate(p) \/ Hit(p) \/ Miss(p) \/ PutAsn(p) \/ Leave(p)
    BY <1>2 DEF Requests
  <2> QED
    BY <2>1, ArriveKeeps, EvaluateKeeps, HitKeeps, MissKeeps, PutKeeps, LeaveKeeps
<1>3. CASE UNCHANGED <<vars, matching>>
  <2>1. UNCHANGED <<vars, caches, inUse, request, recent>> /\ UNCHANGED <<box, pc, compiled>>
    BY <1>3 DEF matching, vars
  <2>2. RequestInv' /\ MatcherInv'
    <3>1. \A p \in Proc : RequestOk(request[p])'
      BY <2>1 DEF MatchInv, RequestInv, RequestOk, PassedOver, TurnsOnAsn
    <3>2. RequestInv'
      BY <2>1, <3>1 DEF MatchInv, RequestInv
    <3>3. MatcherInv'
      BY <2>1 DEF MatchInv, MatcherInv, Busy, Of
    <3> QED
      BY <3>2, <3>3
  <2> QED
    BY <2>1, <2>2, CachesRest DEF MatchInv
<1> QED
  BY <1>1, <1>2, <1>3

\* The requests of MatchSpec leave the loader to itself, and what they know of
\* the rules, of the caches and of the keys in them stays true.
THEOREM MatchInvariance == MatchSpec => []MatchInv
<1>1. MatchInit => MatchInv
  BY MatchStart
<1>2. MatchInv /\ [(Next /\ Reloads) \/ Requests]_<<vars, matching>> => MatchInv'
  BY MatchNext
<1> QED
  BY <1>1, <1>2, PTL DEF MatchSpec

\* Every request is decided by one version of the rules, with the networks and
\* the database of that version, and by one that was in force while the request
\* was handled: the handler loads the box once, and the cache that a request
\* uses holds what the database of its own version says, however reloads come
\* between its steps and whoever shares the cache.
THEOREM OneVersionDecides == MatchSpec => []DecidedByOne
<1>1. MatchInv => DecidedByOne
  <2> SUFFICES ASSUME MatchInv, NEW p \in Proc, At(p, "decided")
               PROVE  \E v \in request[p].inForce :
                        request[p].action = Verdict(v, request[p].client)
    BY DEF DecidedByOne
  <2>1. request[p] # Idle
    BY DEF Idle, At
  <2>2. RequestOk(request[p])
    BY DEF MatchInv, RequestInv
  <2> QED
    BY <2>1, <2>2 DEF RequestOk, At
<1> QED
  BY <1>1, MatchInvariance, PTL

\* The cache of every matcher holds the keys used last, as many as there is
\* room for, in its list and in its map: the list and the map of lru.go are
\* changed together, and the last of the list is what goes.
THEOREM LatestKept == MatchSpec => []RecentKept
<1>1. MatchInv => RecentKept
  BY DEF MatchInv
<1> QED
  BY <1>1, MatchInvariance, PTL

\* Whatever holds of the loader alone holds with requests on their way: they
\* read the box and change nothing of the loader's.
THEOREM LoaderGoesOn == MatchSpec => Spec
<1>1. MatchInit => Init
  BY DEF MatchInit
<1>2. [(Next /\ Reloads) \/ Requests]_<<vars, matching>> => [Next]_vars
  <2> SUFFICES ASSUME Requests PROVE UNCHANGED vars
    BY DEF matching
  <2> QED
    BY DEF Requests, Arrive, Evaluate, Hit, Miss, PutAsn, Leave
<1> QED
  BY <1>1, <1>2, PTL DEF MatchSpec, Spec

=============================================================================
