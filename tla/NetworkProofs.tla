---------------------------- MODULE NetworkProofs ----------------------------
(***************************************************************************)
(* Proofs about networks and what is decided by them, for families of any  *)
(* width, lists of any length, policies of any size, and any number of     *)
(* names that refer to each other in any way. In this order:               *)
(*   - the trie: it answers for the networks put into it, whatever their   *)
(*     order (InsertKeeps, Answering);                                     *)
(*   - the lists fetched again and again: the trie in the box answers for  *)
(*     one whole list (WholeListAlways), which is never taken away         *)
(*     (WipedNever);                                                       *)
(*   - the groups of a policy: the tries of a compiled policy answer for   *)
(*     all that its entries name (GroupsAreWhole);                         *)
(*   - its conditions and rules (RulesHaveTheirMeaning, RefusalsAreRight). *)
(***************************************************************************)
EXTENDS IPList, PolicyCompile, SequenceTheorems, TLAPS

-----------------------------------------------------------------------------
(* Nodes.                                                                  *)

\* What a network is, without the unions.
LEMMA NetShape ==
    ASSUME NEW net
    PROVE  net \in Net <=>
             /\ net = [family |-> net.family, ones |-> net.ones, bits |-> net.bits]
             /\ net.family \in Family
             /\ net.ones \in 0..Width[net.family]
             /\ net.bits \in [1..net.ones -> {0, 1}]
<1>1. net \in Net <=> \E family \in Family, ones \in Nat :
                        /\ ones \in 0..Width[family]
                        /\ net \in Network(family, ones)
  BY TrieAssumption DEF Net
<1>2. ASSUME NEW family \in Family, NEW ones \in 0..Width[family],
             net \in Network(family, ones)
      PROVE  /\ net = [family |-> net.family, ones |-> net.ones, bits |-> net.bits]
             /\ net.family = family /\ net.ones = ones
             /\ net.bits \in [1..ones -> {0, 1}]
  BY <1>2 DEF Network
<1>3. ASSUME net = [family |-> net.family, ones |-> net.ones, bits |-> net.bits],
             net.family \in Family, net.ones \in 0..Width[net.family],
             net.bits \in [1..net.ones -> {0, 1}]
      PROVE  net \in Network(net.family, net.ones)
  BY <1>3 DEF Network
<1>4. QED
  BY <1>1, <1>2, <1>3, TrieAssumption

\* The first bits of a network are a network.
LEMMA UptoNet ==
    ASSUME NEW net \in Net, NEW n \in 0..net.ones
    PROVE  /\ Upto(net, n) \in Net
           /\ Upto(net, n).family = net.family
           /\ Upto(net, n).ones = n
<1>1. /\ net.family \in Family /\ net.ones \in 0..Width[net.family]
      /\ net.bits \in [1..net.ones -> {0, 1}]
  BY NetShape
<1>2. [i \in 1..n |-> net.bits[i]] \in [1..n -> {0, 1}]
  BY <1>1, TrieAssumption
<1>3. n \in 0..Width[net.family]
  BY <1>1, TrieAssumption
<1>4. Upto(net, n) \in Network(net.family, n)
  BY <1>1, <1>2, <1>3 DEF Upto, Network
<1>5. Upto(net, n) \in Net
  BY <1>1, <1>3, <1>4 DEF Net
<1>6. QED
  BY <1>5 DEF Upto

\* A walk along the first bits of a network is the beginning of its walk.
LEMMA UptoUpto ==
    ASSUME NEW net \in Net, NEW n \in 0..net.ones, NEW m \in 0..n
    PROVE  Upto(Upto(net, n), m) = Upto(net, m)
<1>1. net.ones \in Nat
  BY NetShape, TrieAssumption
<1>2. \A i \in 1..m : Upto(net, n).bits[i] = net.bits[i]
  BY <1>1 DEF Upto
<1>3. [i \in 1..m |-> Upto(net, n).bits[i]] = [i \in 1..m |-> net.bits[i]]
  BY <1>2
<1>4. QED
  BY <1>3 DEF Upto

\* The walk along a network ends at it.
LEMMA UptoSelf ==
    ASSUME NEW net \in Net
    PROVE  Upto(net, net.ones) = net
<1>1. /\ net = [family |-> net.family, ones |-> net.ones, bits |-> net.bits]
      /\ net.bits \in [1..net.ones -> {0, 1}]
  BY NetShape
<1>2. [i \in 1..net.ones |-> net.bits[i]] = net.bits
  BY <1>1
<1>3. QED
  BY <1>1, <1>2 DEF Upto

\* A network covers an address if the walk along the address passes it.
LEMMA CoversUpto ==
    ASSUME NEW net \in Net, NEW address \in Net
    PROVE  Covers(net, address) <=>
             net.ones <= address.ones /\ Upto(address, net.ones) = net
<1>1. /\ net = [family |-> net.family, ones |-> net.ones, bits |-> net.bits]
      /\ net.bits \in [1..net.ones -> {0, 1}]
      /\ net.ones \in Nat /\ address.ones \in Nat
  BY NetShape, TrieAssumption
<1>2. (\A i \in 1..net.ones : net.bits[i] = address.bits[i])
        <=> net.bits = [i \in 1..net.ones |-> address.bits[i]]
  BY <1>1
<1>3. Upto(address, net.ones) = net
        <=> /\ address.family = net.family
            /\ [i \in 1..net.ones |-> address.bits[i]] = net.bits
  BY <1>1 DEF Upto
<1>4. QED
  BY <1>2, <1>3 DEF Covers

-----------------------------------------------------------------------------
(* The trie.                                                               *)

\* The trie holds the networks: each has a marked node on its walk, nothing
\* else is marked, and marked nodes can be reached.
Faithful(trie, nets) ==
    /\ trie \in Trie
    /\ trie.marked \subseteq nets
    /\ \A net \in nets : \E n \in 0..net.ones : Upto(net, n) \in trie.marked
    /\ \A node \in trie.marked : \A n \in 0..node.ones : Upto(node, n) \in trie.nodes

\* The empty trie holds nothing.
LEMMA EmptyFaithful == Faithful(EmptyTrie, {})
<1>1. ASSUME NEW family \in Family
      PROVE  Root(family) \in Net
  <2>1. Root(family) \in Network(family, 0)
    BY DEF Root, Network
  <2>2. 0 \in 0..Width[family]
    BY TrieAssumption
  <2>3. QED
    BY <2>1, <2>2 DEF Net
<1>2. QED
  BY <1>1 DEF Faithful, EmptyTrie, Trie

\* Insert adds its network, whether it marks a node or finds one marked.
THEOREM InsertKeeps ==
    ASSUME NEW trie, NEW nets, NEW net \in Net, nets \subseteq Net, Faithful(trie, nets)
    PROVE  Faithful(Insert(trie, net), nets \cup {net})
<1> DEFINE after == Insert(trie, net)
<1>1. net.ones \in Nat /\ trie \in Trie
  BY NetShape, TrieAssumption DEF Faithful
<1>2. /\ after.nodes = trie.nodes \cup
           {Upto(net, n) : n \in {k \in 0..net.ones : WalksTo(trie, net, k)}}
      /\ after.marked = IF WalksTo(trie, net, net.ones + 1)
                        THEN trie.marked \cup {net} ELSE trie.marked
      /\ after = [nodes |-> after.nodes, marked |-> after.marked]
  BY DEF Insert
<1>3. \A n \in 0..net.ones : Upto(net, n) \in Net
  BY UptoNet
<1>4. after \in Trie
  BY <1>1, <1>2, <1>3 DEF Trie
<1>5. after.marked \subseteq nets \cup {net}
  BY <1>2 DEF Faithful
<1>6. trie.marked \subseteq after.marked /\ trie.nodes \subseteq after.nodes
  BY <1>2
<1>7. \E n \in 0..net.ones : Upto(net, n) \in after.marked
  <2>1. CASE WalksTo(trie, net, net.ones + 1)
    BY <2>1, <1>1, <1>2, UptoSelf
  <2>2. CASE ~WalksTo(trie, net, net.ones + 1)
    <3>1. PICK m \in 1..((net.ones + 1) - 1) : Upto(net, m) \in trie.marked
      BY <2>2 DEF WalksTo
    <3>2. m \in 0..net.ones
      BY <1>1
    <3>3. QED
      BY <3>1, <3>2, <1>6
  <2>3. QED
    BY <2>1, <2>2
<1>8. \A other \in nets \cup {net} :
        \E n \in 0..other.ones : Upto(other, n) \in after.marked
  BY <1>6, <1>7 DEF Faithful
<1>9. ASSUME NEW node \in after.marked, NEW n \in 0..node.ones
      PROVE  Upto(node, n) \in after.nodes
  <2>1. CASE node \in trie.marked
    BY <2>1, <1>6 DEF Faithful
  <2>2. CASE node \notin trie.marked
    <3>1. node = net /\ WalksTo(trie, net, net.ones + 1)
      BY <2>2, <1>2
    <3>2. n \in 0..net.ones /\ WalksTo(trie, net, n)
      BY <3>1, <1>1 DEF WalksTo
    <3>3. QED
      BY <3>1, <3>2, <1>2
  <2>3. QED
    BY <2>1, <2>2
<1>10. QED
  BY <1>4, <1>5, <1>8, <1>9 DEF Faithful

\* Contains finds an address exactly when one of the networks put into the
\* trie covers it.
THEOREM Answering ==
    ASSUME NEW trie, NEW nets, nets \subseteq Net, Faithful(trie, nets)
    PROVE  Answers(trie, nets)
<1> SUFFICES ASSUME NEW address \in Address
             PROVE  Contains(trie, address) <=> \E net \in nets : Covers(net, address)
  BY DEF Answers
<1>1. address \in Net /\ address.ones \in Nat
  BY NetShape, TrieAssumption DEF Address
<1>2. ASSUME Contains(trie, address)
      PROVE  \E net \in nets : Covers(net, address)
  <2>1. PICK n \in 0..address.ones : Upto(address, n) \in trie.marked
    BY <1>2 DEF Contains
  <2>2. Upto(address, n) \in nets /\ Upto(address, n) \in Net
    BY <2>1 DEF Faithful
  <2>3. Upto(address, n).ones = n
    BY <1>1, UptoNet
  <2>4. Covers(Upto(address, n), address)
    BY <1>1, <2>2, <2>3, CoversUpto
  <2>5. QED
    BY <2>2, <2>4
<1>3. ASSUME NEW net \in nets, Covers(net, address)
      PROVE  Contains(trie, address)
  <2>1. net \in Net /\ net.ones \in Nat
    BY NetShape, TrieAssumption
  <2>2. net.ones <= address.ones /\ Upto(address, net.ones) = net
    BY <1>1, <1>3, <2>1, CoversUpto
  <2>3. PICK n \in 0..net.ones : Upto(net, n) \in trie.marked
    BY DEF Faithful
  <2>4. net.ones \in 0..address.ones /\ n \in 0..address.ones
    BY <1>1, <2>1, <2>2
  <2>5. Upto(net, n) = Upto(address, n)
    BY <1>1, <2>2, <2>4, UptoUpto
  <2>6. ASSUME NEW m \in 0..n
        PROVE  Upto(address, m) \in trie.nodes
    <3>1. Upto(address, n).ones = n
      BY <1>1, <2>4, UptoNet
    <3>2. Upto(Upto(address, n), m) \in trie.nodes
      BY <2>3, <2>5, <3>1 DEF Faithful
    <3>3. Upto(Upto(address, n), m) = Upto(address, m)
      BY <1>1, <2>4, UptoUpto
    <3>4. QED
      BY <3>2, <3>3
  <2>7. QED
    BY <2>3, <2>4, <2>5, <2>6 DEF Contains
<1>4. QED
  BY <1>2, <1>3

\* Every network covers some address.
LEMMA SomeCovered ==
    ASSUME NEW net \in Net
    PROVE  \E address \in Address : Covers(net, address)
<1> DEFINE width == Width[net.family]
           full == [i \in 1..width |-> IF i <= net.ones THEN net.bits[i] ELSE 0]
           address == [family |-> net.family, ones |-> width, bits |-> full]
<1>1. /\ net.family \in Family /\ width \in Nat /\ net.ones \in 0..width
      /\ net.bits \in [1..net.ones -> {0, 1}]
  BY NetShape, TrieAssumption
<1>2. full \in [1..width -> {0, 1}]
  BY <1>1
<1>3. address \in Net
  BY <1>1, <1>2, NetShape
<1>4. address \in Address
  BY <1>3 DEF Address
<1>5. \A i \in 1..net.ones : net.bits[i] = address.bits[i]
  BY <1>1
<1>6. Covers(net, address)
  BY <1>1, <1>5 DEF Covers
<1>7. QED
  BY <1>4, <1>6

-----------------------------------------------------------------------------
(* The fetched list.                                                       *)

\* The networks of the lines that have been read.
ReadNets == {list[i] : i \in 1..line} \ {NoNet}

\* A fetch under way has put into its trie what it has read, and has counted
\* something if that is anything.
BuildingInv ==
    pc = "read" => /\ Faithful(building, ReadNets)
                   /\ count > 0 => ReadNets # {}

\* The trie in the box holds a whole list that is not empty.
BoxInv == box # Unset => Faithful(box, source) /\ source # {}

ListInv == TypeOK /\ BuildingInv /\ BoxInv

\* What the lines of a list are.
LEMMA Lines ==
    ASSUME NEW lines \in Lists \cup {<<>>}
    PROVE  /\ lines \in Seq(Net \cup {NoNet})
           /\ Len(lines) \in Nat
           /\ \A i \in 1..Len(lines) : lines[i] \in Net \cup {NoNet}
           /\ NetsOf(lines) = {lines[i] : i \in 1..Len(lines)} \ {NoNet}
           /\ NetsOf(lines) \subseteq Net
<1>1. lines \in Seq(Net \cup {NoNet})
  <2>1. CASE lines = <<>>
    BY <2>1
  <2>2. CASE lines \in Lists
    BY <2>2, ListAssumption
  <2>3. QED
    BY <2>1, <2>2
<1>2. /\ Len(lines) \in Nat /\ DOMAIN lines = 1..Len(lines)
      /\ \A i \in 1..Len(lines) : lines[i] \in Net \cup {NoNet}
  BY <1>1
<1>3. QED
  BY <1>1, <1>2 DEF NetsOf

LEMMA InitInv == Init => ListInv
<1> SUFFICES ASSUME Init PROVE ListInv
  OBVIOUS
<1>1. EmptyTrie \in Trie
  BY EmptyFaithful DEF Faithful
<1>2. TypeOK
  BY <1>1, ListAssumption DEF Init, TypeOK
<1>3. BuildingInv /\ BoxInv
  BY DEF Init, BuildingInv, BoxInv
<1>4. QED
  BY <1>2, <1>3 DEF ListInv

\* The trie of a fetch that reads one more line.
LEMMA ReadLineInv == ListInv /\ ReadLine => ListInv'
<1> SUFFICES ASSUME ListInv, ReadLine PROVE ListInv'
  OBVIOUS
<1>1. /\ pc = "read" /\ pc' = "read" /\ line' = line + 1 /\ list' = list
      /\ line \in Nat /\ count \in Nat /\ line + 1 \in 1..Len(list)
      /\ Faithful(building, ReadNets) /\ (count > 0 => ReadNets # {})
      /\ list \in Lists \cup {<<>>}
  BY Lines DEF ListInv, TypeOK, BuildingInv, ReadLine
<1>2. list[line + 1] \in Net \cup {NoNet} /\ ReadNets \subseteq Net
  BY <1>1, Lines DEF ReadNets
<1>3. ReadNets' = IF list[line + 1] = NoNet THEN ReadNets
                  ELSE ReadNets \cup {list[line + 1]}
  <2>1. 1..(line + 1) = (1..line) \cup {line + 1}
    BY <1>1
  <2>2. QED
    BY <1>1, <2>1 DEF ReadNets
<1>4. Faithful(building', ReadNets') /\ (count' > 0 => ReadNets' # {})
  <2>1. CASE list[line + 1] = NoNet
    BY <1>1, <1>3, <2>1 DEF ReadLine
  <2>2. CASE list[line + 1] # NoNet
    <3>1. list[line + 1] \in Net
      BY <1>2, <2>2
    <3>2. Faithful(Insert(building, list[line + 1]), ReadNets \cup {list[line + 1]})
      BY <1>1, <1>2, <3>1, InsertKeeps
    <3>3. building' = Insert(building, list[line + 1])
      BY <2>2 DEF ReadLine
    <3>4. ReadNets' = ReadNets \cup {list[line + 1]}
      BY <1>3, <2>2
    <3>5. QED
      BY <3>2, <3>3, <3>4
  <2>3. QED
    BY <2>1, <2>2
<1>5. BuildingInv'
  BY <1>4 DEF BuildingInv
<1>6. building' \in Trie
  BY <1>4 DEF Faithful
<1>7. TypeOK'
  <2>1. line' \in 0..Len(list') /\ count' \in 0..line'
    BY <1>1, Lines DEF ListInv, TypeOK, ReadLine
  <2>2. QED
    BY <1>6, <2>1 DEF ListInv, TypeOK, ReadLine
<1>8. BoxInv'
  BY DEF ListInv, BoxInv, ReadLine
<1>9. QED
  BY <1>5, <1>7, <1>8 DEF ListInv

\* The trie of a fetch that has read its whole list takes the box.
LEMMA TakeInv == ListInv /\ Take => ListInv'
<1> SUFFICES ASSUME ListInv, Take PROVE ListInv'
  OBVIOUS
<1>1. /\ pc = "read" /\ line = Len(list) /\ count > 0
      /\ list \in Lists \cup {<<>>}
      /\ Faithful(building, ReadNets) /\ ReadNets # {}
  BY DEF ListInv, TypeOK, BuildingInv, Take
<1>2. ReadNets = NetsOf(list) /\ NetsOf(list) \subseteq Net
  BY <1>1, Lines DEF ReadNets
<1>3. box' = building /\ source' = NetsOf(list)
  BY DEF Take
<1>4. BoxInv'
  BY <1>1, <1>2, <1>3 DEF BoxInv
<1>5. pc' \in {"sleep", "done"}
  BY DEF Take, Rest
<1>6. TypeOK'
  BY <1>2, <1>3, <1>5 DEF ListInv, TypeOK, Take, reading
<1>7. BuildingInv'
  BY <1>5 DEF BuildingInv
<1>8. QED
  BY <1>4, <1>6, <1>7 DEF ListInv

\* Every step keeps the invariant.
LEMMA NextInv == ListInv /\ [Next]_vars => ListInv'
<1> SUFFICES ASSUME ListInv, [Next]_vars PROVE ListInv'
  OBVIOUS
<1>1. CASE Publish
  BY <1>1, ListAssumption
  DEF ListInv, TypeOK, BuildingInv, BoxInv, ReadNets, Publish, reading
<1>2. CASE Fetch
  <2>1. EmptyTrie \in Trie /\ Faithful(EmptyTrie, {})
    BY EmptyFaithful DEF Faithful
  <2>2. ReadNets' = {} /\ building' = EmptyTrie /\ count' = 0
    BY <1>2 DEF ReadNets, Fetch
  <2>3. BuildingInv'
    BY <2>1, <2>2 DEF BuildingInv
  <2>4. Len(served) \in Nat
    BY Lines DEF ListInv, TypeOK
  <2>5. TypeOK' /\ BoxInv'
    BY <1>2, <2>1, <2>4 DEF ListInv, TypeOK, BoxInv, Fetch
  <2>6. QED
    BY <2>3, <2>5 DEF ListInv
<1>3. CASE ReadLine
  BY <1>3, ReadLineInv
<1>4. CASE Take
  BY <1>4, TakeInv
<1>5. CASE Refuse
  BY <1>5 DEF ListInv, TypeOK, BuildingInv, BoxInv, Refuse, Rest, reading
<1>6. CASE Fail
  BY <1>6, ListAssumption
  DEF ListInv, TypeOK, BuildingInv, BoxInv, Fail, Rest, reading
<1>7. CASE Wake
  BY <1>7 DEF ListInv, TypeOK, BuildingInv, BoxInv, Wake, reading
<1>8. CASE UNCHANGED vars
  BY <1>8 DEF ListInv, TypeOK, BuildingInv, BoxInv, ReadNets, vars
<1>9. QED
  BY <1>1, <1>2, <1>3, <1>4, <1>5, <1>6, <1>7, <1>8 DEF Next

THEOREM Invariance == Spec => []ListInv
BY InitInv, NextInv, PTL DEF Spec

\* The variables of the fetcher (startTorExitFetcher, startBlacklistFetcher)
\* keep their shape.
THEOREM TypeCorrect == Spec => []TypeOK
<1>1. ListInv => TypeOK
  BY DEF ListInv
<1>2. QED
  BY <1>1, Invariance, PTL

\* At any time Contains answers for one whole list (parseIPList, Insert).
THEOREM WholeListAlways == Spec => []WholeList
<1>1. ASSUME ListInv PROVE WholeList
  BY <1>1, Answering DEF ListInv, TypeOK, BoxInv, WholeList
<1>2. QED
  BY <1>1, Invariance, PTL

\* Once there is a list there is always one, and it contains an address.
THEOREM WipedNever == Spec => NeverWiped
<1> DEFINE Kept == box # Unset =>
                     box' # Unset /\ \E a \in Address : Contains(box', a)
<1>1. ASSUME ListInv, ListInv', [Next]_vars PROVE [Kept]_vars
  <2>1. ASSUME box # Unset PROVE box' # Unset
    <3>1. building \in Trie /\ building # Unset
      BY <1>1, ListAssumption DEF ListInv, TypeOK
    <3>2. box' \in {box, building}
      BY <1>1 DEF Next, Publish, Fetch, ReadLine, Take, Refuse, Fail, Wake, vars
    <3>3. QED
      BY <2>1, <3>1, <3>2
  <2>2. ASSUME box' # Unset PROVE \E a \in Address : Contains(box', a)
    <3>1. Faithful(box', source') /\ source' # {} /\ source' \subseteq Net
      BY <1>1, <2>2 DEF ListInv, TypeOK, BoxInv
    <3>2. PICK net \in source' : TRUE
      BY <3>1
    <3>3. net \in Net
      BY <3>1, <3>2
    <3>4. PICK a \in Address : Covers(net, a)
      BY <3>3, SomeCovered
    <3>5. Answers(box', source')
      BY <3>1, Answering
    <3>6. Contains(box', a)
      BY <3>2, <3>4, <3>5 DEF Answers
    <3>7. QED
      BY <3>6
  <2>3. QED
    BY <2>1, <2>2
<1>2. QED
  BY <1>1, Invariance, NextInv, PTL DEF Spec, NeverWiped

-----------------------------------------------------------------------------
(* What a sequence holds.                                                  *)

LEMMA ElementsOf ==
    ASSUME NEW S, NEW seq \in Seq(S)
    PROVE  /\ Elements(seq) = {seq[i] : i \in 1..Len(seq)}
           /\ Elements(seq) \subseteq S
  BY DEF Elements

LEMMA ElementsConcat ==
    ASSUME NEW S, NEW s \in Seq(S), NEW t \in Seq(S)
    PROVE  Elements(s \o t) = Elements(s) \cup Elements(t)
<1>1. /\ s \o t \in Seq(S) /\ Len(s \o t) = Len(s) + Len(t)
      /\ Len(s) \in Nat /\ Len(t) \in Nat
      /\ \A i \in 1..Len(s) + Len(t) :
           (s \o t)[i] = IF i <= Len(s) THEN s[i] ELSE t[i - Len(s)]
  BY ConcatProperties
<1>2. ASSUME NEW i \in 1..Len(t)
      PROVE  i + Len(s) \in 1..Len(s) + Len(t) /\ (s \o t)[i + Len(s)] = t[i]
  BY <1>1
<1>3. ASSUME NEW i \in 1..Len(s)
      PROVE  i \in 1..Len(s) + Len(t) /\ (s \o t)[i] = s[i]
  BY <1>1
<1>4. ASSUME NEW i \in 1..Len(s) + Len(t)
      PROVE  \/ i \in 1..Len(s) /\ (s \o t)[i] = s[i]
             \/ i - Len(s) \in 1..Len(t) /\ (s \o t)[i] = t[i - Len(s)]
  BY <1>1
<1>5. /\ Elements(s \o t) = {(s \o t)[i] : i \in 1..Len(s) + Len(t)}
      /\ Elements(s) = {s[i] : i \in 1..Len(s)} /\ Elements(t) = {t[i] : i \in 1..Len(t)}
  BY <1>1, ElementsOf
<1> QED
  BY <1>2, <1>3, <1>4, <1>5

LEMMA ElementsHead ==
    ASSUME NEW S, NEW seq \in Seq(S), seq # <<>>
    PROVE  /\ Head(seq) \in S /\ Tail(seq) \in Seq(S)
           /\ Elements(seq) = {Head(seq)} \cup Elements(Tail(seq))
<1>1. /\ Head(seq) = seq[1] /\ Tail(seq) \in Seq(S) /\ Len(seq) \in Nat /\ Len(seq) >= 1
      /\ Head(seq) \in S /\ Len(Tail(seq)) = Len(seq) - 1
      /\ \A i \in 1..Len(Tail(seq)) : Tail(seq)[i] = seq[i + 1]
  BY HeadTailProperties
<1>2. ASSUME NEW i \in 1..Len(seq)
      PROVE  i = 1 \/ (i - 1 \in 1..Len(Tail(seq)) /\ Tail(seq)[i - 1] = seq[i])
  BY <1>1
<1>3. ASSUME NEW i \in 1..Len(Tail(seq))
      PROVE  i + 1 \in 1..Len(seq) /\ Tail(seq)[i] = seq[i + 1]
  BY <1>1
<1>4. /\ Elements(seq) = {seq[i] : i \in 1..Len(seq)}
      /\ Elements(Tail(seq)) = {Tail(seq)[i] : i \in 1..Len(Tail(seq))}
  BY <1>1, ElementsOf
<1>5. \A i \in 1..Len(seq) : seq[i] \in {Head(seq)} \cup Elements(Tail(seq))
  BY <1>1, <1>2, <1>4
<1>6. \A i \in 1..Len(Tail(seq)) : Tail(seq)[i] \in Elements(seq)
  BY <1>3, <1>4
<1>7. Head(seq) \in Elements(seq)
  BY <1>1, <1>4
<1> QED
  BY <1>1, <1>4, <1>5, <1>6, <1>7

-----------------------------------------------------------------------------
(* The networks of the groups.                                             *)

\* A group is being built.
Building == stage \in {"entry", "whois", "fetch"}

\* What whois gave for an entry, and all that the entries of a group give, up
\* to one of them or altogether.
RouteNets(g, i) ==
    IF policy.networks[g][i].asn /\ policy.whois # "off" /\ <<g, i>> \notin lost
    THEN Elements(policy.networks[g][i].routes) ELSE {}

NetsUpto(g, n) == UNION {EntryNets(g, i) : i \in 1..n}

GroupNets(g) == UNION {EntryNets(g, i) : i \in DOMAIN policy.networks[g]}

\* What the group being built holds once the queue is empty.
Wanted ==
    CASE stage = "entry" -> NetsUpto(group, entry)
      [] stage = "whois" -> NetsUpto(group, entry - 1)
      [] stage = "fetch" -> NetsUpto(group, entry - 1) \cup RouteNets(group, entry)

\* A trie and networks that are yet to go into it make up a set of networks.
MakeUp(trie, more, nets) ==
    \E held \in SUBSET Net : Faithful(trie, held) /\ held \cup (Elements(more) \ {NoPrefix}) = nets

\* Where the compilation of the groups is.
PlaceInv ==
    /\ IsPolicy(policy)
    /\ DOMAIN tries \subseteq DOMAIN policy.networks
    /\ queue \in Seq(Line)
    /\ stage \in {"read", "group", "whois"} => queue = <<>>
    /\ Building => /\ group \in DOMAIN tries
                   /\ entry \in 0..Len(Entries)
                   /\ stage # "entry" => entry # 0
    /\ stage \in {"conditions", "rules", "done"} => DOMAIN policy.networks \subseteq DOMAIN tries

\* Only entries that have been looked up are lost.
LostInv ==
    /\ \A lookup \in lost :
         /\ lookup[1] \in DOMAIN tries
         /\ Building /\ lookup[1] = group =>
              lookup[2] \in 1..entry /\ (stage = "whois" => lookup[2] # entry)
    /\ policy.whois = "strict" => lost = {}

\* The tries hold what they should.
TriesInv ==
    /\ Building => MakeUp(tries[group], queue, Wanted)
    /\ stage # "failed" =>
         \A g \in DOMAIN tries :
             (Building /\ g = group) \/ Faithful(tries[g], GroupNets(g))

GroupInv == PlaceInv /\ LostInv /\ TriesInv

\* What is known of an entry.
LEMMA EntryShape ==
    ASSUME IsPolicy(policy), NEW g \in DOMAIN policy.networks
    PROVE  /\ Len(policy.networks[g]) \in Nat
           /\ DOMAIN policy.networks[g] = 1..Len(policy.networks[g])
           /\ \A i \in 1..Len(policy.networks[g]) : policy.networks[g][i] \in NetworkEntry
  BY DEF IsPolicy

LEMMA EntryParts ==
    ASSUME NEW e \in NetworkEntry
    PROVE  /\ Elements(e.inline) \subseteq Line /\ Elements(e.lines) \subseteq Line
           /\ Elements(e.routes) \subseteq Net /\ e.routes \in Seq(Line)
           /\ Prefixes(e) \in Seq(Line)
           /\ Elements(Prefixes(e)) =
                Elements(e.inline) \cup IF e.source = "none" THEN {} ELSE Elements(e.lines)
<1>1. e.inline \in Seq(Line) /\ e.lines \in Seq(Line) /\ e.routes \in Seq(Net)
  BY DEF NetworkEntry
<1>2. e.routes \in Seq(Line)
  BY <1>1 DEF Line
<1> DEFINE lines == IF e.source = "none" THEN <<>> ELSE e.lines
<1>3. lines \in Seq(Line)
  BY <1>1
<1>4. Elements(lines) = IF e.source = "none" THEN {} ELSE Elements(e.lines)
  BY DEF Elements
<1> HIDE DEF lines
<1>5. e.inline \o lines \in Seq(Line)
  BY <1>1, <1>3, ConcatProperties
<1>6. Elements(e.inline \o lines) = Elements(e.inline) \cup Elements(lines)
  BY <1>1, <1>3, ElementsConcat
<1>7. Prefixes(e) = e.inline \o lines
  BY DEF Prefixes, lines
<1> QED
  BY <1>1, <1>2, <1>4, <1>5, <1>6, <1>7, ElementsOf

LEMMA EntryNetsNet ==
    ASSUME IsPolicy(policy), NEW g \in DOMAIN policy.networks,
           NEW i \in 1..Len(policy.networks[g])
    PROVE  /\ EntryNets(g, i) \subseteq Net
           /\ EntryNets(g, i) =
                RouteNets(g, i) \cup (Elements(Prefixes(policy.networks[g][i])) \ {NoPrefix})
           /\ RouteNets(g, i) \subseteq Net
<1> DEFINE e == policy.networks[g][i]
<1>1. e \in NetworkEntry
  BY EntryShape
<1>2. /\ EntryNets(g, i) =
           (UNION {Elements(e.inline),
                   IF e.source = "none" THEN {} ELSE Elements(e.lines),
                   IF e.asn /\ policy.whois # "off" /\ <<g, i>> \notin lost
                   THEN Elements(e.routes) ELSE {}}) \ {NoPrefix}
      /\ RouteNets(g, i) = IF e.asn /\ policy.whois # "off" /\ <<g, i>> \notin lost
                           THEN Elements(e.routes) ELSE {}
  BY DEF EntryNets, RouteNets
<1> HIDE DEF e
<1>3. RouteNets(g, i) \subseteq Net /\ NoPrefix \notin RouteNets(g, i)
  BY <1>1, <1>2, EntryParts, PrefixAssumption
<1>4. Elements(Prefixes(e)) =
        Elements(e.inline) \cup IF e.source = "none" THEN {} ELSE Elements(e.lines)
  BY <1>1, EntryParts
<1>5. EntryNets(g, i) = RouteNets(g, i) \cup (Elements(Prefixes(e)) \ {NoPrefix})
  BY <1>2, <1>3, <1>4
<1>6. Elements(Prefixes(e)) \ {NoPrefix} \subseteq Net
  BY <1>1, <1>4, EntryParts DEF Line
<1> QED
  BY <1>3, <1>5, <1>6 DEF e

\* One more entry.
LEMMA NetsUptoNext ==
    ASSUME NEW g, NEW n \in Nat
    PROVE  /\ NetsUpto(g, n + 1) = NetsUpto(g, n) \cup EntryNets(g, n + 1)
           /\ NetsUpto(g, 0) = {}
<1>1. 1..n + 1 = (1..n) \cup {n + 1}
  OBVIOUS
<1> QED
  BY <1>1 DEF NetsUpto

-----------------------------------------------------------------------------
(* Every step keeps the groups.                                            *)

\* The steps of conditions and rules leave the networks alone.
LEMMA LaterSteps ==
    ASSUME GroupInv, stage \in {"conditions", "rules", "done", "failed"},
           UNCHANGED <<policy, networking>>, stage' \in {"conditions", "rules", "done", "failed"},
           stage = "failed" => stage' = "failed"
    PROVE  GroupInv'
<1>1. /\ UNCHANGED <<policy, group, entry, queue, tries, lost>>
      /\ ~Building /\ ~Building'
  BY DEF networking, Building
<1>2. PlaceInv'
  BY <1>1 DEF GroupInv, PlaceInv, Line
<1>3. LostInv'
  BY <1>1 DEF GroupInv, LostInv
<1>4. \A g : GroupNets(g)' = GroupNets(g)
  BY <1>1 DEF GroupNets, EntryNets
<1>5. TriesInv'
  BY <1>1, <1>4 DEF GroupInv, TriesInv
<1> QED
  BY <1>2, <1>3, <1>5 DEF GroupInv

\* A failure: nothing is said of the tries any more.
LEMMA Failing ==
    ASSUME GroupInv, stage' = "failed",
           UNCHANGED <<policy, group, entry, tries, lost, queue>>
    PROVE  GroupInv'
<1>1. ~Building'
  BY DEF Building
<1> QED
  BY <1>1 DEF GroupInv, PlaceInv, LostInv, TriesInv, Line

LEMMA ReadKeeps ==
    ASSUME GroupInv, Read
    PROVE  GroupInv'
<1>1. /\ UNCHANGED <<policy, group, entry, queue, tries, lost>>
      /\ stage = "read" /\ stage' = "group" /\ ~Building /\ ~Building'
  BY DEF Read, networking, Building
<1>2. \A g : GroupNets(g)' = GroupNets(g)
  BY <1>1 DEF GroupNets, EntryNets
<1> QED
  BY <1>1, <1>2 DEF GroupInv, PlaceInv, LostInv, TriesInv, Line

\* A group that is begun holds nothing yet.
LEMMA NextGroupKeeps ==
    ASSUME GroupInv, NextGroup
    PROVE  GroupInv'
<1>1. PICK g \in DOMAIN policy.networks \ DOMAIN tries :
        group' = g /\ tries' = Extended(tries, g, EmptyTrie)
  BY DEF NextGroup
<1>2. /\ stage = "group" /\ stage' = "entry" /\ entry' = 0
      /\ policy' = policy /\ queue' = queue /\ lost' = lost /\ queue = <<>>
  BY DEF NextGroup, GroupInv, PlaceInv
<1>3. /\ DOMAIN tries' = DOMAIN tries \cup {g} /\ tries'[g] = EmptyTrie
      /\ \A h \in DOMAIN tries : tries'[h] = tries[h]
  BY <1>1 DEF Extended
<1>4. /\ ~Building /\ Building'
  BY <1>2 DEF Building
<1>5. Len(policy.networks[g]) \in Nat
  BY <1>1, EntryShape DEF GroupInv, PlaceInv
<1>6. PlaceInv'
  BY <1>1, <1>2, <1>3, <1>4, <1>5 DEF GroupInv, PlaceInv, Entries, Line
<1>7. LostInv'
  BY <1>1, <1>2, <1>3, <1>4 DEF GroupInv, LostInv
<1>8. \A h : GroupNets(h)' = GroupNets(h)
  BY <1>2 DEF GroupNets, EntryNets
<1>9. MakeUp(tries'[group'], queue', {})
  <2>1. Faithful(EmptyTrie, {}) /\ Elements(<<>>) = {}
    BY EmptyFaithful DEF Elements
  <2> QED
    BY <1>1, <1>2, <1>3, <2>1 DEF MakeUp
<1>10. Wanted' = {}
  BY <1>2 DEF Wanted, NetsUpto
<1>11. TriesInv'
  BY <1>1, <1>2, <1>3, <1>4, <1>8, <1>9, <1>10 DEF GroupInv, TriesInv, MakeUp
<1> QED
  BY <1>6, <1>7, <1>11 DEF GroupInv

LEMMA AllGroupsKeeps ==
    ASSUME GroupInv, AllGroups
    PROVE  GroupInv'
<1>1. /\ UNCHANGED <<policy, group, entry, queue, tries, lost>>
      /\ stage = "group" /\ stage' = "conditions" /\ ~Building /\ ~Building'
      /\ DOMAIN policy.networks \subseteq DOMAIN tries
  BY DEF AllGroups, networking, Building
<1>2. \A g : GroupNets(g)' = GroupNets(g)
  BY <1>1 DEF GroupNets, EntryNets
<1> QED
  BY <1>1, <1>2 DEF GroupInv, PlaceInv, LostInv, TriesInv, Line

\* The next entry, or the end of the group, which then holds all of it.
LEMMA NextEntryKeeps ==
    ASSUME GroupInv, NextEntry
    PROVE  GroupInv'
<1>1. /\ UNCHANGED <<policy, group, queue, tries, lost>>
      /\ stage = "entry" /\ queue = <<>> /\ Building
      /\ IF entry < Len(Entries) THEN entry' = entry + 1 /\ stage' = "whois"
         ELSE stage' = "group" /\ entry' = entry
  BY DEF NextEntry, Building
<1>2. /\ IsPolicy(policy) /\ group \in DOMAIN policy.networks
      /\ entry \in 0..Len(Entries) /\ Len(Entries) \in Nat
      /\ DOMAIN policy.networks[group] = 1..Len(Entries)
  BY <1>1, EntryShape DEF GroupInv, PlaceInv, Entries
<1>3. \A g : GroupNets(g)' = GroupNets(g)
  BY <1>1 DEF GroupNets, EntryNets
<1>5. MakeUp(tries[group], queue, NetsUpto(group, entry))
  BY <1>1 DEF GroupInv, TriesInv, Wanted
<1>6. CASE entry < Len(Entries)
  <2>1. Building' /\ stage' = "whois" /\ entry' = entry + 1
    BY <1>1, <1>6 DEF Building
  <2>2. PlaceInv' /\ LostInv'
    BY <1>1, <1>2, <1>6, <2>1 DEF GroupInv, PlaceInv, LostInv, Entries, Line
  <2>3. Wanted' = NetsUpto(group, entry)
    <3>1. Wanted' = UNION {EntryNets(group, i)' : i \in 1..entry' - 1}
      BY <2>1 DEF Wanted, NetsUpto
    <3>2. entry' - 1 = entry
      BY <1>2, <2>1
    <3>3. \A i : EntryNets(group, i)' = EntryNets(group, i)
      BY <1>1 DEF EntryNets
    <3> QED
      BY <3>1, <3>2, <3>3 DEF NetsUpto
  <2>4. TriesInv'
    BY <1>1, <1>3, <1>5, <2>1, <2>3 DEF GroupInv, TriesInv, MakeUp
  <2> QED
    BY <2>2, <2>4 DEF GroupInv
<1>7. CASE ~(entry < Len(Entries))
  <2>1. ~Building' /\ stage' = "group" /\ entry = Len(Entries)
    BY <1>1, <1>2, <1>7 DEF Building
  <2>2. PlaceInv' /\ LostInv'
    BY <1>1, <1>2, <2>1 DEF GroupInv, PlaceInv, LostInv, Line
  <2>3. NetsUpto(group, entry) = GroupNets(group)
    BY <1>2, <2>1 DEF NetsUpto, GroupNets
  <2>4. Elements(<<>>) = {}
    BY DEF Elements
  <2>5. PICK held \in SUBSET Net :
          Faithful(tries[group], held) /\ held \cup (Elements(queue) \ {NoPrefix}) = GroupNets(group)
    BY <1>5, <2>3 DEF MakeUp
  <2>6. Faithful(tries[group], GroupNets(group))
    BY <1>1, <2>4, <2>5
  <2>7. TriesInv'
    BY <1>1, <1>3, <2>1, <2>6 DEF GroupInv, TriesInv
  <2> QED
    BY <2>2, <2>7 DEF GroupInv
<1> QED
  BY <1>6, <1>7

\* The facts of a step at an entry.
LEMMA AtEntry ==
    ASSUME GroupInv, stage \in {"whois", "fetch"}
    PROVE  /\ Building /\ IsPolicy(policy) /\ group \in DOMAIN policy.networks
           /\ group \in DOMAIN tries
           /\ entry \in Nat /\ entry \in 1..Len(policy.networks[group])
           /\ entry - 1 \in Nat /\ (entry - 1) + 1 = entry
           /\ Entry = policy.networks[group][entry] /\ Entry \in NetworkEntry
<1>1. /\ Building /\ IsPolicy(policy) /\ group \in DOMAIN policy.networks
      /\ group \in DOMAIN tries
      /\ entry \in 0..Len(Entries) /\ entry # 0
  BY DEF GroupInv, PlaceInv, Building
<1>2. /\ Len(policy.networks[group]) \in Nat
      /\ \A i \in 1..Len(policy.networks[group]) : policy.networks[group][i] \in NetworkEntry
  BY <1>1, EntryShape
<1>3. entry \in Nat /\ entry \in 1..Len(policy.networks[group])
  BY <1>1, <1>2 DEF Entries
<1> QED
  BY <1>1, <1>2, <1>3 DEF Entry, Entries

\* What is lost does not matter to the entries before and to other groups.
LEMMA OtherEntries ==
    ASSUME policy' = policy, NEW g, NEW i, lost' \in {lost, lost \cup {<<group, entry>>}},
           g # group \/ i # entry
    PROVE  EntryNets(g, i)' = EntryNets(g, i)
<1>1. <<g, i>> \in lost' <=> <<g, i>> \in lost
  OBVIOUS
<1> QED
  BY <1>1 DEF EntryNets

\* Whois answers, is not asked, or fails and is passed over.
LEMMA WhoisKeeps ==
    ASSUME GroupInv, stage = "whois", stage' = "fetch",
           UNCHANGED <<policy, group, entry, tries>>,
           queue' \in Seq(Line),
           lost' \in {lost, lost \cup {<<group, entry>>}},
           policy.whois = "strict" => lost' = lost,
           RouteNets(group, entry)' = Elements(queue') \ {NoPrefix}
    PROVE  GroupInv'
<1>1. /\ Building /\ Building' /\ IsPolicy(policy) /\ group \in DOMAIN policy.networks
      /\ entry \in Nat /\ entry \in 1..Len(policy.networks[group]) /\ group \in DOMAIN tries
  BY AtEntry DEF Building
<1>2. PlaceInv'
  BY <1>1 DEF GroupInv, PlaceInv, Entries, Line
<1>3. LostInv'
  <2>1. \A lookup \in lost : lookup[1] \in DOMAIN tries
                             /\ (lookup[1] = group => lookup[2] \in 1..entry)
    BY <1>1 DEF GroupInv, LostInv
  <2>2. <<group, entry>>[1] = group /\ <<group, entry>>[2] = entry /\ entry \in 1..entry
    BY <1>1
  <2> QED
    BY <1>1, <2>1, <2>2 DEF GroupInv, LostInv
<1>4. \A i : i # entry => EntryNets(group, i)' = EntryNets(group, i)
  BY OtherEntries
<1>5. \A g : g # group => GroupNets(g)' = GroupNets(g)
  BY OtherEntries DEF GroupNets
<1>6. Wanted' = NetsUpto(group, entry - 1) \cup RouteNets(group, entry)'
  <2>1. Wanted' = (UNION {EntryNets(group, i)' : i \in 1..entry - 1}) \cup RouteNets(group, entry)'
    BY DEF Wanted, NetsUpto
  <2>2. \A i \in 1..entry - 1 : i # entry
    BY <1>1
  <2> QED
    BY <1>4, <2>1, <2>2 DEF NetsUpto
<1>7. MakeUp(tries[group], queue, NetsUpto(group, entry - 1)) /\ queue = <<>>
  BY <1>1 DEF GroupInv, TriesInv, Wanted, PlaceInv
<1>8. PICK held \in SUBSET Net :
        Faithful(tries[group], held) /\ held = NetsUpto(group, entry - 1)
  <2>1. Elements(<<>>) = {}
    BY DEF Elements
  <2> QED
    BY <1>7, <2>1 DEF MakeUp
<1>9. MakeUp(tries'[group'], queue', Wanted')
  BY <1>6, <1>8 DEF MakeUp
<1>10. TriesInv'
  BY <1>1, <1>5, <1>9 DEF GroupInv, TriesInv, MakeUp
<1> QED
  BY <1>2, <1>3, <1>10 DEF GroupInv

LEMMA WhoisStep ==
    ASSUME GroupInv, Whois
    PROVE  GroupInv'
<1>1. /\ stage = "whois" /\ stage' = "fetch"
      /\ UNCHANGED <<policy, group, entry, tries, lost>>
      /\ queue' = IF AsksWhois THEN Entry.routes ELSE <<>>
  BY DEF Whois
<1>2. /\ Entry = policy.networks[group][entry] /\ Entry \in NetworkEntry
      /\ Building /\ group \in DOMAIN tries
  BY <1>1, AtEntry
<1>3. queue' \in Seq(Line)
  BY <1>1, <1>2, EntryParts
<1>4. <<group, entry>> \notin lost
  <2>1. <<group, entry>>[1] = group /\ <<group, entry>>[2] = entry
    OBVIOUS
  <2> QED
    BY <1>1, <1>2, <2>1 DEF GroupInv, LostInv
<1>5. RouteNets(group, entry)' = IF AsksWhois THEN Elements(Entry.routes) ELSE {}
  BY <1>1, <1>2, <1>4 DEF RouteNets, AsksWhois
<1>6. Elements(queue') \ {NoPrefix} = IF AsksWhois THEN Elements(Entry.routes) ELSE {}
  <2>1. Elements(<<>>) = {} /\ Elements(Entry.routes) \subseteq Net
    BY <1>2, EntryParts DEF Elements
  <2> QED
    BY <1>1, <2>1, PrefixAssumption
<1> QED
  BY <1>1, <1>3, <1>5, <1>6, WhoisKeeps

LEMMA WhoisFailsStep ==
    ASSUME GroupInv, WhoisFails
    PROVE  GroupInv'
<1>1. CASE policy.whois = "strict"
  BY <1>1, Failing DEF WhoisFails, Fails
<1>2. CASE policy.whois # "strict"
  <2>1. /\ stage = "whois" /\ stage' = "fetch" /\ queue' = queue
        /\ UNCHANGED <<policy, group, entry, tries>>
        /\ lost' = lost \cup {<<group, entry>>}
    BY <1>2 DEF WhoisFails
  <2>2. queue = <<>> /\ queue' \in Seq(Line) /\ Elements(<<>>) = {}
    BY <2>1 DEF GroupInv, PlaceInv, Elements
  <2>3. RouteNets(group, entry)' = {}
    BY <2>1 DEF RouteNets
  <2> QED
    BY <1>2, <2>1, <2>2, <2>3, WhoisKeeps
<1> QED
  BY <1>1, <1>2

\* The prefixes of an entry that can be used join the queue.
LEMMA FetchKeeps ==
    ASSUME GroupInv, FetchPrefixes
    PROVE  GroupInv'
<1>1. CASE Unusable(Entry)
  BY <1>1, Failing DEF FetchPrefixes, Fails
<1>2. CASE ~Unusable(Entry)
  <2>1. /\ UNCHANGED <<policy, group, entry, tries, lost>>
        /\ stage = "fetch" /\ queue = <<>> /\ stage' = "entry"
        /\ queue' = Prefixes(Entry)
    BY <1>2 DEF FetchPrefixes
  <2>2. /\ Building /\ IsPolicy(policy) /\ group \in DOMAIN policy.networks
        /\ group \in DOMAIN tries /\ Building'
        /\ entry \in Nat /\ entry \in 1..Len(policy.networks[group])
        /\ entry - 1 \in Nat /\ (entry - 1) + 1 = entry
        /\ Entry = policy.networks[group][entry] /\ Entry \in NetworkEntry
    BY <2>1, AtEntry DEF Building
  <2>3. queue' \in Seq(Line)
    BY <2>1, <2>2, EntryParts
  <2>4. PlaceInv' /\ LostInv'
    BY <2>1, <2>2, <2>3 DEF GroupInv, PlaceInv, LostInv, Entries, Line
  <2>5. \A g, i : EntryNets(g, i)' = EntryNets(g, i)
    BY <2>1 DEF EntryNets
  <2>6. \A g : GroupNets(g)' = GroupNets(g)
    BY <2>1 DEF GroupNets, EntryNets
  <2>7. Wanted' = NetsUpto(group, entry)
    BY <2>1, <2>5 DEF Wanted, NetsUpto
  <2>8. NetsUpto(group, entry) = NetsUpto(group, entry - 1) \cup EntryNets(group, entry)
    BY <2>2, NetsUptoNext
  <2>9. EntryNets(group, entry) =
          RouteNets(group, entry) \cup (Elements(Prefixes(Entry)) \ {NoPrefix})
    BY <2>2, EntryNetsNet
  <2>10. MakeUp(tries[group], <<>>, NetsUpto(group, entry - 1) \cup RouteNets(group, entry))
    BY <2>1, <2>2 DEF GroupInv, TriesInv, Wanted
  <2>11. PICK held \in SUBSET Net :
          /\ Faithful(tries[group], held)
          /\ held = NetsUpto(group, entry - 1) \cup RouteNets(group, entry)
    <3>1. Elements(<<>>) = {}
      BY DEF Elements
    <3> QED
      BY <2>10, <3>1 DEF MakeUp
  <2>12. held \cup (Elements(queue') \ {NoPrefix}) = Wanted'
    BY <2>1, <2>7, <2>8, <2>9, <2>11
  <2>13. MakeUp(tries'[group'], queue', Wanted')
    BY <2>1, <2>11, <2>12 DEF MakeUp
  <2>14. TriesInv'
    BY <2>1, <2>2, <2>6, <2>13 DEF GroupInv, TriesInv, MakeUp
  <2> QED
    BY <2>4, <2>14 DEF GroupInv
<1> QED
  BY <1>1, <1>2

\* What goes into the trie leaves the queue.
LEMMA InsertStep ==
    ASSUME GroupInv, InsertPrefix
    PROVE  GroupInv'
<1>1. /\ UNCHANGED <<policy, stage, group, entry, lost>>
      /\ stage \in {"fetch", "entry"} /\ queue # <<>> /\ queue' = Tail(queue)
      /\ tries' = IF Head(queue) = NoPrefix THEN tries
                  ELSE [tries EXCEPT ![group] = Insert(@, Head(queue))]
  BY DEF InsertPrefix
<1>2. Building /\ Building' /\ queue \in Seq(Line) /\ group \in DOMAIN tries
  BY <1>1 DEF Building, GroupInv, PlaceInv
<1>3. /\ Head(queue) \in Line /\ queue' \in Seq(Line)
      /\ Elements(queue) = {Head(queue)} \cup Elements(queue')
  BY <1>1, <1>2, ElementsHead
<1>4. /\ DOMAIN tries' = DOMAIN tries
      /\ \A g \in DOMAIN tries : g # group => tries'[g] = tries[g]
      /\ tries'[group] = IF Head(queue) = NoPrefix THEN tries[group]
                         ELSE Insert(tries[group], Head(queue))
  BY <1>1, <1>2
<1>5. PlaceInv' /\ LostInv'
  BY <1>1, <1>2, <1>3, <1>4 DEF GroupInv, PlaceInv, LostInv, Entries, Line
<1>6. \A g, i : EntryNets(g, i)' = EntryNets(g, i) /\ RouteNets(g, i)' = RouteNets(g, i)
  BY <1>1 DEF EntryNets, RouteNets
<1>7. \A g : GroupNets(g)' = GroupNets(g)
  BY <1>1 DEF GroupNets, EntryNets
<1>8. Wanted' = Wanted
  BY <1>1, <1>6 DEF Wanted, NetsUpto
<1>9. PICK held \in SUBSET Net :
        Faithful(tries[group], held) /\ held \cup (Elements(queue) \ {NoPrefix}) = Wanted
  BY <1>2 DEF GroupInv, TriesInv, MakeUp
<1>10. MakeUp(tries'[group], queue', Wanted)
  <2>1. CASE Head(queue) = NoPrefix
    BY <1>3, <1>4, <1>9, <2>1 DEF MakeUp
  <2>2. CASE Head(queue) # NoPrefix
    <3>1. Head(queue) \in Net
      BY <1>3, <2>2 DEF Line
    <3>2. Faithful(tries'[group], held \cup {Head(queue)})
      BY <1>4, <1>9, <2>2, <3>1, InsertKeeps
    <3>3. held \cup {Head(queue)} \in SUBSET Net
      BY <3>1
    <3>4. (held \cup {Head(queue)}) \cup (Elements(queue') \ {NoPrefix}) = Wanted
      BY <1>3, <1>9, <2>2
    <3> QED
      BY <3>2, <3>3, <3>4 DEF MakeUp
  <2> QED
    BY <2>1, <2>2
<1>11. TriesInv'
  BY <1>1, <1>2, <1>4, <1>7, <1>8, <1>10 DEF GroupInv, TriesInv, MakeUp
<1> QED
  BY <1>5, <1>11 DEF GroupInv

LEMMA GroupStart == PolicyInit => GroupInv
<1> SUFFICES ASSUME PolicyInit
             PROVE  GroupInv
  OBVIOUS
<1>1. /\ IsPolicy(policy) /\ stage = "read" /\ DOMAIN tries = {} /\ queue = <<>>
      /\ lost = {} /\ ~Building
  BY DEF PolicyInit, Building
<1>2. queue \in Seq(Line)
  BY <1>1
<1> QED
  BY <1>1, <1>2 DEF GroupInv, PlaceInv, LostInv, TriesInv

LEMMA GroupNext == GroupInv /\ [Compile]_policyVars => GroupInv'
<1> SUFFICES ASSUME GroupInv, [Compile]_policyVars
             PROVE  GroupInv'
  OBVIOUS
<1>1. CASE Read \/ NextGroup \/ AllGroups \/ NextEntry
  BY <1>1, ReadKeeps, NextGroupKeeps, AllGroupsKeeps, NextEntryKeeps
<1>2. CASE Whois \/ WhoisFails \/ FetchPrefixes \/ InsertPrefix
  BY <1>2, WhoisStep, WhoisFailsStep, FetchKeeps, InsertStep
<1>3. CASE ReadFails \/ FetchFails
  BY <1>3, Failing DEF ReadFails, FetchFails, Fails
<1>4. CASE \/ NextName \/ Substitute \/ Refer \/ NextAlternative \/ Return \/ AllNames
           \/ CompileRule \/ AllRules
  <2>1. /\ UNCHANGED <<policy, networking>>
        /\ stage \in {"conditions", "rules"}
        /\ stage' \in {"conditions", "rules", "done", "failed"}
    BY <1>4 DEF NextName, Resolve, Substitute, Refer, Reads, NextAlternative, Return, AtEnd,
                AllNames, CompileRule, AllRules, Fails, conditioning
  <2> QED
    BY <2>1, LaterSteps
<1>5. CASE UNCHANGED policyVars
  <2>1. /\ UNCHANGED <<policy, stage, group, entry, queue, tries, lost>>
        /\ Building' = Building
    BY <1>5 DEF policyVars, networking, Building
  <2>2. \A g : GroupNets(g)' = GroupNets(g)
    BY <2>1 DEF GroupNets, EntryNets
  <2>3. \A g, i : EntryNets(g, i)' = EntryNets(g, i) /\ RouteNets(g, i)' = RouteNets(g, i)
    BY <2>1 DEF EntryNets, RouteNets
  <2>4. Wanted' = Wanted
    BY <2>1, <2>3 DEF Wanted, NetsUpto
  <2>5. PlaceInv' /\ LostInv'
    BY <2>1 DEF GroupInv, PlaceInv, LostInv, Entries, Line
  <2>6. TriesInv'
    BY <2>1, <2>2, <2>4 DEF GroupInv, TriesInv, MakeUp
  <2> QED
    BY <2>5, <2>6 DEF GroupInv
<1> QED
  BY <1>1, <1>2, <1>3, <1>4, <1>5 DEF Compile

LEMMA GroupInvariance == PolicySpec => []GroupInv
  BY GroupStart, GroupNext, PTL DEF PolicySpec

\* A compiled policy answers for every network its entries name, for any
\* number of groups, entries and prefixes in any order; a source that fails
\* fails the policy, but for whois where asn.whois_strict is off
\* (buildPolicyMatcher, FetchPrefixes, Insert, Contains).
THEOREM GroupsAreWhole == PolicySpec => []GroupsWhole
<1>1. GroupInv => GroupsWhole
  <2> SUFFICES ASSUME GroupInv, stage \in {"conditions", "rules", "done"}
               PROVE  /\ DOMAIN tries = DOMAIN policy.networks
                      /\ policy.whois = "strict" => lost = {}
                      /\ \A g \in DOMAIN tries : Answers(tries[g], GroupNets(g))
    BY DEF GroupsWhole, GroupNets
  <2>1. ~Building /\ DOMAIN tries = DOMAIN policy.networks
    BY DEF Building, GroupInv, PlaceInv
  <2>2. ASSUME NEW g \in DOMAIN tries
        PROVE  Answers(tries[g], GroupNets(g))
    <3>1. Faithful(tries[g], GroupNets(g))
      BY <2>1 DEF GroupInv, TriesInv
    <3>2. /\ DOMAIN policy.networks[g] = 1..Len(policy.networks[g])
          /\ \A i \in 1..Len(policy.networks[g]) : EntryNets(g, i) \subseteq Net
      BY <2>1, EntryShape, EntryNetsNet DEF GroupInv, PlaceInv
    <3>3. GroupNets(g) \subseteq Net
      BY <3>2 DEF GroupNets
    <3> QED
      BY <3>1, <3>3, Answering
  <2> QED
    BY <2>1, <2>2 DEF GroupInv, LostInv
<1> QED
  BY <1>1, GroupInvariance, PTL

-----------------------------------------------------------------------------
(* Named conditions: what has been resolved, and the calls under way.      *)

\* What an expression says, by the names resolved so far.
Meets(seq, r) == \A x \in Elements(seq) : r \in Value(x).met
Parses(seq) == \A x \in Elements(seq) : Value(x).parses

Meaning(n) ==
    [parses |-> \A alt \in Elements(policy.conditions[n]) : Parses(alt),
     met |-> {r \in Request : \E alt \in Elements(policy.conditions[n]) : Meets(alt, r)}]

\* No names among these refer to each other in a circle.
Acyclic(names) == \A S \in SUBSET names : S # {} => \E n \in S : References(n) \cap S = {}

Closed(S) == \A n \in S : References(n) \subseteq S
BrokenIn(S) == \E n \in S : \E alt \in Elements(policy.conditions[n]) : Broken(alt)

\* A resolved name means what its condition says, all that it refers to is
\* resolved, and only an unparsable text makes it unparsable.
ResolvedInv ==
    /\ DOMAIN resolved \subseteq Names /\ resolved \in [DOMAIN resolved -> Text]
    /\ \A n \in DOMAIN resolved : References(n) \subseteq DOMAIN resolved
    /\ \A n \in DOMAIN resolved : resolved[n] = Meaning(n)
    /\ Acyclic(DOMAIN resolved)
    /\ \A n \in DOMAIN resolved : ~resolved[n].parses =>
         \A S \in SUBSET Names : Closed(S) /\ n \in S => BrokenIn(S)

Frame == [name : Names, alt : Nat, item : Nat, part : Text, parts : Text]

AltsOf(f) == policy.conditions[f.name]
LitsOf(f) == policy.conditions[f.name][f.alt]

\* The place a call is at.
FrameShape(f) ==
    /\ f.name \in Names \ DOMAIN resolved
    /\ f.alt \in 1..Len(AltsOf(f))
    /\ f.item \in 1..Len(LitsOf(f)) + 1

\* What a call has gathered: of the alternatives before this, and of this.
FrameSays(f) ==
    /\ \A j \in 1..f.alt - 1 : Used(AltsOf(f)[j]) \subseteq DOMAIN resolved
    /\ \A i \in 1..f.item - 1 : LitsOf(f)[i].isRef => LitsOf(f)[i].name \in DOMAIN resolved
    /\ f.part.parses <=> \A i \in 1..f.item - 1 : Value(LitsOf(f)[i]).parses
    /\ f.part.met = {r \in Request : \A i \in 1..f.item - 1 : r \in Value(LitsOf(f)[i]).met}
    /\ f.parts.parses <=> \A j \in 1..f.alt - 1 : Parses(AltsOf(f)[j])
    /\ f.parts.met = {r \in Request : \E j \in 1..f.alt - 1 : Meets(AltsOf(f)[j], r)}

\* A call waits for the name it has come upon.
Waits(f, n) ==
    f.item <= Len(LitsOf(f)) /\ LitsOf(f)[f.item].isRef /\ LitsOf(f)[f.item].name = n

\* The calls of a stack, all for different names, each but the last waiting for
\* the one above it.
StackOk(st, names) ==
    /\ st \in Seq(Frame)
    /\ names = {st[i].name : i \in 1..Len(st)}
    /\ \A i, j \in 1..Len(st) : st[i].name = st[j].name => i = j
    /\ \A i \in 1..Len(st) : FrameShape(st[i]) /\ FrameSays(st[i])
    /\ \A i \in 1..Len(st) - 1 : Waits(st[i], st[i + 1].name)

StackInv == StackOk(stack, resolving)

\* The rules compiled so far.
RuleInv ==
    /\ compiled \in Seq(SUBSET Request) /\ Len(compiled) <= Len(policy.rules)
    /\ \A i \in 1..Len(compiled) :
         /\ Compiles(policy.rules[i])
         /\ compiled[i] = {r \in Request : Meets(policy.rules[i], r)}

\* How far the compilation is.
StageInv ==
    /\ stage \notin {"conditions", "failed"} => stack = <<>>
    /\ stage \in {"rules", "done"} => DOMAIN resolved = Names
    /\ stage \in {"read", "group", "entry", "whois", "fetch", "conditions"} => compiled = <<>>
    /\ stage = "done" => Len(compiled) = Len(policy.rules)

ConditionInv ==
    /\ IsPolicy(policy)
    /\ ResolvedInv /\ StackInv /\ RuleInv /\ StageInv

-----------------------------------------------------------------------------
(* Texts and literals.                                                     *)

LEMMA Texts ==
    ASSUME NEW t \in Text, NEW u \in Text
    PROVE  /\ And(t, u) \in Text /\ Or(t, u) \in Text /\ Always \in Text /\ Never \in Text
           /\ And(t, u).parses = (t.parses /\ u.parses) /\ And(t, u).met = t.met \cap u.met
           /\ Or(t, u).parses = (t.parses /\ u.parses) /\ Or(t, u).met = t.met \cup u.met
           /\ [t EXCEPT !.met = Request \ @] =
                [parses |-> t.parses, met |-> Request \ t.met]
  BY DEF And, Or, Always, Never, Text

\* What a literal says, if what it refers to is resolved.
LEMMA ValueShape ==
    ASSUME NEW x \in Literal, resolved \in [DOMAIN resolved -> Text],
           x.isRef => x.name \in DOMAIN resolved
    PROVE  /\ Value(x) \in Text
           /\ Value(x).parses = IF x.isRef THEN resolved[x.name].parses ELSE x.text.parses
           /\ \A r \in Request :
                r \in Value(x).met <=>
                  ((r \in IF x.isRef THEN resolved[x.name].met ELSE x.text.met) # x.negated)
<1> DEFINE text == IF x.isRef THEN resolved[x.name] ELSE x.text
<1>1. text \in Text /\ x.negated \in BOOLEAN
  BY DEF Literal
<1>2. Value(x) = IF x.negated THEN [text EXCEPT !.met = Request \ @] ELSE text
  BY DEF Value
<1>3. /\ text.parses = IF x.isRef THEN resolved[x.name].parses ELSE x.text.parses
      /\ text.met = IF x.isRef THEN resolved[x.name].met ELSE x.text.met
  OBVIOUS
<1> HIDE DEF text
<1>4. [text EXCEPT !.met = Request \ @] = [parses |-> text.parses, met |-> Request \ text.met]
  BY <1>1, Texts
<1>5. Value(x) = IF x.negated THEN [parses |-> text.parses, met |-> Request \ text.met] ELSE text
  BY <1>2, <1>4
<1>6. Value(x) \in Text /\ Value(x).parses = text.parses
  BY <1>1, <1>5 DEF Text
<1>7. \A r \in Request : r \in Value(x).met <=> ((r \in text.met) # x.negated)
  BY <1>1, <1>5
<1> QED
  BY <1>3, <1>6, <1>7

\* What the expressions of a policy are made of.
LEMMA Expressions ==
    ASSUME IsPolicy(policy)
    PROVE  /\ \A n \in Names :
                /\ policy.conditions[n] \in Seq(Seq(Literal))
                /\ Len(policy.conditions[n]) \in Nat /\ Len(policy.conditions[n]) >= 1
                /\ Elements(policy.conditions[n]) =
                     {policy.conditions[n][j] : j \in 1..Len(policy.conditions[n])}
                /\ \A j \in 1..Len(policy.conditions[n]) :
                     /\ policy.conditions[n][j] \in Seq(Literal)
                     /\ Elements(policy.conditions[n][j]) \subseteq Literal
                     /\ Len(policy.conditions[n][j]) \in Nat
           /\ policy.rules \in Seq(Seq(Literal)) /\ Len(policy.rules) \in Nat
           /\ \A i \in 1..Len(policy.rules) :
                policy.rules[i] \in Seq(Literal) /\ Elements(policy.rules[i]) \subseteq Literal
<1>1. ASSUME NEW n \in Names
      PROVE  policy.conditions[n] \in Seq(Seq(Literal)) \ {<<>>}
  BY <1>1 DEF IsPolicy, Names
<1>2. policy.rules \in Seq(Seq(Literal))
  BY DEF IsPolicy
<1>3. ASSUME NEW seq \in Seq(Literal)
      PROVE  Elements(seq) \subseteq Literal /\ Len(seq) \in Nat
  BY ElementsOf
<1>4. ASSUME NEW seq \in Seq(Seq(Literal))
      PROVE  /\ Len(seq) \in Nat /\ Elements(seq) = {seq[i] : i \in 1..Len(seq)}
             /\ \A i \in 1..Len(seq) : seq[i] \in Seq(Literal)
             /\ seq # <<>> => Len(seq) >= 1
  BY ElementsOf
<1> QED
  BY <1>1, <1>2, <1>3, <1>4

\* The text of a name that is resolved does not change any more.
LEMMA ValueKept ==
    ASSUME \A m \in DOMAIN resolved : m \in DOMAIN resolved' /\ resolved'[m] = resolved[m],
           NEW x, x.isRef => x.name \in DOMAIN resolved
    PROVE  Value(x)' = Value(x)
  BY DEF Value

\* As long as its own name is not resolved, a call means what it meant when
\* more names are resolved.
LEMMA FrameKept ==
    ASSUME IsPolicy(policy), policy' = policy, NEW f \in Frame, FrameShape(f), FrameSays(f),
           \A m \in DOMAIN resolved : m \in DOMAIN resolved' /\ resolved'[m] = resolved[m],
           f.name \notin DOMAIN resolved'
    PROVE  FrameShape(f)' /\ FrameSays(f)'
<1>1. FrameShape(f)' /\ AltsOf(f)' = AltsOf(f) /\ LitsOf(f)' = LitsOf(f)
  BY DEF FrameShape, AltsOf, LitsOf, Names
<1>2. ASSUME NEW i \in 1..f.item - 1
      PROVE  /\ LitsOf(f)[i].isRef => LitsOf(f)[i].name \in DOMAIN resolved
             /\ Value(LitsOf(f)[i])' = Value(LitsOf(f)[i])
  <2>1. LitsOf(f)[i].isRef => LitsOf(f)[i].name \in DOMAIN resolved
    BY DEF FrameSays
  <2> QED
    BY <2>1 DEF Value, LitsOf
<1>3. ASSUME NEW j \in 1..f.alt - 1
      PROVE  /\ Used(AltsOf(f)[j]) \subseteq DOMAIN resolved'
             /\ Parses(AltsOf(f)[j])' <=> Parses(AltsOf(f)[j])
             /\ \A r : Meets(AltsOf(f)[j], r)' <=> Meets(AltsOf(f)[j], r)
  <2>1. Used(AltsOf(f)[j]) \subseteq DOMAIN resolved
    BY DEF FrameSays
  <2>2. \A x \in Elements(AltsOf(f)[j]) : Value(x)' = Value(x)
    BY <2>1, ValueKept DEF Used
  <2>3. AltsOf(f)' = AltsOf(f)
    BY <1>1
  <2> QED
    BY <2>1, <2>2, <2>3 DEF Parses, Meets
<1>4. FrameSays(f)'
  <2>1. \A i \in 1..f.item - 1 : LitsOf(f)[i].isRef => LitsOf(f)[i].name \in DOMAIN resolved'
    BY <1>2
  <2>2. f.part.parses <=> \A i \in 1..f.item - 1 : Value(LitsOf(f)[i])'.parses
    BY <1>2 DEF FrameSays
  <2>3. f.part.met = {r \in Request : \A i \in 1..f.item - 1 : r \in Value(LitsOf(f)[i])'.met}
    BY <1>2 DEF FrameSays
  <2>4. f.parts.parses <=> \A j \in 1..f.alt - 1 : Parses(AltsOf(f)[j])'
    BY <1>3 DEF FrameSays
  <2>5. f.parts.met = {r \in Request : \E j \in 1..f.alt - 1 : Meets(AltsOf(f)[j], r)'}
    BY <1>3 DEF FrameSays
  <2> QED
    BY <1>1, <1>3, <2>1, <2>2, <2>3, <2>4, <2>5 DEF FrameSays
<1> QED
  BY <1>1, <1>4

\* Nothing is said of what a name's own condition means until it is resolved.
LEMMA ResolvedKept ==
    ASSUME policy' = policy, ResolvedInv, resolved' = resolved
    PROVE  ResolvedInv'
<1>1. \A x : Value(x)' = Value(x)
  BY DEF Value
<1>2. \A seq : /\ Parses(seq)' <=> Parses(seq)
               /\ \A r : Meets(seq, r)' <=> Meets(seq, r)
  BY <1>1 DEF Parses, Meets
<1>3. /\ Names' = Names
      /\ \A n : Meaning(n)' = Meaning(n) /\ References(n)' = References(n)
  BY <1>2 DEF Names, Meaning, References
<1>4. /\ \A names : Acyclic(names)' <=> Acyclic(names)
      /\ \A S : (Closed(S)' <=> Closed(S)) /\ (BrokenIn(S)' <=> BrokenIn(S))
  BY <1>3 DEF Acyclic, Closed, BrokenIn
<1> QED
  BY <1>3, <1>4 DEF ResolvedInv

LEMMA RulesKept ==
    ASSUME policy' = policy, RuleInv, resolved' = resolved, compiled' = compiled
    PROVE  RuleInv'
<1>1. \A x : Value(x)' = Value(x)
  BY DEF Value
<1>2. \A seq : /\ Compiles(seq)' <=> Compiles(seq)
               /\ \A r : Meets(seq, r)' <=> Meets(seq, r)
  BY <1>1 DEF Compiles, Meets
<1> QED
  BY <1>2 DEF RuleInv

LEMMA StackKept ==
    ASSUME IsPolicy(policy), policy' = policy, resolved' = resolved,
           NEW st, NEW names, StackOk(st, names), stack' = st, resolving' = names
    PROVE  StackInv'
<1>1. Frame' = Frame /\ \A f, n : Waits(f, n)' <=> Waits(f, n)
  BY DEF Frame, Names, Waits, LitsOf
<1>2. ASSUME NEW i \in 1..Len(st)
      PROVE  FrameShape(st[i])' /\ FrameSays(st[i])'
  <2>1. st[i] \in Frame /\ FrameShape(st[i]) /\ FrameSays(st[i])
    BY DEF StackOk
  <2>2. st[i].name \notin DOMAIN resolved'
    BY <2>1 DEF FrameShape
  <2> QED
    BY <2>1, <2>2, FrameKept
<1> QED
  BY <1>1, <1>2 DEF StackInv, StackOk

\* A stack whose last call has returned, and one where it has moved on.
LEMMA Returned ==
    ASSUME NEW S, NEW st \in Seq(S), st # <<>>
    PROVE  LET new == SubSeq(st, 1, Len(st) - 1)
           IN  /\ new \in Seq(S) /\ Len(new) = Len(st) - 1
               /\ \A i \in 1..Len(st) - 1 : new[i] = st[i]
<1> DEFINE n == Len(st) - 1
<1>1. n \in Nat /\ n \in Int /\ \A i \in 1..n : st[i] \in S
  OBVIOUS
<1> HIDE DEF n
<1>2. /\ SubSeq(st, 1, n) \in Seq(S)
      /\ Len(SubSeq(st, 1, n)) = IF 1 <= n THEN n - 1 + 1 ELSE 0
      /\ \A i \in 1..(n - 1 + 1) : SubSeq(st, 1, n)[i] = st[1 + i - 1]
  BY <1>1, SubSeqProperties
<1>3. /\ SubSeq(st, 1, n) \in Seq(S) /\ Len(SubSeq(st, 1, n)) = n
      /\ \A i \in 1..n : SubSeq(st, 1, n)[i] = st[i]
  BY <1>1, <1>2
<1> QED
  BY <1>3 DEF n

LEMMA Replaced ==
    ASSUME NEW S, NEW st \in Seq(S), st # <<>>, NEW f \in S
    PROVE  LET new == Append(SubSeq(st, 1, Len(st) - 1), f)
           IN  /\ new \in Seq(S) /\ Len(new) = Len(st) /\ new[Len(st)] = f
               /\ \A i \in 1..Len(st) - 1 : new[i] = st[i]
<1> DEFINE n == Len(st) - 1
           below == SubSeq(st, 1, n)
<1>1. n \in Nat /\ Len(st) = n + 1 /\ \A i \in 1..n : st[i] \in S
  OBVIOUS
<1>2. below \in Seq(S) /\ Len(below) = n /\ \A i \in 1..n : below[i] = st[i]
  BY Returned
<1> HIDE DEF below, n
<1>3. /\ Append(below, f) \in Seq(S) /\ Len(Append(below, f)) = Len(below) + 1
      /\ \A i \in 1..Len(below) : Append(below, f)[i] = below[i]
      /\ Append(below, f)[Len(below) + 1] = f
  BY <1>2, AppendProperties
<1>4. /\ Append(below, f) \in Seq(S) /\ Len(Append(below, f)) = Len(st)
      /\ Append(below, f)[Len(st)] = f
      /\ \A i \in 1..n : Append(below, f)[i] = st[i]
  BY <1>1, <1>2, <1>3
<1> QED
  BY <1>4 DEF below, n

-----------------------------------------------------------------------------
(* Every step keeps what is known of names and rules.                      *)

\* The facts of a step within a call.
LEMMA InCall ==
    ASSUME ConditionInv, stack # <<>>
    PROVE  /\ Len(stack) \in Nat /\ Len(stack) \in 1..Len(stack)
           /\ Top = stack[Len(stack)] /\ Top \in Frame /\ FrameShape(Top) /\ FrameSays(Top)
           /\ Top.name \in Names /\ Alternatives = AltsOf(Top) /\ Literals = LitsOf(Top)
           /\ Literals \in Seq(Literal) /\ Len(Literals) \in Nat
           /\ Len(Alternatives) \in Nat /\ Top.alt \in 1..Len(Alternatives)
           /\ Top.item \in 1..Len(Literals) + 1
<1>1. stack \in Seq(Frame) /\ Len(stack) \in Nat /\ Len(stack) \in 1..Len(stack)
  BY DEF ConditionInv, StackInv, StackOk
<1>2. Top = stack[Len(stack)] /\ Top \in Frame /\ FrameShape(Top) /\ FrameSays(Top)
  BY <1>1 DEF Top, ConditionInv, StackInv, StackOk
<1>3. Alternatives = AltsOf(Top) /\ Literals = LitsOf(Top) /\ Top.name \in Names
  BY <1>2 DEF Alternatives, Literals, AltsOf, LitsOf, FrameShape
<1>4. /\ Literals \in Seq(Literal) /\ Len(Literals) \in Nat
      /\ Len(Alternatives) \in Nat /\ Top.alt \in 1..Len(Alternatives)
  BY <1>2, <1>3, Expressions DEF ConditionInv, FrameShape, AltsOf, LitsOf
<1> QED
  BY <1>1, <1>2, <1>3, <1>4 DEF FrameShape

\* The last call moves on.
LEMMA CallKeeps ==
    ASSUME ConditionInv, stack # <<>>, stage = "conditions",
           UNCHANGED <<policy, stage, resolving, resolved, compiled>>,
           NEW f, f \in Frame, f.name = Top.name, FrameShape(f), FrameSays(f),
           stack' = Append(Below, f)
    PROVE  ConditionInv'
<1> DEFINE new == Append(SubSeq(stack, 1, Len(stack) - 1), f)
<1>1. /\ stack' = new /\ Len(stack) \in Nat /\ Len(stack) \in 1..Len(stack)
      /\ stack[Len(stack)].name = f.name /\ stack \in Seq(Frame)
  BY InCall DEF Below, ConditionInv, StackInv, StackOk
<1>2. /\ new \in Seq(Frame) /\ Len(new) = Len(stack) /\ new[Len(stack)] = f
      /\ \A i \in 1..Len(stack) - 1 : new[i] = stack[i]
  BY <1>1, Replaced
<1> HIDE DEF new
<1>3. \A i \in 1..Len(stack) : new[i].name = stack[i].name
  BY <1>1, <1>2
<1>4. StackOk(stack, resolving)
  BY DEF ConditionInv, StackInv
<1>5. ASSUME NEW i \in 1..Len(stack)
      PROVE  FrameShape(new[i]) /\ FrameSays(new[i])
  BY <1>1, <1>2, <1>4 DEF StackOk
<1>6. ASSUME NEW i \in 1..Len(stack) - 1
      PROVE  Waits(new[i], new[i + 1].name)
  <2>1. i + 1 \in 1..Len(stack)
    BY <1>1
  <2> QED
    BY <1>2, <1>3, <1>4, <2>1 DEF StackOk
<1>7. \A i, j \in 1..Len(stack) : new[i].name = new[j].name => i = j
  BY <1>3, <1>4 DEF StackOk
<1>8. resolving = {new[i].name : i \in 1..Len(stack)}
  <2>1. resolving = {stack[i].name : i \in 1..Len(stack)}
    BY <1>4 DEF StackOk
  <2> QED
    BY <1>3, <2>1
<1>9. StackOk(new, resolving)
  BY <1>2, <1>5, <1>6, <1>7, <1>8 DEF StackOk
<1>10. StackInv'
  BY <1>1, <1>9, StackKept DEF ConditionInv
<1>11. StageInv'
  BY DEF ConditionInv, StageInv, Names
<1> QED
  BY <1>10, <1>11, ResolvedKept, RulesKept DEF ConditionInv

\* A literal joins what the call has gathered.
LEMMA SubstituteKeeps ==
    ASSUME ConditionInv, Substitute
    PROVE  ConditionInv'
<1> DEFINE top == Top
           x == LitsOf(Top)[Top.item]
           f == [name |-> top.name, alt |-> top.alt, item |-> top.item + 1,
                 part |-> And(top.part, Value(x)), parts |-> top.parts]
<1>1. /\ stage = "conditions" /\ stack # <<>> /\ top.item <= Len(Literals)
      /\ Literals[Top.item].isRef => Literals[Top.item].name \in DOMAIN resolved
      /\ UNCHANGED <<policy, stage, resolving, resolved, compiled>>
      /\ stack' = Append(Below, [name |-> Top.name, alt |-> Top.alt, item |-> Top.item + 1,
                                 part |-> And(Top.part, Value(Literals[Top.item])),
                                 parts |-> Top.parts])
  BY DEF Substitute, Reads, networking, Call
<1>2. /\ top \in Frame /\ FrameShape(top) /\ FrameSays(top) /\ Literals = LitsOf(top)
      /\ Literals \in Seq(Literal) /\ Len(Literals) \in Nat
      /\ top.item \in 1..Len(Literals) + 1
  BY <1>1, InCall
<1>3. x \in Literal /\ (x.isRef => x.name \in DOMAIN resolved)
  BY <1>1, <1>2
<1>4. Value(x) \in Text
  BY <1>3, ValueShape DEF ConditionInv, ResolvedInv
<1>5. stack' = Append(Below, f)
  BY <1>1, <1>2
<1> HIDE DEF top, x
<1>6. /\ top.part \in Text /\ top.parts \in Text /\ top.name \in Names
      /\ top.alt \in Nat /\ top.item \in Nat
      /\ top = [name |-> top.name, alt |-> top.alt, item |-> top.item,
                part |-> top.part, parts |-> top.parts]
  BY <1>2 DEF Frame
<1>7. /\ And(top.part, Value(x)) \in Text
      /\ And(top.part, Value(x)).parses = (top.part.parses /\ Value(x).parses)
      /\ And(top.part, Value(x)).met = top.part.met \cap Value(x).met
  BY <1>4, <1>6, Texts
<1>9. f \in Frame
  BY <1>6, <1>7 DEF Frame
<1>10. /\ AltsOf(f) = AltsOf(top) /\ LitsOf(f) = LitsOf(top)
       /\ f.item - 1 = top.item /\ 1..top.item = (1..top.item - 1) \cup {top.item}
  BY <1>2, <1>6 DEF AltsOf, LitsOf
<1>11. FrameShape(f)
  BY <1>1, <1>2, <1>6, <1>10 DEF FrameShape
<1>12. x = LitsOf(top)[top.item]
  BY DEF x, top
<1>13. FrameSays(f)
  <2>1. /\ \A j \in 1..f.alt - 1 : Used(AltsOf(f)[j]) \subseteq DOMAIN resolved
        /\ f.parts.parses <=> \A j \in 1..f.alt - 1 : Parses(AltsOf(f)[j])
        /\ f.parts.met = {r \in Request : \E j \in 1..f.alt - 1 : Meets(AltsOf(f)[j], r)}
    BY <1>2, <1>10 DEF FrameSays
  <2>2. \A i \in 1..f.item - 1 : LitsOf(f)[i].isRef => LitsOf(f)[i].name \in DOMAIN resolved
    BY <1>2, <1>3, <1>10, <1>12 DEF FrameSays
  <2>3. f.part.parses <=> \A i \in 1..f.item - 1 : Value(LitsOf(f)[i]).parses
    <3>1. top.part.parses <=> \A i \in 1..top.item - 1 : Value(LitsOf(top)[i]).parses
      BY <1>2 DEF FrameSays
    <3>2. f.part.parses <=> top.part.parses /\ Value(x).parses
      BY <1>7
    <3> QED
      BY <1>10, <1>12, <3>1, <3>2
  <2>4. f.part.met = {r \in Request : \A i \in 1..f.item - 1 : r \in Value(LitsOf(f)[i]).met}
    <3>1. top.part.met = {r \in Request : \A i \in 1..top.item - 1 : r \in Value(LitsOf(top)[i]).met}
      BY <1>2 DEF FrameSays
    <3>2. f.part.met = top.part.met \cap Value(x).met
      BY <1>7
    <3> QED
      BY <1>10, <1>12, <3>1, <3>2
  <2> QED
    BY <2>1, <2>2, <2>3, <2>4 DEF FrameSays
<1>14. stack' = Append(Below, f) /\ f.name = Top.name
  BY <1>5 DEF top
<1> HIDE DEF f
<1> QED
  BY <1>1, <1>9, <1>11, <1>13, <1>14, CallKeeps

\* An alternative that has been gone through to its end.
LEMMA AlternativeEnds ==
    ASSUME ConditionInv, AtEnd
    PROVE  /\ LitsOf(Top) = AltsOf(Top)[Top.alt] /\ Top.item - 1 = Len(LitsOf(Top))
           /\ Parses(AltsOf(Top)[Top.alt]) <=> Top.part.parses
           /\ \A r \in Request : Meets(AltsOf(Top)[Top.alt], r) <=> r \in Top.part.met
           /\ Used(AltsOf(Top)[Top.alt]) \subseteq DOMAIN resolved
<1> DEFINE seq == AltsOf(Top)[Top.alt]
           top == Top
           n == Top.item - 1
<1>1. /\ top \in Frame /\ FrameSays(top) /\ seq = LitsOf(top) /\ n = Len(seq)
      /\ seq \in Seq(Literal)
  <2>1. /\ Top \in Frame /\ FrameSays(Top) /\ Literals = LitsOf(Top)
        /\ Literals \in Seq(Literal) /\ Len(Literals) \in Nat
        /\ Top.item \in 1..Len(Literals) + 1 /\ Top.item > Len(Literals)
    BY InCall DEF AtEnd
  <2>2. seq = LitsOf(Top)
    BY DEF AltsOf, LitsOf
  <2> QED
    BY <2>1, <2>2
<1>2. Elements(seq) = {seq[i] : i \in 1..n}
  BY <1>1, ElementsOf
<1>3. /\ \A i \in 1..top.item - 1 :
           LitsOf(top)[i].isRef => LitsOf(top)[i].name \in DOMAIN resolved
      /\ top.part.parses <=> \A i \in 1..top.item - 1 : Value(LitsOf(top)[i]).parses
      /\ top.part.met = {r \in Request : \A i \in 1..top.item - 1 : r \in Value(LitsOf(top)[i]).met}
  BY <1>1 DEF FrameSays
<1>4. n = top.item - 1
  OBVIOUS
<1> HIDE DEF seq, n, top
<1>5. /\ \A i \in 1..n : seq[i].isRef => seq[i].name \in DOMAIN resolved
      /\ top.part.parses <=> \A i \in 1..n : Value(seq[i]).parses
      /\ top.part.met = {r \in Request : \A i \in 1..n : r \in Value(seq[i]).met}
  BY <1>1, <1>3, <1>4
<1>6. Parses(seq) <=> top.part.parses
  BY <1>2, <1>5 DEF Parses
<1>7. \A r \in Request : Meets(seq, r) <=> r \in top.part.met
  BY <1>2, <1>5 DEF Meets
<1>8. Used(seq) \subseteq DOMAIN resolved
  BY <1>2, <1>5 DEF Used
<1> QED
  BY <1>1, <1>4, <1>6, <1>7, <1>8 DEF seq, top, n

\* The alternative joins those before it.
LEMMA AlternativeKeeps ==
    ASSUME ConditionInv, NextAlternative
    PROVE  ConditionInv'
<1> DEFINE top == Top
           f == [name |-> top.name, alt |-> top.alt + 1, item |-> 1,
                 part |-> Always, parts |-> Or(top.parts, top.part)]
<1>1. /\ stage = "conditions" /\ stack # <<>> /\ top.item > Len(Literals)
      /\ top.alt < Len(Alternatives)
      /\ UNCHANGED <<policy, stage, resolving, resolved, compiled>>
  BY DEF NextAlternative, AtEnd, networking
<1>2. /\ top \in Frame /\ FrameShape(top) /\ FrameSays(top) /\ Literals = LitsOf(top)
      /\ Alternatives = AltsOf(top) /\ top.name \in Names
      /\ Literals \in Seq(Literal) /\ Len(Literals) \in Nat /\ Len(Alternatives) \in Nat
      /\ top.item \in 1..Len(Literals) + 1 /\ top.alt \in 1..Len(Alternatives)
  BY <1>1, InCall
<1>3. stack' = Append(Below, f)
  BY DEF NextAlternative, Call
<1> HIDE DEF top
<1>4. /\ top.part \in Text /\ top.parts \in Text /\ top.alt \in Nat
      /\ top = [name |-> top.name, alt |-> top.alt, item |-> top.item,
                part |-> top.part, parts |-> top.parts]
  BY <1>2 DEF Frame
<1>5. /\ Or(top.parts, top.part) \in Text /\ Always \in Text
      /\ Or(top.parts, top.part).parses = (top.parts.parses /\ top.part.parses)
      /\ Or(top.parts, top.part).met = top.parts.met \cup top.part.met
  BY <1>4, Texts
<1>7. f \in Frame
  BY <1>2, <1>4, <1>5 DEF Frame
<1>8. /\ AltsOf(f) = AltsOf(top) /\ LitsOf(top) = AltsOf(top)[top.alt]
      /\ f.alt - 1 = top.alt /\ 1..top.alt = (1..top.alt - 1) \cup {top.alt}
      /\ top.item - 1 = Len(LitsOf(top))
  <2>1. top.alt \in Nat /\ top.alt >= 1 /\ top.item > Len(Literals)
    BY <1>1, <1>2 DEF top
  <2>2. f.alt - 1 = top.alt /\ 1..top.alt = (1..top.alt - 1) \cup {top.alt}
    BY <2>1
  <2>3. top.item - 1 = Len(LitsOf(top))
    BY <1>2, <2>1
  <2> QED
    BY <2>2, <2>3 DEF AltsOf, LitsOf
<1>9. LitsOf(f) \in Seq(Literal) /\ Len(LitsOf(f)) \in Nat
  <2>1. f.alt \in 1..Len(AltsOf(f))
    BY <1>1, <1>2, <1>8 DEF top
  <2> QED
    BY <1>2, <2>1, Expressions DEF ConditionInv, AltsOf, LitsOf
<1>10. FrameShape(f)
  BY <1>1, <1>2, <1>8, <1>9 DEF FrameShape, top
<1>12. /\ Parses(AltsOf(top)[top.alt]) <=> top.part.parses
       /\ \A r \in Request : Meets(AltsOf(top)[top.alt], r) <=> r \in top.part.met
       /\ Used(AltsOf(top)[top.alt]) \subseteq DOMAIN resolved
  BY AlternativeEnds DEF NextAlternative, top
<1>13. FrameSays(f)
  <2>1. \A j \in 1..f.alt - 1 : Used(AltsOf(f)[j]) \subseteq DOMAIN resolved
    BY <1>2, <1>8, <1>12 DEF FrameSays
  <2>2. /\ \A i \in 1..f.item - 1 : FALSE
        /\ f.part.parses /\ f.part.met = Request
    BY DEF Always
  <2>3. f.parts.parses <=> \A j \in 1..f.alt - 1 : Parses(AltsOf(f)[j])
    <3>1. top.parts.parses <=> \A j \in 1..top.alt - 1 : Parses(AltsOf(top)[j])
      BY <1>2 DEF FrameSays
    <3>2. f.parts.parses <=> top.parts.parses /\ top.part.parses
      BY <1>5
    <3> QED
      BY <1>8, <1>12, <3>1, <3>2
  <2>4. f.parts.met = {r \in Request : \E j \in 1..f.alt - 1 : Meets(AltsOf(f)[j], r)}
    <3>1. top.parts.met = {r \in Request : \E j \in 1..top.alt - 1 : Meets(AltsOf(top)[j], r)}
      BY <1>2 DEF FrameSays
    <3>2. f.parts.met = top.parts.met \cup top.part.met /\ top.part.met \subseteq Request
      BY <1>4, <1>5 DEF Text
    <3> QED
      BY <1>8, <1>12, <3>1, <3>2
  <2> QED
    BY <2>1, <2>2, <2>3, <2>4 DEF FrameSays
<1>14. stack' = Append(Below, f) /\ f.name = Top.name
  BY <1>3 DEF top
<1> HIDE DEF f
<1> QED
  BY <1>1, <1>7, <1>10, <1>13, <1>14, CallKeeps

\* A call is made for a name that is neither resolved nor being resolved.
LEMMA ResolveKeeps ==
    ASSUME ConditionInv, stage = "conditions", UNCHANGED <<policy, compiled>>,
           NEW n \in Names \ DOMAIN resolved, n \notin resolving, Resolve(n),
           stack # <<>> => Waits(Top, n)
    PROVE  ConditionInv'
<1> DEFINE f == [name |-> n, alt |-> 1, item |-> 1, part |-> Always, parts |-> Never]
           new == Append(stack, f)
<1>1. /\ stack' = new /\ resolving' = resolving \cup {n}
      /\ UNCHANGED <<policy, stage, resolved, compiled>>
  BY DEF Resolve, Call
<1>2. StackOk(stack, resolving) /\ stack \in Seq(Frame) /\ Len(stack) \in Nat
  BY DEF ConditionInv, StackInv, StackOk
<1>3. /\ Always \in Text /\ Never \in Text /\ Always.parses /\ Never.parses
      /\ Always.met = Request /\ Never.met = {}
  BY DEF Always, Never, Text
<1>4. f \in Frame /\ FrameShape(f)
  <2>1. f \in Frame
    BY <1>3 DEF Frame
  <2>2. /\ AltsOf(f) = policy.conditions[n] /\ LitsOf(f) = policy.conditions[n][1]
        /\ Len(AltsOf(f)) \in Nat /\ Len(AltsOf(f)) >= 1 /\ Len(LitsOf(f)) \in Nat
    BY Expressions DEF ConditionInv, AltsOf, LitsOf
  <2> QED
    BY <2>1, <2>2 DEF FrameShape
<1>5. FrameSays(f)
  BY <1>3 DEF FrameSays
<1> HIDE DEF f
<1>6. /\ new \in Seq(Frame) /\ Len(new) = Len(stack) + 1 /\ new[Len(stack) + 1] = f
      /\ \A i \in 1..Len(stack) : new[i] = stack[i]
  BY <1>2, <1>4, AppendProperties
<1>7. f.name = n
  BY DEF f
<1> HIDE DEF new
<1> DEFINE k == Len(stack)
<1>8. /\ k \in Nat /\ new \in Seq(Frame) /\ Len(new) = k + 1 /\ new[k + 1] = f
      /\ \A i \in 1..k : new[i] = stack[i]
      /\ 1..k + 1 = (1..k) \cup {k + 1}
  BY <1>2, <1>6
<1>9. /\ resolving = {stack[i].name : i \in 1..k}
      /\ \A i, j \in 1..k : stack[i].name = stack[j].name => i = j
      /\ \A i \in 1..k : FrameShape(stack[i]) /\ FrameSays(stack[i])
      /\ \A i \in 1..k - 1 : Waits(stack[i], stack[i + 1].name)
      /\ k >= 1 => Waits(stack[k], n)
  <2>1. k >= 1 => stack # <<>> /\ Top = stack[k]
    BY <1>2 DEF Top
  <2> QED
    BY <1>2, <2>1 DEF StackOk
<1> HIDE DEF k
<1>10. resolving \cup {n} = {new[i].name : i \in 1..k + 1}
  BY <1>7, <1>8, <1>9
<1>11. \A i, j \in 1..k + 1 : new[i].name = new[j].name => i = j
  BY <1>7, <1>8, <1>9
<1>12. \A i \in 1..k + 1 : FrameShape(new[i]) /\ FrameSays(new[i])
  BY <1>4, <1>5, <1>8, <1>9
<1>13. ASSUME NEW i \in 1..k + 1 - 1
       PROVE  Waits(new[i], new[i + 1].name)
  <2>1. i \in 1..k /\ (i = k \/ (i \in 1..k - 1 /\ i + 1 \in 1..k))
    BY <1>8
  <2>2. CASE i = k
    BY <1>7, <1>8, <1>9, <2>1, <2>2
  <2>3. CASE i \in 1..k - 1 /\ i + 1 \in 1..k
    BY <1>8, <1>9, <2>1, <2>3
  <2> QED
    BY <2>1, <2>2, <2>3
<1>14. StackOk(new, resolving \cup {n})
  BY <1>8, <1>10, <1>11, <1>12, <1>13 DEF StackOk
<1>15. StackInv'
  BY <1>1, <1>14, StackKept DEF ConditionInv
<1>16. StageInv'
  BY <1>1 DEF ConditionInv, StageInv, Names
<1> QED
  BY <1>1, <1>15, <1>16, ResolvedKept, RulesKept DEF ConditionInv

-----------------------------------------------------------------------------
(* A call returns.                                                         *)

\* What the call has gathered is what its condition means.
LEMMA ReturnMeans ==
    ASSUME ConditionInv, AtEnd, Top.alt = Len(Alternatives)
    PROVE  /\ References(Top.name) \subseteq DOMAIN resolved
           /\ Or(Top.parts, Top.part) = Meaning(Top.name)
           /\ Or(Top.parts, Top.part) \in Text
<1> DEFINE top == Top
           alts == policy.conditions[Top.name]
           k == Top.alt
<1>1. stack # <<>>
  BY DEF AtEnd
<1>2. /\ top \in Frame /\ FrameSays(top) /\ AltsOf(top) = alts /\ k = top.alt
      /\ k = Len(alts) /\ k \in Nat /\ k >= 1
      /\ Elements(alts) = {alts[j] : j \in 1..Len(alts)}
  BY <1>1, InCall, Expressions DEF ConditionInv, AltsOf, Alternatives
<1>3. /\ Parses(AltsOf(top)[top.alt]) <=> top.part.parses
      /\ \A r \in Request : Meets(AltsOf(top)[top.alt], r) <=> r \in top.part.met
      /\ Used(AltsOf(top)[top.alt]) \subseteq DOMAIN resolved
  BY AlternativeEnds
<1>4. /\ \A j \in 1..top.alt - 1 : Used(AltsOf(top)[j]) \subseteq DOMAIN resolved
      /\ top.parts.parses <=> \A j \in 1..top.alt - 1 : Parses(AltsOf(top)[j])
      /\ top.parts.met = {r \in Request : \E j \in 1..top.alt - 1 : Meets(AltsOf(top)[j], r)}
  BY <1>2 DEF FrameSays
<1>5. /\ References(Top.name) = UNION {Used(alt) : alt \in Elements(alts)}
      /\ Meaning(Top.name) =
           [parses |-> \A alt \in Elements(alts) : Parses(alt),
            met |-> {r \in Request : \E alt \in Elements(alts) : Meets(alt, r)}]
  BY DEF References, Meaning
<1>6. top.part \in Text /\ top.parts \in Text /\ top.part.met \subseteq Request
  BY <1>2 DEF Frame, Text
<1>7. /\ Or(top.parts, top.part) =
           [parses |-> top.parts.parses /\ top.part.parses,
            met |-> top.parts.met \cup top.part.met]
      /\ Or(top.parts, top.part) \in Text
  BY <1>6, Texts DEF Or
<1>8. top = Top
  OBVIOUS
<1> HIDE DEF alts, k, top
<1>9. /\ \A j \in 1..k - 1 : Used(alts[j]) \subseteq DOMAIN resolved
      /\ Used(alts[k]) \subseteq DOMAIN resolved
      /\ (top.parts.parses /\ top.part.parses) <=> \A j \in 1..k : Parses(alts[j])
      /\ top.parts.met \cup top.part.met = {r \in Request : \E j \in 1..k : Meets(alts[j], r)}
  <2>1. 1..k = (1..k - 1) \cup {k}
    BY <1>2
  <2>2. (top.parts.parses /\ top.part.parses) <=> \A j \in 1..k : Parses(alts[j])
    BY <1>2, <1>3, <1>4, <2>1
  <2>3. top.parts.met \cup top.part.met = {r \in Request : \E j \in 1..k : Meets(alts[j], r)}
    BY <1>2, <1>3, <1>4, <1>6, <2>1
  <2> QED
    BY <1>2, <1>3, <1>4, <2>2, <2>3
<1>10. \A j \in 1..Len(alts) : Used(alts[j]) \subseteq DOMAIN resolved
  BY <1>2, <1>9
<1>11. References(Top.name) \subseteq DOMAIN resolved
  BY <1>2, <1>5, <1>10
<1>12. /\ (\A alt \in Elements(alts) : Parses(alt)) <=> (top.parts.parses /\ top.part.parses)
       /\ {r \in Request : \E alt \in Elements(alts) : Meets(alt, r)} =
            top.parts.met \cup top.part.met
  BY <1>2, <1>9
<1>13. Or(top.parts, top.part) = Meaning(Top.name)
  <2>1. (\A alt \in Elements(alts) : Parses(alt)) = (top.parts.parses /\ top.part.parses)
    BY <1>6, <1>12 DEF Text
  <2> QED
    BY <1>5, <1>7, <1>12, <2>1
<1> QED
  BY <1>7, <1>8, <1>11, <1>13

\* A name that refers to none outside an acyclic set may join it.
LEMMA AcyclicJoin ==
    ASSUME NEW D \in SUBSET Names, NEW n \in Names \ D, Acyclic(D), References(n) \subseteq D,
           \A m \in D : References(m) \subseteq D
    PROVE  Acyclic(D \cup {n})
<1> SUFFICES ASSUME NEW S \in SUBSET (D \cup {n}), S # {}
             PROVE  \E m \in S : References(m) \cap S = {}
  BY DEF Acyclic
<1>1. CASE S \ {n} = {}
  <2>1. S = {n}
    BY <1>1
  <2> QED
    BY <2>1
<1>2. CASE S \ {n} # {}
  <2>1. S \ {n} \in SUBSET D
    OBVIOUS
  <2>2. PICK m \in S \ {n} : References(m) \cap (S \ {n}) = {}
    BY <1>2, <2>1 DEF Acyclic
  <2>3. References(m) \subseteq D
    BY <2>1
  <2> QED
    BY <2>2, <2>3
<1> QED
  BY <1>1, <1>2

\* A name whose condition cannot be parsed leads to a text that cannot.
LEMMA UnparsedLeads ==
    ASSUME ConditionInv, NEW n \in Names, References(n) \subseteq DOMAIN resolved,
           ~Meaning(n).parses, NEW S \in SUBSET Names, Closed(S), n \in S
    PROVE  BrokenIn(S)
<1>1. PICK alt \in Elements(policy.conditions[n]) : ~Parses(alt)
  BY DEF Meaning
<1>2. PICK x \in Elements(alt) : ~Value(x).parses
  BY <1>1 DEF Parses
<1>3. x \in Literal
  <2>1. /\ Elements(policy.conditions[n]) =
             {policy.conditions[n][j] : j \in 1..Len(policy.conditions[n])}
        /\ \A j \in 1..Len(policy.conditions[n]) :
             Elements(policy.conditions[n][j]) \subseteq Literal
    BY Expressions DEF ConditionInv
  <2> QED
    BY <1>1, <1>2, <2>1
<1>4. x.isRef => x.name \in References(n)
  BY <1>1, <1>2 DEF References, Used
<1>5. ~IF x.isRef THEN resolved[x.name].parses ELSE x.text.parses
  BY <1>2, <1>3, <1>4, ValueShape DEF ConditionInv, ResolvedInv
<1>6. CASE x.isRef
  <2>1. x.name \in DOMAIN resolved /\ x.name \in S /\ ~resolved[x.name].parses
    BY <1>4, <1>5, <1>6 DEF Closed
  <2> QED
    BY <2>1 DEF ConditionInv, ResolvedInv
<1>7. CASE ~x.isRef
  BY <1>1, <1>2, <1>5, <1>7 DEF BrokenIn, Broken
<1> QED
  BY <1>6, <1>7

LEMMA ReturnKeeps ==
    ASSUME ConditionInv, Return
    PROVE  ConditionInv'
<1> DEFINE n == Top.name
           D == DOMAIN resolved
           value == Or(Top.parts, Top.part)
<1>1. /\ stage = "conditions" /\ stack # <<>> /\ AtEnd /\ Top.alt = Len(Alternatives)
      /\ stack' = Below /\ resolving' = resolving \ {n}
      /\ resolved' = Extended(resolved, n, value)
      /\ UNCHANGED <<policy, stage, compiled>>
  BY DEF Return, AtEnd, networking
<1>2. n \in Names \ D /\ D \subseteq Names
  BY <1>1, InCall DEF FrameShape, ConditionInv, ResolvedInv
<1>3. References(n) \subseteq D /\ value = Meaning(n) /\ value \in Text
  BY <1>1, ReturnMeans
<1>4. /\ DOMAIN resolved' = D \cup {n} /\ resolved'[n] = value
      /\ \A m \in D : resolved'[m] = resolved[m]
      /\ resolved' \in [D \cup {n} -> Text]
  <2>1. resolved \in [D -> Text]
    BY DEF ConditionInv, ResolvedInv
  <2> QED
    BY <1>1, <1>2, <1>3, <2>1 DEF Extended
<1> HIDE DEF value, n, D
<1>5. /\ \A m \in D : References(m) \subseteq D /\ resolved[m] = Meaning(m)
      /\ Acyclic(D) /\ D = DOMAIN resolved
  BY DEF ConditionInv, ResolvedInv, D
<1>6. /\ Names' = Names /\ \A m : References(m)' = References(m)
      /\ \A S : (Closed(S)' <=> Closed(S)) /\ (BrokenIn(S)' <=> BrokenIn(S))
      /\ \A names : Acyclic(names)' <=> Acyclic(names)
  BY <1>1 DEF Names, References, Closed, BrokenIn, Acyclic
<1>7. ASSUME NEW m \in D \cup {n}
      PROVE  Meaning(m)' = Meaning(m)
  <2>1. References(m) \subseteq D
    BY <1>3, <1>5
  <2>2. ASSUME NEW alt \in Elements(policy.conditions[m])
        PROVE  /\ Parses(alt)' <=> Parses(alt)
               /\ \A r : Meets(alt, r)' <=> Meets(alt, r)
    <3>1. Used(alt) \subseteq D
      BY <2>1 DEF References
    <3>2. \A x \in Elements(alt) : Value(x)' = Value(x)
      BY <1>4, <1>5, <3>1, ValueKept DEF Used
    <3> QED
      BY <3>2 DEF Parses, Meets
  <2> QED
    BY <1>1, <2>2 DEF Meaning
<1>8. ResolvedInv'
  <2>1. \A m \in D \cup {n} : resolved'[m] = Meaning(m)'
    BY <1>3, <1>4, <1>5, <1>7
  <2>2. Acyclic(D \cup {n})
    BY <1>2, <1>3, <1>5, AcyclicJoin
  <2>3. \A m \in D \cup {n} : References(m) \subseteq D \cup {n}
    BY <1>3, <1>5
  <2>4. ASSUME NEW m \in D \cup {n}, ~resolved'[m].parses,
               NEW S \in SUBSET Names, Closed(S), m \in S
        PROVE  BrokenIn(S)
    <3>1. ~Meaning(m).parses /\ References(m) \subseteq DOMAIN resolved /\ m \in Names
      BY <1>2, <1>3, <1>4, <1>5, <2>4
    <3> QED
      BY <2>4, <3>1, UnparsedLeads
  <2>5. D \cup {n} \subseteq Names
    BY <1>2
  <2>6. /\ DOMAIN resolved' \subseteq Names /\ resolved' \in [DOMAIN resolved' -> Text]
        /\ \A m \in DOMAIN resolved' : References(m)' \subseteq DOMAIN resolved'
        /\ \A m \in DOMAIN resolved' : resolved'[m] = Meaning(m)'
        /\ Acyclic(DOMAIN resolved')
    BY <1>4, <1>6, <2>1, <2>2, <2>3, <2>5
  <2>7. \A m \in DOMAIN resolved' : ~resolved'[m].parses =>
          \A S \in SUBSET Names : Closed(S) /\ m \in S => BrokenIn(S)
    BY <1>4, <2>4
  <2>8. Acyclic(DOMAIN resolved)'
    BY <1>6, <2>6
  <2>9. resolved' \in [DOMAIN resolved' -> Text']
    BY <2>6 DEF Text
  <2> QED
    BY <1>6, <2>6, <2>7, <2>8, <2>9 DEF ResolvedInv
<1>9. StackInv'
  <2> DEFINE k == Len(stack) - 1
  <2>1. PICK new \in Seq(Frame) :
          /\ stack' = new /\ Len(new) = k /\ \A i \in 1..k : new[i] = stack[i]
          /\ StackOk(stack, resolving) /\ k \in Nat /\ n = stack[k + 1].name
          /\ k + 1 = Len(stack)
    <3>1. stack \in Seq(Frame) /\ StackOk(stack, resolving) /\ n = stack[Len(stack)].name
      BY DEF ConditionInv, StackInv, StackOk, Top, n
    <3> QED
      BY <1>1, <3>1, Returned DEF Below
  <2> HIDE DEF k
  <2>2. 1..k + 1 = (1..k) \cup {k + 1} /\ k + 1 \in 1..k + 1
    BY <2>1
  <2>3. /\ \A i, j \in 1..k + 1 : stack[i].name = stack[j].name => i = j
        /\ resolving = {stack[i].name : i \in 1..k + 1}
        /\ \A i \in 1..k + 1 : FrameShape(stack[i]) /\ FrameSays(stack[i])
        /\ \A i \in 1..k : Waits(stack[i], stack[i + 1].name)
        /\ \A i \in 1..k + 1 : stack[i] \in Frame
    BY <2>1 DEF StackOk
  <2>4. \A i \in 1..k : stack[i].name # n
    BY <2>1, <2>2, <2>3
  <2>5. resolving \ {n} = {new[i].name : i \in 1..k}
    BY <2>1, <2>2, <2>3, <2>4
  <2>6. ASSUME NEW i \in 1..k
        PROVE  FrameShape(new[i])' /\ FrameSays(new[i])'
    <3>1. /\ stack[i] \in Frame /\ FrameShape(stack[i]) /\ FrameSays(stack[i])
          /\ stack[i].name \notin D
      BY <2>2, <2>3 DEF FrameShape, D
    <3>2. stack[i].name \notin DOMAIN resolved'
      BY <1>4, <2>4, <3>1
    <3>3. PICK f \in Frame : f = stack[i]
      BY <3>1
    <3>4. new[i] = f
      BY <2>1, <3>3
    <3>5. FrameShape(f)' /\ FrameSays(f)'
      BY <1>1, <1>4, <1>5, <3>1, <3>2, <3>3, FrameKept DEF ConditionInv
    <3> QED
      BY <3>4, <3>5
  <2>7. \A i, j \in 1..k : new[i].name = new[j].name => i = j
    BY <2>1, <2>2, <2>3
  <2>8. ASSUME NEW i \in 1..k - 1
        PROVE  Waits(new[i], new[i + 1].name)
    <3>1. i \in 1..k /\ i + 1 \in 1..k
      BY <2>1
    <3> QED
      BY <2>1, <2>3, <3>1
  <2>9. new \in Seq(Frame')
    BY <1>6, <2>1 DEF Frame, Text
  <2>10. \A f, m : Waits(f, m)' <=> Waits(f, m)
    BY <1>1 DEF Waits, LitsOf
  <2> QED
    BY <1>1, <2>1, <2>5, <2>6, <2>7, <2>8, <2>9, <2>10 DEF StackInv, StackOk
<1>10. RuleInv' /\ StageInv'
  <2>1. compiled = <<>>
    BY <1>1 DEF ConditionInv, StageInv
  <2>2. StageInv'
    BY <1>1, <2>1 DEF ConditionInv, StageInv
  <2>3. compiled' = <<>> /\ policy' = policy /\ RuleInv
    BY <1>1, <2>1 DEF ConditionInv
  <2> QED
    BY <2>2, <2>3 DEF RuleInv
<1> QED
  BY <1>1, <1>8, <1>9, <1>10 DEF ConditionInv, IsPolicy, NetworkEntry, Literal, Line, Text

-----------------------------------------------------------------------------
(* The rules, and the compilation as a whole.                              *)

\* Steps that leave conditions and rules alone.
LEMMA ElsewhereKeeps ==
    ASSUME ConditionInv, UNCHANGED <<policy, conditioning, compiled>>, StageInv'
    PROVE  ConditionInv'
<1>1. UNCHANGED <<policy, stack, resolving, resolved, compiled>>
  BY DEF conditioning
<1>2. StackInv'
  BY <1>1, StackKept DEF ConditionInv, StackInv
<1>3. IsPolicy(policy)'
  BY <1>1 DEF ConditionInv, IsPolicy, NetworkEntry, Literal, Line, Text
<1> QED
  BY <1>1, <1>2, <1>3, ResolvedKept, RulesKept DEF ConditionInv

LEMMA CompileRuleKeeps ==
    ASSUME ConditionInv, CompileRule
    PROVE  ConditionInv'
<1> DEFINE k == Len(compiled)
           met == {r \in Request : \A x \in Elements(Rule) : r \in Value(x).met}
<1>1. /\ stage = "rules" /\ k < Len(policy.rules) /\ UNCHANGED <<policy, conditioning>>
      /\ \/ Compiles(Rule) /\ compiled' = Append(compiled, met) /\ stage' = stage
         \/ stage' = "failed" /\ compiled' = compiled
  BY DEF CompileRule, Fails
<1>2. UNCHANGED <<policy, stack, resolving, resolved>>
  BY <1>1 DEF conditioning
<1>3. CASE stage' = "failed" /\ compiled' = compiled
  <2>1. StageInv'
    BY <1>3 DEF StageInv
  <2> QED
    BY <1>1, <1>3, <2>1, ElsewhereKeeps
<1>4. CASE Compiles(Rule) /\ compiled' = Append(compiled, met) /\ stage' = stage
  <2>1. /\ compiled \in Seq(SUBSET Request) /\ k \in Nat /\ Rule = policy.rules[k + 1]
        /\ \A i \in 1..k : /\ Compiles(policy.rules[i])
                           /\ compiled[i] = {r \in Request : Meets(policy.rules[i], r)}
        /\ Len(policy.rules) \in Nat
    BY Expressions DEF ConditionInv, RuleInv, Rule
  <2>2. met \in SUBSET Request /\ met = {r \in Request : Meets(Rule, r)}
    BY DEF Meets
  <2> HIDE DEF met
  <2>3. /\ Append(compiled, met) \in Seq(SUBSET Request)
        /\ Len(Append(compiled, met)) = k + 1 /\ Append(compiled, met)[k + 1] = met
        /\ \A i \in 1..k : Append(compiled, met)[i] = compiled[i]
    BY <2>1, <2>2, AppendProperties
  <2> HIDE DEF k
  <2>4. PICK new \in Seq(SUBSET Request) :
          /\ compiled' = new /\ Len(new) = k + 1 /\ new[k + 1] = met
          /\ \A i \in 1..k : new[i] = compiled[i]
    BY <1>4, <2>3
  <2>5. \A x : Value(x)' = Value(x)
    BY <1>2 DEF Value
  <2>6. \A seq : /\ Compiles(seq)' <=> Compiles(seq)
                 /\ \A r : Meets(seq, r)' <=> Meets(seq, r)
    BY <1>2, <2>5 DEF Compiles, Meets
  <2>7. ASSUME NEW i \in 1..k + 1
        PROVE  /\ Compiles(policy.rules[i])
               /\ new[i] = {r \in Request : Meets(policy.rules[i], r)}
    <3>1. CASE i = k + 1
      BY <1>4, <2>1, <2>2, <2>4, <3>1
    <3>2. CASE i # k + 1
      <4>1. i \in 1..k
        BY <2>1, <3>2
      <4> QED
        BY <2>1, <2>4, <4>1
    <3> QED
      BY <3>1, <3>2
  <2>8. RuleInv'
    <3>1. Len(new) <= Len(policy.rules)
      BY <1>1, <2>1, <2>4 DEF k
    <3> QED
      BY <1>2, <2>4, <2>6, <2>7, <3>1 DEF RuleInv
  <2>9. StackInv' /\ ResolvedInv'
    BY <1>2, StackKept, ResolvedKept DEF ConditionInv, StackInv
  <2>10. StageInv'
    BY <1>1, <1>2, <1>4 DEF ConditionInv, StageInv, Names
  <2>11. IsPolicy(policy)'
    BY <1>2 DEF ConditionInv, IsPolicy, NetworkEntry, Literal, Line, Text
  <2> QED
    BY <2>8, <2>9, <2>10, <2>11 DEF ConditionInv
<1> QED
  BY <1>1, <1>3, <1>4

LEMMA NextNameKeeps ==
    ASSUME ConditionInv, NextName
    PROVE  ConditionInv'
<1>1. PICK n \in Names \ DOMAIN resolved : Resolve(n)
  BY DEF NextName, Names
<1>2. stage = "conditions" /\ stack = <<>> /\ UNCHANGED <<policy, compiled>>
  BY DEF NextName
<1>3. resolving = {}
  BY <1>2 DEF ConditionInv, StackInv, StackOk
<1> QED
  BY <1>1, <1>2, <1>3, ResolveKeeps

LEMMA ReferKeeps ==
    ASSUME ConditionInv, Refer
    PROVE  ConditionInv'
<1> DEFINE x == Literals[Top.item]
<1>1. /\ stage = "conditions" /\ stack # <<>> /\ Top.item <= Len(Literals)
      /\ x.isRef /\ x.name \notin DOMAIN resolved /\ UNCHANGED <<policy, compiled>>
      /\ \/ stage' = "failed" /\ UNCHANGED conditioning
         \/ x.name \in Names /\ x.name \notin resolving /\ Resolve(x.name)
  BY DEF Refer, Reads, Fails, Names
<1>2. CASE stage' = "failed" /\ UNCHANGED conditioning
  <2>1. StageInv'
    BY <1>1, <1>2 DEF StageInv
  <2> QED
    BY <1>1, <1>2, <2>1, ElsewhereKeeps
<1>3. CASE x.name \in Names /\ x.name \notin resolving /\ Resolve(x.name)
  <2>1. Waits(Top, x.name)
    BY <1>1, InCall DEF Waits
  <2> QED
    BY <1>1, <1>3, <2>1, ResolveKeeps
<1> QED
  BY <1>1, <1>2, <1>3

LEMMA AllNamesKeeps ==
    ASSUME ConditionInv, AllNames \/ AllRules
    PROVE  ConditionInv'
<1>1. UNCHANGED <<policy, conditioning, compiled>>
  BY DEF AllNames, AllRules
<1>2. StageInv'
  BY DEF AllNames, AllRules, ConditionInv, StageInv, ResolvedInv, Names, conditioning
<1> QED
  BY <1>1, <1>2, ElsewhereKeeps

LEMMA NetworkStepsKeep ==
    ASSUME ConditionInv,
           \/ Read \/ ReadFails \/ NextGroup \/ AllGroups \/ NextEntry \/ Whois \/ WhoisFails
           \/ FetchPrefixes \/ FetchFails \/ InsertPrefix
    PROVE  ConditionInv'
<1>1. UNCHANGED <<policy, conditioning, compiled>>
  BY DEF Read, ReadFails, NextGroup, AllGroups, NextEntry, Whois, WhoisFails, FetchPrefixes,
         FetchFails, InsertPrefix
<1>2. /\ stage \in {"read", "group", "entry", "whois", "fetch"}
      /\ stage' \in {"group", "entry", "whois", "fetch", "conditions", "failed"}
  BY DEF Read, ReadFails, NextGroup, AllGroups, NextEntry, Whois, WhoisFails, FetchPrefixes,
         FetchFails, InsertPrefix, Fails
<1>3. StageInv'
  BY <1>1, <1>2 DEF ConditionInv, StageInv, conditioning
<1> QED
  BY <1>1, <1>3, ElsewhereKeeps

LEMMA ConditionStart == PolicyInit => ConditionInv
<1> SUFFICES ASSUME PolicyInit
             PROVE  ConditionInv
  OBVIOUS
<1>1. /\ IsPolicy(policy) /\ stage = "read" /\ stack = <<>> /\ resolving = {}
      /\ DOMAIN resolved = {} /\ compiled = <<>> /\ resolved = [n \in {} |-> 0]
  BY DEF PolicyInit
<1>2. ResolvedInv
  <2>1. Acyclic({})
    BY DEF Acyclic
  <2>2. resolved \in [{} -> Text]
    BY <1>1
  <2> QED
    BY <1>1, <2>1, <2>2 DEF ResolvedInv
<1>3. StackInv
  BY <1>1 DEF StackInv, StackOk
<1>4. RuleInv
  <2>1. Len(policy.rules) \in Nat
    BY <1>1, Expressions
  <2> QED
    BY <1>1, <2>1 DEF RuleInv
<1> QED
  BY <1>1, <1>2, <1>3, <1>4 DEF ConditionInv, StageInv

LEMMA ConditionNext == ConditionInv /\ [Compile]_policyVars => ConditionInv'
<1> SUFFICES ASSUME ConditionInv, [Compile]_policyVars
             PROVE  ConditionInv'
  OBVIOUS
<1>1. CASE \/ Read \/ ReadFails \/ NextGroup \/ AllGroups \/ NextEntry \/ Whois \/ WhoisFails
           \/ FetchPrefixes \/ FetchFails \/ InsertPrefix
  BY <1>1, NetworkStepsKeep
<1>2. CASE NextName \/ Substitute \/ Refer
  BY <1>2, NextNameKeeps, SubstituteKeeps, ReferKeeps
<1>3. CASE NextAlternative \/ Return \/ AllNames
  BY <1>3, AlternativeKeeps, ReturnKeeps, AllNamesKeeps
<1>4. CASE CompileRule \/ AllRules
  BY <1>4, CompileRuleKeeps, AllNamesKeeps
<1>5. CASE UNCHANGED policyVars
  <2>1. UNCHANGED <<policy, stage, conditioning, compiled>>
    BY <1>5 DEF policyVars
  <2>2. StageInv'
    BY <2>1 DEF ConditionInv, StageInv, Names, conditioning
  <2> QED
    BY <2>1, <2>2, ElsewhereKeeps
<1> QED
  BY <1>1, <1>2, <1>3, <1>4, <1>5 DEF Compile

LEMMA ConditionInvariance == PolicySpec => []ConditionInv
  BY ConditionStart, ConditionNext, PTL DEF PolicySpec

\* The compiled rules mean what the file says, for any number of names, of
\* alternatives and of rules (resolveConditionName, compilePolicyFile).
THEOREM RulesHaveTheirMeaning == PolicySpec => []RulesMean
<1>1. ConditionInv => RulesMean
  <2> SUFFICES ASSUME ConditionInv, stage = "done"
               PROVE  \E val \in [Names -> SUBSET Request] :
                        /\ \A n \in DOMAIN val :
                             val[n] = {r \in Request : \E alt \in Elements(policy.conditions[n]) :
                                                         AllHold(alt, r, val)}
                        /\ compiled = [i \in DOMAIN policy.rules |->
                                         {r \in Request : AllHold(policy.rules[i], r, val)}]
    BY DEF RulesMean, Names
  <2> DEFINE val == [n \in Names |-> resolved[n].met]
  <2>1. /\ DOMAIN resolved = Names /\ resolved \in [Names -> Text]
        /\ \A n \in Names : resolved[n] = Meaning(n) /\ References(n) \subseteq Names
    BY DEF ConditionInv, StageInv, ResolvedInv
  <2>2. /\ val \in [Names -> SUBSET Request] /\ DOMAIN val = Names
        /\ \A n \in Names : val[n] = resolved[n].met
    BY <2>1 DEF Text
  <2> HIDE DEF val
  <2>3. ASSUME NEW seq, Elements(seq) \subseteq Literal, Used(seq) \subseteq Names,
               NEW r \in Request
        PROVE  AllHold(seq, r, val) <=> Meets(seq, r)
    <3>1. ASSUME NEW x \in Elements(seq)
          PROVE  Holds(x, r, val) <=> r \in Value(x).met
      <4>1. x \in Literal /\ (x.isRef => x.name \in Names) /\ (x.isRef => x.name \in DOMAIN resolved)
        BY <2>1, <2>3 DEF Used
      <4>2. r \in Value(x).met <=>
              ((r \in IF x.isRef THEN resolved[x.name].met ELSE x.text.met) # x.negated)
        BY <2>1, <4>1, ValueShape
      <4> QED
        BY <2>2, <4>1, <4>2 DEF Holds
    <3> QED
      BY <3>1 DEF AllHold, Meets
  <2>4. ASSUME NEW n \in Names
        PROVE  val[n] = {r \in Request : \E alt \in Elements(policy.conditions[n]) :
                                           AllHold(alt, r, val)}
    <3>1. val[n] = {r \in Request : \E alt \in Elements(policy.conditions[n]) : Meets(alt, r)}
      BY <2>1, <2>2 DEF Meaning
    <3>2. ASSUME NEW alt \in Elements(policy.conditions[n])
          PROVE  Elements(alt) \subseteq Literal /\ Used(alt) \subseteq Names
      <4>1. Elements(alt) \subseteq Literal
        <5>1. /\ Elements(policy.conditions[n]) =
                   {policy.conditions[n][j] : j \in 1..Len(policy.conditions[n])}
              /\ \A j \in 1..Len(policy.conditions[n]) :
                   Elements(policy.conditions[n][j]) \subseteq Literal
          BY Expressions DEF ConditionInv
        <5> QED
          BY <5>1
      <4> QED
        BY <2>1, <4>1 DEF References
    <3> QED
      BY <2>3, <3>1, <3>2
  <2>5. compiled = [i \in DOMAIN policy.rules |->
                     {r \in Request : AllHold(policy.rules[i], r, val)}]
    <3>1. /\ policy.rules \in Seq(Seq(Literal)) /\ DOMAIN policy.rules = 1..Len(policy.rules)
          /\ \A i \in 1..Len(policy.rules) : Elements(policy.rules[i]) \subseteq Literal
      BY Expressions DEF ConditionInv
    <3>2. /\ compiled \in Seq(SUBSET Request) /\ Len(compiled) = Len(policy.rules)
          /\ \A i \in 1..Len(policy.rules) :
               /\ Compiles(policy.rules[i])
               /\ compiled[i] = {r \in Request : Meets(policy.rules[i], r)}
      BY DEF ConditionInv, RuleInv, StageInv
    <3>3. \A i \in 1..Len(policy.rules) : Used(policy.rules[i]) \subseteq Names
      BY <2>1, <3>2 DEF Compiles, Used
    <3>4. \A i \in 1..Len(policy.rules) :
            compiled[i] = {r \in Request : AllHold(policy.rules[i], r, val)}
      BY <2>3, <3>1, <3>2, <3>3
    <3> QED
      BY <3>1, <3>2, <3>4
  <2> QED
    BY <2>2, <2>4, <2>5
<1> QED
  BY <1>1, ConditionInvariance, PTL

-----------------------------------------------------------------------------
(* What is refused, and what is not.                                       *)

\* The entries of a group that have been fetched.
Fetched(g) ==
    IF Building /\ g = group THEN 1..IF stage = "entry" THEN entry ELSE entry - 1
    ELSE DOMAIN policy.networks[g]

\* None of them was of no use.
UsableInv ==
    stage # "failed" =>
        \A g \in DOMAIN tries : \A i \in Fetched(g) : ~Unusable(policy.networks[g][i])

Flawed == NoNetworks \/ Unknown \/ Cyclic \/ Unparsable

FailInv == stage = "failed" => Flawed \/ offline

\* The reasons for refusing an entry are those of NoNetworks.
LEMMA UnusableEntry ==
    ASSUME NEW e \in NetworkEntry
    PROVE  Unusable(e) <=>
             \/ NoPrefix \in Elements(e.inline)
             \/ e.source = "extract" /\ NoPrefix \in Elements(e.lines)
             \/ /\ Elements(e.inline) = {}
                /\ \/ e.source = "none" /\ ~e.asn
                   \/ e.source = "plain" /\ Elements(e.lines) \subseteq {NoPrefix}
<1>1. e.inline \in Seq(Line) /\ e.source \in {"none", "plain", "extract"} /\ e.asn \in BOOLEAN
  BY DEF NetworkEntry
<1>2. e.inline = <<>> <=> Elements(e.inline) = {}
  <2>1. Elements(e.inline) = {e.inline[i] : i \in 1..Len(e.inline)} /\ Len(e.inline) \in Nat
    BY <1>1, ElementsOf
  <2>2. CASE e.inline = <<>>
    BY <2>1, <2>2
  <2>3. CASE e.inline # <<>>
    <3>1. 1 \in 1..Len(e.inline)
      BY <1>1, <2>3
    <3>2. e.inline[1] \in Elements(e.inline)
      BY <2>1, <3>1
    <3> QED
      BY <2>3, <3>2
  <2> QED
    BY <2>2, <2>3
<1>3. Elements(Prefixes(e)) =
        Elements(e.inline) \cup IF e.source = "none" THEN {} ELSE Elements(e.lines)
  BY EntryParts
<1>4. Unusable(e) <=>
        \/ NoPrefix \in Elements(e.inline)
        \/ e.source = "extract" /\ NoPrefix \in Elements(e.lines)
        \/ e.source = "none" /\ e.inline = <<>> /\ ~e.asn
        \/ e.source = "plain" /\ Elements(Prefixes(e)) \subseteq {NoPrefix}
  BY DEF Unusable
<1> QED
  BY <1>1, <1>2, <1>3, <1>4

LEMMA UsableKept ==
    ASSUME GroupInv, UsableInv, [Compile]_policyVars
    PROVE  UsableInv'
<1>1. SUFFICES ASSUME stage' # "failed", stage # "failed",
                      NEW g \in DOMAIN tries', NEW i \in Fetched(g)'
               PROVE  policy' = policy /\ ~Unusable(policy.networks[g][i])
  <2>1. stage = "failed" => stage' = "failed"
    BY DEF Compile, policyVars, Read, ReadFails, NextGroup, AllGroups, NextEntry, Whois, WhoisFails,
           FetchPrefixes, FetchFails, InsertPrefix, NextName, Substitute, Refer, Reads, NextAlternative,
           Return, AtEnd, AllNames, CompileRule, AllRules, Fails
  <2>2. \A e : Unusable(e)' <=> Unusable(e)
    BY DEF Unusable
  <2> QED
    BY <2>1, <2>2 DEF UsableInv
<1>2. /\ IsPolicy(policy) /\ DOMAIN tries \subseteq DOMAIN policy.networks
      /\ Building => group \in DOMAIN tries /\ entry \in 0..Len(policy.networks[group])
      /\ \A h \in DOMAIN tries : \A j \in Fetched(h) : ~Unusable(policy.networks[h][j])
  BY <1>1 DEF GroupInv, PlaceInv, UsableInv, Entries
<1>3. CASE NextGroup
  <2>1. PICK h \in DOMAIN policy.networks \ DOMAIN tries :
          group' = h /\ tries' = Extended(tries, h, EmptyTrie)
    BY <1>3 DEF NextGroup
  <2>2. /\ policy' = policy /\ stage = "group" /\ stage' = "entry" /\ entry' = 0
        /\ ~Building /\ Building'
    BY <1>3 DEF NextGroup, Building
  <2>3. DOMAIN tries' = DOMAIN tries \cup {h}
    BY <2>1 DEF Extended
  <2>4. g # h
    BY <1>1, <2>1, <2>2 DEF Fetched
  <2>5. g \in DOMAIN tries /\ i \in Fetched(g)
    BY <1>1, <2>1, <2>2, <2>3, <2>4 DEF Fetched
  <2> QED
    BY <1>2, <2>2, <2>5
<1>4. CASE NextEntry
  <2>1. /\ policy' = policy /\ group' = group /\ tries' = tries /\ stage = "entry" /\ Building
        /\ \/ entry' = entry + 1 /\ stage' = "whois" /\ Building'
           \/ entry >= Len(policy.networks[group]) /\ stage' = "group" /\ ~Building'
    BY <1>2, <1>4, EntryShape DEF NextEntry, Building, Entries
  <2>2. entry \in Nat /\ DOMAIN policy.networks[group] = 1..Len(policy.networks[group])
        /\ Len(policy.networks[group]) \in Nat
    BY <1>2, <2>1, EntryShape
  <2>3. i \in Fetched(g)
    BY <1>1, <2>1, <2>2 DEF Fetched
  <2> QED
    BY <1>1, <1>2, <2>1, <2>3
<1>5. CASE FetchPrefixes
  <2>1. /\ policy' = policy /\ group' = group /\ tries' = tries /\ entry' = entry
        /\ stage = "fetch" /\ stage' = "entry" /\ Building /\ Building'
        /\ ~Unusable(policy.networks[group][entry])
    BY <1>1, <1>5 DEF FetchPrefixes, Fails, Building, Entry, Entries
  <2>2. entry \in Nat
    BY <1>2, <2>1
  <2>3. CASE g = group /\ i = entry
    BY <2>1, <2>3
  <2>4. CASE ~(g = group /\ i = entry)
    <3>1. i \in Fetched(g)
      BY <1>1, <2>1, <2>2, <2>4 DEF Fetched
    <3> QED
      BY <1>1, <1>2, <2>1, <3>1
  <2> QED
    BY <2>3, <2>4
<1>6. CASE Whois \/ WhoisFails \/ InsertPrefix
  <2>1. /\ policy' = policy /\ group' = group /\ entry' = entry
        /\ DOMAIN tries' = DOMAIN tries /\ Building' = Building
        /\ (stage' = "entry") = (stage = "entry")
    BY <1>1, <1>6 DEF Whois, WhoisFails, InsertPrefix, Fails, Building
  <2>2. i \in Fetched(g)
    BY <1>1, <2>1 DEF Fetched
  <2> QED
    BY <1>1, <1>2, <2>1, <2>2
<1>7. CASE ReadFails \/ FetchFails
  BY <1>1, <1>7 DEF ReadFails, FetchFails, Fails
<1>8. CASE \/ Read \/ AllGroups \/ NextName \/ Substitute \/ Refer \/ NextAlternative \/ Return
           \/ AllNames \/ CompileRule \/ AllRules
  <2>1. /\ UNCHANGED <<policy, networking>>
        /\ stage \in {"read", "group", "conditions", "rules"}
        /\ stage' \in {"group", "conditions", "rules", "done", "failed"}
    BY <1>8 DEF Read, AllGroups, NextName, Resolve, Substitute, Refer, Reads, NextAlternative,
                Return, AtEnd, AllNames, CompileRule, AllRules, Fails, conditioning
  <2>2. policy' = policy /\ tries' = tries /\ ~Building /\ ~Building'
    BY <2>1 DEF networking, Building
  <2>3. i \in Fetched(g)
    BY <1>1, <2>2 DEF Fetched
  <2> QED
    BY <1>1, <1>2, <2>2, <2>3
<1>9. CASE UNCHANGED policyVars
  <2>1. UNCHANGED <<policy, stage, tries, group, entry>>
    BY <1>9 DEF policyVars, networking
  <2>2. i \in Fetched(g)
    BY <1>1, <2>1 DEF Fetched, Building
  <2> QED
    BY <1>1, <1>2, <2>1, <2>2
<1> QED
  BY <1>3, <1>4, <1>5, <1>6, <1>7, <1>8, <1>9 DEF Compile

\* A call refers to the name it waits for.
LEMMA WaitsRefers ==
    ASSUME IsPolicy(policy), NEW f \in Frame, FrameShape(f), NEW n, Waits(f, n)
    PROVE  n \in References(f.name)
<1>1. /\ AltsOf(f) = policy.conditions[f.name] /\ f.alt \in 1..Len(AltsOf(f))
      /\ LitsOf(f) = AltsOf(f)[f.alt] /\ f.name \in Names
  BY DEF FrameShape, AltsOf, LitsOf
<1>2. /\ LitsOf(f) \in Elements(AltsOf(f)) /\ LitsOf(f) \in Seq(Literal)
  <2>1. /\ Elements(policy.conditions[f.name]) =
             {policy.conditions[f.name][j] : j \in 1..Len(policy.conditions[f.name])}
        /\ \A j \in 1..Len(policy.conditions[f.name]) :
             policy.conditions[f.name][j] \in Seq(Literal)
    BY <1>1, Expressions
  <2> QED
    BY <1>1, <2>1
<1>3. LitsOf(f)[f.item] \in Elements(LitsOf(f))
  <2>1. f.item \in 1..Len(LitsOf(f))
    BY <1>2 DEF FrameShape, Waits
  <2> QED
    BY <1>2, <2>1, ElementsOf
<1>4. n \in Used(LitsOf(f))
  BY <1>3 DEF Used, Waits
<1> QED
  BY <1>1, <1>2, <1>4 DEF References

\* A name that is being resolved is reached from itself.
LEMMA CycleFound ==
    ASSUME ConditionInv, stack # <<>>, NEW n \in resolving, Waits(Top, n)
    PROVE  Cyclic
<1> DEFINE k == Len(stack)
<1>1. /\ k \in Nat /\ k \in 1..k /\ Top = stack[k] /\ IsPolicy(policy)
      /\ resolving = {stack[i].name : i \in 1..k}
      /\ \A i \in 1..k : stack[i] \in Frame /\ FrameShape(stack[i])
      /\ \A i \in 1..k - 1 : Waits(stack[i], stack[i + 1].name)
  BY InCall DEF ConditionInv, StackInv, StackOk
<1> HIDE DEF k
<1>2. PICK i \in 1..k : stack[i].name = n
  BY <1>1
<1> DEFINE S == {stack[j].name : j \in i..k}
<1>3. S \in SUBSET Names /\ S # {}
  <2>1. \A j \in i..k : stack[j].name \in Names
    BY <1>1, <1>2 DEF FrameShape
  <2>2. i \in i..k
    BY <1>1, <1>2
  <2> QED
    BY <2>1, <2>2
<1>4. ASSUME NEW j \in i..k
      PROVE  References(stack[j].name) \cap S # {}
  <2>0. j \in 1..k /\ j \in Int
    BY <1>1, <1>2
  <2>1. CASE j = k
    <3>1. n \in References(stack[j].name)
      BY <1>1, <2>0, <2>1, WaitsRefers
    <3>2. i \in i..k
      BY <1>1, <1>2
    <3> QED
      BY <1>2, <3>1, <3>2
  <2>2. CASE j # k
    <3>1. j \in 1..k - 1 /\ j + 1 \in i..k
      BY <1>1, <1>2, <2>0, <2>2
    <3>2. stack[j + 1].name \in References(stack[j].name)
      BY <1>1, <2>0, <3>1, WaitsRefers
    <3> QED
      BY <3>1, <3>2
  <2> QED
    BY <2>1, <2>2
<1>5. \A m \in S : References(m) \cap S # {}
  BY <1>4
<1> QED
  BY <1>3, <1>5 DEF Cyclic

\* A rule that does not compile refers to an unknown name or comes upon a text
\* that does not parse.
LEMMA RuleRefused ==
    ASSUME ConditionInv, stage = "rules", NEW k \in 1..Len(policy.rules),
           ~Compiles(policy.rules[k])
    PROVE  Unknown \/ Unparsable
<1> DEFINE rule == policy.rules[k]
<1>1. /\ rule \in Elements(policy.rules) /\ Elements(rule) \subseteq Literal
      /\ DOMAIN resolved = Names
  BY Expressions, ElementsOf DEF ConditionInv, StageInv
<1>2. PICK x \in Elements(rule) : ~((x.isRef => x.name \in DOMAIN resolved) /\ Value(x).parses)
  BY DEF Compiles
<1> HIDE DEF rule
<1>3. CASE x.isRef /\ x.name \notin Names
  BY <1>1, <1>2, <1>3 DEF Unknown, Used
<1>4. CASE ~(x.isRef /\ x.name \notin Names)
  <2>1. /\ x \in Literal /\ (x.isRef => x.name \in DOMAIN resolved)
        /\ ~IF x.isRef THEN resolved[x.name].parses ELSE x.text.parses
    BY <1>1, <1>2, <1>4, ValueShape DEF ConditionInv, ResolvedInv
  <2>2. ASSUME NEW S \in SUBSET Names, Used(rule) \subseteq S, Closed(S)
        PROVE  Broken(rule) \/ BrokenIn(S)
    <3>1. CASE x.isRef
      <4>1. x.name \in S
        BY <1>2, <2>2, <3>1 DEF Used
      <4> QED
        BY <2>1, <2>2, <3>1, <4>1 DEF ConditionInv, ResolvedInv
    <3>2. CASE ~x.isRef
      BY <1>2, <2>1, <3>2 DEF Broken
    <3> QED
      BY <3>1, <3>2
  <2> QED
    BY <1>1, <2>2 DEF Unparsable, Closed, BrokenIn
<1> QED
  BY <1>3, <1>4

\* Nothing fails without a reason.
LEMMA FailsRightly ==
    ASSUME GroupInv, ConditionInv, FailInv, [Compile]_policyVars
    PROVE  FailInv'
<1>1. SUFFICES ASSUME stage' = "failed"
               PROVE  Flawed' \/ offline'
  BY DEF FailInv
<1>2. ASSUME Flawed, policy' = policy
      PROVE  Flawed'
  BY <1>2 DEF Flawed, NoNetworks, Unknown, Cyclic, Unparsable, Names, References, Broken
<1>3. CASE ReadFails \/ FetchFails
  BY <1>3 DEF ReadFails, FetchFails
<1>4. CASE WhoisFails
  BY <1>1, <1>4 DEF WhoisFails
<1>5. CASE FetchPrefixes
  <2>1. stage = "fetch" /\ policy' = policy /\ Unusable(Entry) /\ Building
    BY <1>1, <1>5 DEF FetchPrefixes, Building
  <2>2. /\ IsPolicy(policy) /\ group \in DOMAIN policy.networks
        /\ Entry = policy.networks[group][entry]
        /\ entry \in 1..Len(policy.networks[group])
    BY <2>1 DEF GroupInv, PlaceInv, Entry, Entries
  <2>3. Entry \in NetworkEntry /\ Entry \in Elements(policy.networks[group])
    BY <2>2, EntryShape DEF Elements
  <2>4. NoNetworks
    BY <2>1, <2>2, <2>3, UnusableEntry DEF NoNetworks
  <2> QED
    BY <1>2, <2>1, <2>4 DEF Flawed
<1>6. CASE Refer
  <2> DEFINE x == Literals[Top.item]
  <2>1. /\ stage = "conditions" /\ stack # <<>> /\ Top.item <= Len(Literals) /\ x.isRef
        /\ policy' = policy
        /\ x.name \in resolving \/ x.name \notin Names
    BY <1>1, <1>6 DEF Refer, Reads, Resolve, Names
  <2>2. /\ Top \in Frame /\ FrameShape(Top) /\ Waits(Top, x.name) /\ Top.name \in Names
    BY <2>1, InCall DEF Waits
  <2>3. CASE x.name \in resolving
    BY <1>2, <2>1, <2>2, <2>3, CycleFound DEF Flawed
  <2>4. CASE x.name \notin Names
    <3>1. x.name \in References(Top.name)
      BY <2>2, WaitsRefers DEF ConditionInv
    <3> QED
      BY <1>2, <2>1, <2>2, <2>4, <3>1 DEF Flawed, Unknown
  <2> QED
    BY <2>1, <2>3, <2>4
<1>7. CASE CompileRule
  <2>1. /\ stage = "rules" /\ policy' = policy /\ Len(compiled) < Len(policy.rules)
        /\ ~Compiles(Rule)
    BY <1>1, <1>7 DEF CompileRule
  <2>2. Len(compiled) + 1 \in 1..Len(policy.rules)
    BY <2>1, Expressions DEF ConditionInv, RuleInv
  <2>3. Unknown \/ Unparsable
    BY <2>1, <2>2, RuleRefused DEF Rule
  <2> QED
    BY <1>2, <2>1, <2>3 DEF Flawed
<1>8. CASE \/ Read \/ NextGroup \/ AllGroups \/ NextEntry \/ Whois \/ InsertPrefix \/ NextName
           \/ Substitute \/ NextAlternative \/ Return \/ AllNames \/ AllRules
  BY <1>1, <1>8 DEF Read, NextGroup, AllGroups, NextEntry, Whois, InsertPrefix, NextName, Resolve,
                    Substitute, Reads, NextAlternative, Return, AtEnd, AllNames, AllRules
<1>9. CASE UNCHANGED policyVars
  <2>1. stage = "failed" /\ policy' = policy /\ offline' = offline
    BY <1>1, <1>9 DEF policyVars, networking
  <2> QED
    BY <1>2, <2>1 DEF FailInv
<1> QED
  BY <1>3, <1>4, <1>5, <1>6, <1>7, <1>8, <1>9 DEF Compile

\* Nothing is wrong with a policy that has been compiled to the end.
LEMMA DoneRightly ==
    ASSUME GroupInv, ConditionInv, UsableInv, stage = "done"
    PROVE  ~Flawed
<1>1. ~NoNetworks
  <2>1. ASSUME NEW g \in DOMAIN policy.networks, NEW i \in DOMAIN policy.networks[g]
        PROVE  policy.networks[g][i] \in NetworkEntry /\ ~Unusable(policy.networks[g][i])
    <3>1. g \in DOMAIN tries /\ i \in Fetched(g)
      BY DEF GroupInv, PlaceInv, Fetched, Building
    <3>2. ~Unusable(policy.networks[g][i])
      BY <3>1 DEF UsableInv
    <3> QED
      BY <3>2, EntryShape DEF ConditionInv
  <2>2. ASSUME NEW g \in DOMAIN policy.networks, NEW e \in Elements(policy.networks[g])
        PROVE  e \in NetworkEntry /\ ~Unusable(e)
    BY <2>1 DEF Elements
  <2> QED
    BY <2>2, UnusableEntry DEF NoNetworks
<1>2. /\ DOMAIN resolved = Names /\ resolved \in [Names -> Text] /\ Acyclic(Names)
      /\ \A n \in Names : References(n) \subseteq Names /\ resolved[n] = Meaning(n)
      /\ \A rule \in Elements(policy.rules) : Compiles(rule) /\ Elements(rule) \subseteq Literal
  <2>1. /\ Elements(policy.rules) = {policy.rules[i] : i \in 1..Len(policy.rules)}
        /\ \A i \in 1..Len(policy.rules) : Elements(policy.rules[i]) \subseteq Literal
    <3>1. /\ policy.rules \in Seq(Seq(Literal))
          /\ \A i \in 1..Len(policy.rules) : Elements(policy.rules[i]) \subseteq Literal
      BY Expressions DEF ConditionInv
    <3>2. Elements(policy.rules) = {policy.rules[i] : i \in 1..Len(policy.rules)}
      BY <3>1, ElementsOf
    <3> QED
      BY <3>1, <3>2
  <2> QED
    BY <2>1 DEF ConditionInv, StageInv, ResolvedInv, RuleInv
<1>3. ~Unknown
  BY <1>2 DEF Unknown, Compiles, Used
<1>4. ~Cyclic
  BY <1>2 DEF Cyclic, Acyclic
<1>5. ~Unparsable
  <2> DEFINE S == {n \in Names : resolved[n].parses}
  <2>1. ASSUME NEW seq, Elements(seq) \subseteq Literal, Used(seq) \subseteq Names,
               \A x \in Elements(seq) : Value(x).parses
        PROVE  Used(seq) \subseteq S /\ ~Broken(seq)
    <3>1. ASSUME NEW x \in Elements(seq)
          PROVE  IF x.isRef THEN x.name \in S ELSE x.text.parses
      <4>1. x \in Literal /\ (x.isRef => x.name \in DOMAIN resolved) /\ Value(x).parses
        BY <1>2, <2>1, <3>1 DEF Used
      <4>2. IF x.isRef THEN resolved[x.name].parses ELSE x.text.parses
        BY <1>2, <4>1, ValueShape
      <4> QED
        BY <1>2, <4>1, <4>2
    <3> QED
      BY <3>1 DEF Used, Broken
  <2>2. ASSUME NEW n \in S, NEW alt \in Elements(policy.conditions[n])
        PROVE  Used(alt) \subseteq S /\ ~Broken(alt)
    <3>1. Parses(alt) /\ Used(alt) \subseteq Names
      BY <1>2 DEF Meaning, References
    <3>2. Elements(alt) \subseteq Literal
      <4>1. /\ Elements(policy.conditions[n]) =
                 {policy.conditions[n][j] : j \in 1..Len(policy.conditions[n])}
            /\ \A j \in 1..Len(policy.conditions[n]) :
                 Elements(policy.conditions[n][j]) \subseteq Literal
        BY Expressions DEF ConditionInv
      <4> QED
        BY <4>1
    <3> QED
      BY <2>1, <3>1, <3>2 DEF Parses
  <2>3. ASSUME NEW rule \in Elements(policy.rules)
        PROVE  Used(rule) \subseteq S /\ ~Broken(rule)
    <3>1. /\ Elements(rule) \subseteq Literal
          /\ \A x \in Elements(rule) : (x.isRef => x.name \in DOMAIN resolved) /\ Value(x).parses
      BY <1>2 DEF Compiles
    <3> QED
      BY <1>2, <2>1, <3>1 DEF Used
  <2>4. \A n \in S : References(n) \subseteq S
    BY <2>2 DEF References
  <2>5. S \in SUBSET Names
    OBVIOUS
  <2> HIDE DEF S
  <2> QED
    BY <2>2, <2>3, <2>4, <2>5 DEF Unparsable
<1> QED
  BY <1>1, <1>3, <1>4, <1>5 DEF Flawed

\* A policy is compiled to the end only if no network is unusable, no name
\* unknown or cyclic and no text that a rule comes upon unparsable, and it is
\* given up only for one of these, or a file or a server that failed
\* (FetchPrefixes, resolveConditionName, compilePolicyFile).
THEOREM RefusalsAreRight == PolicySpec => []RefusedRightly
<1>1. PolicyInit => UsableInv /\ FailInv
  BY DEF PolicyInit, UsableInv, FailInv
<1>2. GroupInv /\ ConditionInv /\ UsableInv /\ FailInv => RefusedRightly
  BY DoneRightly DEF RefusedRightly, FailInv, Flawed
<1>3. PolicySpec => []UsableInv
  BY <1>1, UsableKept, GroupInvariance, PTL DEF PolicySpec
<1>4. PolicySpec => []FailInv
  BY <1>1, FailsRightly, GroupInvariance, ConditionInvariance, PTL DEF PolicySpec
<1> QED
  BY <1>2, <1>3, <1>4, GroupInvariance, ConditionInvariance, PTL
=============================================================================
