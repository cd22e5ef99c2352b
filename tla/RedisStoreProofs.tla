-------------------------- MODULE RedisStoreProofs --------------------------
(***************************************************************************)
(* Proofs about RedisStore, for any callers, keys, times and bounds: what  *)
(* the commands executed so far have answered agrees with what Redis holds *)
(* now, however many callers, lost answers and late commands there are.    *)
(***************************************************************************)
EXTENDS RedisStore, TLAPS

(* The inductive invariant, in parts.                                      *)

\* An entry of a table at a time: what has ended is not there, and what is only
\* set is there once.
EntryOk(table, entry, time) ==
    /\ entry \in [n : Nat, ends : Nat \cup {Never}]
    /\ entry.ends >= time \/ entry.ends = Never
    /\ table = "paths" => entry.n <= MaxPaths
    /\ table \in {"blocked", "reported"} => entry.n \in {0, 1}

DbInv ==
    /\ now \in 0..MaxTime
    /\ db \in [Tables -> [Key -> [n : Nat, ends : Nat \cup {Never}]]]
    /\ \A table \in Tables, key \in Key : EntryOk(table, db[table][key], now)

Record == [op : Operations \cup {"Expire"}, key : Key, at : Nat, n : Int, answered : BOOLEAN]

LogInv ==
    /\ log \in Seq(Record)
    /\ \A i \in DOMAIN log : log[i].at <= now
    /\ \A i \in DOMAIN log : log[i].op = "IncrWalkaway" => log[i].n > 0

\* Somebody told to report: the cooldown is over, or Redis holds it.
ReportInv ==
    \A key \in Key : \A i \in Of("ShouldReport", key) :
        log[i].n = 1 =>
            \/ now > log[i].at + Cooldown
            \/ /\ db["reported"][key].n = 1
               /\ db["reported"][key].ends >= log[i].at + Cooldown

\* Redis holds the ban imposed last, and any that is not over.
BanInv ==
    \A key \in Key :
        LET ban == db["blocked"][key] IN
        /\ ban.n = 1 => \E i \in Of("Block", key) : ban.ends = log[i].at + BanTime
        /\ \A i \in Of("Block", key) :
              log[i].at + BanTime >= now => ban.n = 1 /\ ban.ends >= log[i].at + BanTime

\* A request counted: the counter was reset, its time is over, or it has counted on.
CountInv ==
    \A key \in Key : \A i \in Of("IncrWalkaway", key) :
        \/ \E k \in Of("ResetWalkaway", key) : k > i
        \/ now > log[i].at + WalkawayTTL
        \/ /\ db["walkaway"][key].n >= log[i].n
           /\ db["walkaway"][key].ends >= log[i].at + WalkawayTTL

DataInv ==
    /\ DbInv /\ LogInv
    /\ ReportInv /\ BanInv /\ CountInv
    /\ ReportsSpaced /\ BansAnswered /\ CountsGrow

\* Commands are on their way late only once the network has failed somebody.
CallInv ==
    /\ work \in [Caller -> Commands \cup {NoCommand}]
    /\ late \subseteq Commands
    /\ sent \in 0..MaxSent
    /\ faulty \in BOOLEAN
    /\ ~faulty => late = {}

IndInv == DataInv /\ CallInv /\ BanCountsEnd

-----------------------------------------------------------------------------
(* A command.                                                              *)

LEMMA TableOf ==
    ASSUME NEW op \in Operations \cup {"Expire"}
    PROVE  /\ Table(op) \in Tables
           /\ Table(op) = "reported" => op = "ShouldReport"
           /\ Table(op) = "blocked" => op \in {"Block", "IsBlocked"}
           /\ Table(op) = "walkaway" => op \in {"IncrWalkaway", "ResetWalkaway"}
           /\ Table(op) = "bancount" => op \in {"IncrBanCount", "Expire"}
           /\ op \in {"IncrWalkaway", "ResetWalkaway"} => Table(op) = "walkaway"
           /\ op \in {"Block", "IsBlocked"} => Table(op) = "blocked"
           /\ op = "ShouldReport" => Table(op) = "reported"
           /\ op \in {"IncrBanCount", "Expire"} => Table(op) = "bancount"
  BY DEF Table, Tables, Operations

LEMMA EffectOf ==
    ASSUME NEW op \in Operations \cup {"Expire"}, NEW old
    PROVE  /\ op = "IncrWalkaway" => Effect(op, old) = Counted(old)
           /\ op = "ResetWalkaway" => Effect(op, old) = Nothing
           /\ op = "Block" => Effect(op, old) = Blocked(old)
           /\ op = "IsBlocked" => Effect(op, old) = old
           /\ op = "ShouldReport" => Effect(op, old) = Reported(old)
           /\ op = "IncrBanCount" => Effect(op, old) = Entry(old.n + 1, old.ends)
           /\ op = "Expire" => Effect(op, old) = Ending(old)
           /\ op = "LogPath" => Effect(op, old) = Logged(old)
  BY DEF Effect

LEMMA EntryShape ==
    ASSUME NEW n, NEW ends
    PROVE  Entry(n, ends).n = n /\ Entry(n, ends).ends = ends
  BY DEF Entry

\* What a command leaves is an entry of its table.
LEMMA EffectOk ==
    ASSUME NEW op \in Operations \cup {"Expire"}, NEW old, EntryOk(Table(op), old, now), now \in Nat
    PROVE  EntryOk(Table(op), Effect(op, old), now)
<1>1. /\ {WalkawayTTL, BanTime, Cooldown, BanMemory, PathTime, MaxPaths} \subseteq Nat \ {0}
      /\ old \in [n : Nat, ends : Nat \cup {Never}] /\ old.n \in Nat /\ old.ends \in Nat \cup {Never}
      /\ old.ends >= now \/ old.ends = Never
  BY RedisAssumption DEF EntryOk
<1>2. CASE op = "IncrWalkaway"
  BY <1>1, <1>2, EffectOf, TableOf DEF Counted, EntryOk, Entry
<1>3. CASE op = "ResetWalkaway"
  BY <1>1, <1>3, EffectOf, TableOf DEF Nothing, EntryOk, Entry
<1>4. CASE op = "Block"
  BY <1>1, <1>4, EffectOf, TableOf DEF Blocked, EntryOk, Entry
<1>5. CASE op = "IsBlocked"
  BY <1>5, EffectOf
<1>6. CASE op = "ShouldReport"
  BY <1>1, <1>6, EffectOf, TableOf DEF Reported, EntryOk, Entry
<1>7. CASE op = "IncrBanCount"
  BY <1>1, <1>7, EffectOf, TableOf DEF EntryOk, Entry
<1>8. CASE op = "Expire"
  BY <1>1, <1>8, EffectOf, TableOf DEF Ending, EntryOk, Entry
<1>9. CASE op = "LogPath"
  <2>1. Table(op) = "paths"
    BY <1>9 DEF Table
  <2> QED
    BY <1>1, <1>9, <2>1, EffectOf DEF Logged, EntryOk, Entry
<1> QED
  BY <1>2, <1>3, <1>4, <1>5, <1>6, <1>7, <1>8, <1>9 DEF Operations

\* What Redis holds and has answered after a command.
LEMMA AfterCommand ==
    ASSUME DbInv, LogInv, NEW command \in Commands, NEW answered \in BOOLEAN,
           Executed(command, answered), now' = now
    PROVE  LET table == Table(command.op)
               old == db[table][command.key]
               last == Len(log) + 1
           IN  /\ command.op \in Operations \cup {"Expire"} /\ command.key \in Key
               /\ table \in Tables /\ EntryOk(table, old, now)
               /\ db'[table][command.key] = Effect(command.op, old)
               /\ \A t \in Tables, key \in Key :
                    t # table \/ key # command.key => db'[t][key] = db[t][key]
               /\ last \in Nat \ {0} /\ DOMAIN log = 1..last - 1 /\ DOMAIN log' = 1..last
               /\ \A i \in 1..last - 1 : log'[i] = log[i]
               /\ log'[last].at = now /\ log'[last].n = Answer(command.op, old)
               /\ log'[last].op = command.op /\ log'[last].key = command.key
               /\ DbInv' /\ LogInv'
<1> DEFINE table == Table(command.op)
           old == db[table][command.key]
           last == Len(log) + 1
           record == [op |-> command.op, key |-> command.key, at |-> now,
                      n |-> Answer(command.op, old), answered |-> answered]
           EntrySet == [n : Nat, ends : Nat \cup {Never}]
<1>1. /\ command.op \in Operations \cup {"Expire"} /\ command.key \in Key
      /\ now \in Nat /\ now \in 0..MaxTime
  BY DEF Commands, DbInv
<1>2. table \in Tables
  BY <1>1, TableOf
<1>3. EntryOk(table, old, now)
  BY <1>1, <1>2 DEF DbInv
<1>4. EntryOk(table, Effect(command.op, old), now)
  BY <1>1, <1>3, EffectOk
<1>5. /\ db' = [db EXCEPT ![table][command.key] = Effect(command.op, old)]
      /\ log' = Append(log, record)
  BY DEF Executed
<1>6. Effect(command.op, old) \in EntrySet
  BY <1>4 DEF EntryOk
<1>7. db \in [Tables -> [Key -> EntrySet]]
  BY DEF DbInv
<1> HIDE DEF table, EntrySet
<1>8. /\ db'[table][command.key] = Effect(command.op, old)
      /\ \A t \in Tables, key \in Key :
           t # table \/ key # command.key => db'[t][key] = db[t][key]
      /\ db' \in [Tables -> [Key -> EntrySet]]
  BY <1>1, <1>2, <1>5, <1>6, <1>7
<1>9. \A t \in Tables, key \in Key : EntryOk(t, db'[t][key], now)
  BY <1>4, <1>8 DEF DbInv
<1>10. DbInv'
  BY <1>1, <1>8, <1>9 DEF DbInv, EntryOk, EntrySet
<1>11. /\ Answer(command.op, old) \in Int
       /\ command.op = "IncrWalkaway" => Answer(command.op, old) > 0
  <2>1. old.n \in Nat /\ Effect(command.op, old).n \in Nat
    BY <1>3, <1>4 DEF EntryOk
  <2>2. command.op = "IncrWalkaway" => Effect(command.op, old).n = old.n + 1
    BY <1>1, EffectOf, EntryShape DEF Counted
  <2> QED
    BY <2>1, <2>2 DEF Answer
<1> HIDE DEF old
<1>12. record \in Record
  BY <1>1, <1>11 DEF Record
<1>13. /\ record.op = command.op /\ record.key = command.key /\ record.at = now
       /\ record.n = Answer(command.op, old)
  OBVIOUS
<1> HIDE DEF record
<1>14. /\ last \in Nat \ {0} /\ DOMAIN log = 1..last - 1 /\ DOMAIN log' = 1..last
       /\ \A i \in 1..last - 1 : log'[i] = log[i]
       /\ log'[last] = record /\ log' \in Seq(Record)
  BY <1>5, <1>12 DEF LogInv
<1>15. LogInv'
  BY <1>1, <1>11, <1>13, <1>14 DEF LogInv
<1> QED
  BY <1>1, <1>2, <1>3, <1>8, <1>10, <1>13, <1>14, <1>15 DEF table, old

\* The records of an operation on a key after a command.
LEMMA OfAfter ==
    ASSUME NEW command, NEW last \in Nat \ {0}, DOMAIN log = 1..last - 1, DOMAIN log' = 1..last,
           \A i \in 1..last - 1 : log'[i] = log[i],
           log'[last].op = command.op, log'[last].key = command.key,
           NEW op, NEW key
    PROVE  /\ Of(op, key) \subseteq 1..last - 1
           /\ Of(op, key)' \subseteq 1..last
           /\ \A i \in 1..last - 1 : i \in Of(op, key)' <=> i \in Of(op, key)
           /\ last \in Of(op, key)' <=> op = command.op /\ key = command.key
<1>1. last \in DOMAIN log' /\ \A i \in 1..last - 1 : i \in DOMAIN log'
  OBVIOUS
<1> QED
  BY <1>1 DEF Of

LEMMA ReportsAfter ==
    ASSUME DataInv, NEW command \in Commands, NEW answered \in BOOLEAN,
           Executed(command, answered), now' = now
    PROVE  ReportInv' /\ ReportsSpaced'
<1> DEFINE table == Table(command.op)
           old == db[table][command.key]
           last == Len(log) + 1
<1>1. DbInv /\ LogInv /\ ReportInv /\ ReportsSpaced /\ now \in Nat /\ Cooldown \in Nat \ {0}
  BY RedisAssumption DEF DataInv, DbInv
<1>2. /\ command.op \in Operations \cup {"Expire"} /\ command.key \in Key
      /\ table \in Tables /\ EntryOk(table, old, now)
      /\ db'[table][command.key] = Effect(command.op, old)
      /\ \A t \in Tables, key \in Key :
           t # table \/ key # command.key => db'[t][key] = db[t][key]
      /\ last \in Nat \ {0} /\ DOMAIN log = 1..last - 1 /\ DOMAIN log' = 1..last
      /\ \A i \in 1..last - 1 : log'[i] = log[i]
      /\ log'[last].at = now /\ log'[last].n = Answer(command.op, old)
      /\ log'[last].op = command.op /\ log'[last].key = command.key
  BY <1>1, AfterCommand
<1>3. "reported" \in Tables /\ (table = "reported" => command.op = "ShouldReport")
      /\ (command.op = "ShouldReport" => table = "reported")
  BY <1>2, TableOf DEF Tables
<1> HIDE DEF table, old, last
<1>4. \A i \in 1..last - 1 : log[i].at \in Nat /\ log[i].at <= now
  <2>1. \A i \in 1..last - 1 : log[i] \in Record /\ log[i].at <= now
    BY <1>1, <1>2 DEF LogInv
  <2> QED
    BY <2>1 DEF Record
<1> SUFFICES ASSUME NEW key \in Key
             PROVE  /\ \A i \in Of("ShouldReport", key)' :
                         log'[i].n = 1 =>
                           \/ now > log'[i].at + Cooldown
                           \/ /\ db'["reported"][key].n = 1
                              /\ db'["reported"][key].ends >= log'[i].at + Cooldown
                    /\ \A i, j \in Of("ShouldReport", key)' :
                         i < j /\ log'[i].n = 1 /\ log'[j].n = 1 =>
                           log'[j].at - log'[i].at > Cooldown
  BY DEF ReportInv, ReportsSpaced
<1>5. /\ Of("ShouldReport", key) \subseteq 1..last - 1
      /\ Of("ShouldReport", key)' \subseteq 1..last
      /\ \A i \in 1..last - 1 : i \in Of("ShouldReport", key)' <=> i \in Of("ShouldReport", key)
      /\ last \in Of("ShouldReport", key)' <=>
           "ShouldReport" = command.op /\ key = command.key
  BY <1>2, OfAfter
<1>6. \A i \in Of("ShouldReport", key) :
        log[i].n = 1 =>
          \/ now > log[i].at + Cooldown
          \/ /\ db["reported"][key].n = 1
             /\ db["reported"][key].ends >= log[i].at + Cooldown
  BY <1>1 DEF ReportInv
<1>7. CASE command.op = "ShouldReport" /\ key = command.key
  <2>1. /\ table = "reported" /\ old = db["reported"][key]
        /\ old.n \in {0, 1} /\ old.ends \in Int
        /\ db'["reported"][key] = Reported(old) /\ log'[last].n = 1 - old.n
    BY <1>2, <1>3, <1>7, EffectOf DEF EntryOk, old, Answer, Never
  <2>2. /\ old.n = 1 => db'["reported"][key] = old
        /\ old.n = 0 => /\ db'["reported"][key].n = 1
                        /\ db'["reported"][key].ends = now + Cooldown
    BY <2>1, EntryShape DEF Reported
  <2>3. \A i \in 1..last : i = last \/ i \in 1..last - 1
    BY <1>2
  <2>4. ASSUME NEW i \in Of("ShouldReport", key)', log'[i].n = 1
        PROVE  \/ now > log'[i].at + Cooldown
               \/ /\ db'["reported"][key].n = 1
                  /\ db'["reported"][key].ends >= log'[i].at + Cooldown
    BY <1>1, <1>2, <1>4, <1>5, <1>6, <2>1, <2>2, <2>3, <2>4
  <2>5. ASSUME NEW i \in Of("ShouldReport", key)', NEW j \in Of("ShouldReport", key)',
               i < j, log'[i].n = 1, log'[j].n = 1
        PROVE  log'[j].at - log'[i].at > Cooldown
    <3>1. i \in 1..last - 1 /\ i \in Of("ShouldReport", key) /\ log'[i] = log[i]
      BY <1>2, <1>5, <2>3, <2>5
    <3>2. CASE j = last
      <4>1. log'[j].at = now /\ db["reported"][key].n = 0
        BY <1>2, <2>1, <2>5, <3>2
      <4>2. log[i].n = 1 /\ log[i].at \in Nat
        BY <1>4, <2>5, <3>1
      <4>3. now > log[i].at + Cooldown
        BY <1>6, <3>1, <4>1, <4>2
      <4> QED
        BY <1>1, <3>1, <4>1, <4>2, <4>3
    <3>3. CASE j # last
      <4>1. j \in Of("ShouldReport", key) /\ log'[j] = log[j]
        BY <1>2, <1>5, <2>3, <3>3
      <4> QED
        BY <1>1, <2>5, <3>1, <4>1 DEF ReportsSpaced
    <3> QED
      BY <3>2, <3>3
  <2> QED
    BY <2>4, <2>5
<1>8. CASE ~(command.op = "ShouldReport" /\ key = command.key)
  <2>1. db'["reported"][key] = db["reported"][key]
    BY <1>2, <1>3, <1>8
  <2>2. Of("ShouldReport", key)' = Of("ShouldReport", key)
    <3>1. \A i \in 1..last : i = last \/ i \in 1..last - 1
      BY <1>2
    <3>2. \A i \in 1..last - 1 : i \in 1..last
      BY <1>2
    <3> QED
      BY <1>5, <1>8, <3>1, <3>2
  <2>3. \A i \in Of("ShouldReport", key) : log'[i] = log[i]
    BY <1>2, <1>5
  <2>4. \A i, j \in Of("ShouldReport", key) :
          i < j /\ log[i].n = 1 /\ log[j].n = 1 => log[j].at - log[i].at > Cooldown
    BY <1>1 DEF ReportsSpaced
  <2> QED
    BY <1>6, <2>1, <2>2, <2>3, <2>4
<1> QED
  BY <1>7, <1>8

LEMMA BansAfter ==
    ASSUME DataInv, NEW command \in Commands, NEW answered \in BOOLEAN,
           Executed(command, answered), now' = now
    PROVE  BanInv' /\ BansAnswered'
<1> DEFINE table == Table(command.op)
           old == db[table][command.key]
           last == Len(log) + 1
<1>1. DbInv /\ LogInv /\ BanInv /\ BansAnswered /\ now \in Nat /\ BanTime \in Nat \ {0}
  BY RedisAssumption DEF DataInv, DbInv
<1>2. /\ command.op \in Operations \cup {"Expire"} /\ command.key \in Key
      /\ table \in Tables /\ EntryOk(table, old, now)
      /\ db'[table][command.key] = Effect(command.op, old)
      /\ \A t \in Tables, key \in Key :
           t # table \/ key # command.key => db'[t][key] = db[t][key]
      /\ last \in Nat \ {0} /\ DOMAIN log = 1..last - 1 /\ DOMAIN log' = 1..last
      /\ \A i \in 1..last - 1 : log'[i] = log[i]
      /\ log'[last].at = now /\ log'[last].n = Answer(command.op, old)
      /\ log'[last].op = command.op /\ log'[last].key = command.key
  BY <1>1, AfterCommand
<1>3. "blocked" \in Tables /\ (table = "blocked" => command.op \in {"Block", "IsBlocked"})
      /\ (command.op \in {"Block", "IsBlocked"} => table = "blocked")
  BY <1>2, TableOf DEF Tables
<1> HIDE DEF table, old, last
<1>4. \A i \in 1..last - 1 : log[i].at \in Nat /\ log[i].at <= now
  <2>1. \A i \in 1..last - 1 : log[i] \in Record /\ log[i].at <= now
    BY <1>1, <1>2 DEF LogInv
  <2> QED
    BY <2>1 DEF Record
<1> SUFFICES ASSUME NEW key \in Key
             PROVE  /\ db'["blocked"][key].n = 1 =>
                         \E i \in Of("Block", key)' : db'["blocked"][key].ends = log'[i].at + BanTime
                    /\ \A i \in Of("Block", key)' :
                         log'[i].at + BanTime >= now =>
                           /\ db'["blocked"][key].n = 1
                           /\ db'["blocked"][key].ends >= log'[i].at + BanTime
                    /\ \A j \in Of("IsBlocked", key)' :
                         log'[j].n = 1 <=>
                           \E i \in Of("Block", key)' : i < j /\ log'[j].at - log'[i].at <= BanTime
  BY DEF BanInv, BansAnswered
<1> DEFINE ban == db["blocked"][key]
           bans == Of("Block", key)
<1>5. /\ bans \subseteq 1..last - 1
      /\ bans' \subseteq 1..last
      /\ \A i \in 1..last - 1 : i \in bans' <=> i \in bans
      /\ last \in bans' <=> "Block" = command.op /\ key = command.key
  BY <1>2, OfAfter
<1>6. /\ Of("IsBlocked", key) \subseteq 1..last - 1
      /\ Of("IsBlocked", key)' \subseteq 1..last
      /\ \A i \in 1..last - 1 : i \in Of("IsBlocked", key)' <=> i \in Of("IsBlocked", key)
      /\ last \in Of("IsBlocked", key)' <=> "IsBlocked" = command.op /\ key = command.key
  BY <1>2, OfAfter
<1>7. /\ ban.n = 1 => \E i \in bans : ban.ends = log[i].at + BanTime
      /\ \A i \in bans : log[i].at + BanTime >= now => ban.n = 1 /\ ban.ends >= log[i].at + BanTime
  BY <1>1 DEF BanInv
<1>8. /\ ban.n \in {0, 1} /\ ban.ends \in Int /\ (ban.ends >= now \/ ban.ends = Never)
  BY <1>1, <1>3 DEF DbInv, EntryOk, Never
<1>9. \A i \in 1..last : i = last \/ i \in 1..last - 1
  BY <1>2
<1>10. \A j \in Of("IsBlocked", key) :
         log[j].n = 1 <=> \E i \in bans : i < j /\ log[j].at - log[i].at <= BanTime
  BY <1>1 DEF BansAnswered
<1> HIDE DEF ban, bans
<1>11. CASE command.op = "Block" /\ key = command.key
  <2>1. ban'.n = 1 /\ ban'.ends = now + BanTime
    BY <1>2, <1>3, <1>11, EffectOf, EntryShape DEF Blocked, ban
  <2>2. last \in bans' /\ log'[last].at = now /\ last \notin Of("IsBlocked", key)'
    BY <1>2, <1>5, <1>6, <1>11
  <2>3. \A i \in bans' : log'[i].at <= now /\ log'[i].at \in Nat
    BY <1>1, <1>2, <1>4, <1>5, <1>9
  <2>4. \A i \in bans' : i < last => i \in bans /\ log'[i] = log[i]
    BY <1>2, <1>5, <1>9
  <2>5. ASSUME NEW j \in Of("IsBlocked", key)'
        PROVE  log'[j].n = 1 <=>
                 \E i \in bans' : i < j /\ log'[j].at - log'[i].at <= BanTime
    <3>1. j \in 1..last - 1 /\ j \in Of("IsBlocked", key) /\ log'[j] = log[j]
      BY <1>2, <1>6, <1>9, <2>2
    <3>2. ASSUME NEW i \in bans', i < j
          PROVE  i \in bans /\ log'[i] = log[i]
      <4>1. i \in 1..last
        BY <1>5
      <4>2. i < last
        BY <1>2, <3>1, <3>2, <4>1
      <4> QED
        BY <2>4, <4>2
    <3>3. \A i \in bans : i \in bans' /\ log'[i] = log[i]
      BY <1>2, <1>5
    <3> QED
      BY <1>10, <3>1, <3>2, <3>3
  <2> QED
    BY <1>1, <2>1, <2>2, <2>3, <2>5 DEF ban, bans
<1>12. CASE ~(command.op = "Block" /\ key = command.key)
  <2>1. ban' = ban
    <3>1. CASE command.op = "IsBlocked" /\ key = command.key
      BY <1>2, <1>3, <3>1, EffectOf DEF ban, old
    <3>2. CASE ~(command.op = "IsBlocked" /\ key = command.key)
      BY <1>2, <1>3, <1>12, <3>2 DEF ban
    <3> QED
      BY <3>1, <3>2
  <2>2. bans' = bans /\ \A i \in bans : log'[i] = log[i] /\ i < last /\ i \in 1..last - 1
    <3>1. \A i \in 1..last - 1 : i \in 1..last /\ i < last
      BY <1>2
    <3>2. bans' = bans
      BY <1>5, <1>9, <1>12, <3>1
    <3> QED
      BY <1>2, <1>5, <3>1, <3>2
  <2>3. ASSUME NEW j \in Of("IsBlocked", key)'
        PROVE  log'[j].n = 1 <=>
                 \E i \in bans' : i < j /\ log'[j].at - log'[i].at <= BanTime
    <3>1. CASE j \in 1..last - 1
      <4>1. j \in Of("IsBlocked", key) /\ log'[j] = log[j]
        BY <1>2, <1>6, <3>1
      <4> QED
        BY <1>10, <2>2, <4>1
    <3>2. CASE j = last
      <4>1. command.op = "IsBlocked" /\ key = command.key
        BY <1>6, <3>2
      <4>2. old = ban /\ log'[last].n = ban.n /\ log'[last].at = now
        BY <1>2, <1>3, <4>1, EffectOf DEF Answer, old, ban
      <4>3. ASSUME ban.n = 1
            PROVE  \E i \in bans : i < last /\ now - log[i].at <= BanTime
        <5>1. PICK i \in bans : ban.ends = log[i].at + BanTime
          BY <1>7, <4>3
        <5>2. log[i].at \in Nat /\ i < last
          BY <1>4, <2>2
        <5>3. ban.ends >= now
          BY <1>1, <1>8, <5>1, <5>2 DEF Never
        <5>4. now - log[i].at <= BanTime
          BY <1>1, <5>1, <5>2, <5>3
        <5> QED
          BY <5>2, <5>4
      <4>4. ASSUME NEW i \in bans, now - log[i].at <= BanTime
            PROVE  ban.n = 1
        BY <1>1, <1>4, <1>7, <2>2, <4>4
      <4> QED
        BY <2>2, <3>2, <4>2, <4>3, <4>4
    <3> QED
      BY <1>6, <1>9, <3>1, <3>2
  <2> QED
    BY <1>7, <2>1, <2>2, <2>3 DEF ban, bans
<1> QED
  BY <1>11, <1>12

LEMMA CountsAfter ==
    ASSUME DataInv, NEW command \in Commands, NEW answered \in BOOLEAN,
           Executed(command, answered), now' = now
    PROVE  CountInv' /\ CountsGrow'
<1> DEFINE table == Table(command.op)
           old == db[table][command.key]
           last == Len(log) + 1
<1>1. DbInv /\ LogInv /\ CountInv /\ CountsGrow /\ now \in Nat /\ WalkawayTTL \in Nat \ {0}
  BY RedisAssumption DEF DataInv, DbInv
<1>2. /\ command.op \in Operations \cup {"Expire"} /\ command.key \in Key
      /\ table \in Tables /\ EntryOk(table, old, now)
      /\ db'[table][command.key] = Effect(command.op, old)
      /\ \A t \in Tables, key \in Key :
           t # table \/ key # command.key => db'[t][key] = db[t][key]
      /\ last \in Nat \ {0} /\ DOMAIN log = 1..last - 1 /\ DOMAIN log' = 1..last
      /\ \A i \in 1..last - 1 : log'[i] = log[i]
      /\ log'[last].at = now /\ log'[last].n = Answer(command.op, old)
      /\ log'[last].op = command.op /\ log'[last].key = command.key
  BY <1>1, AfterCommand
<1>3. "walkaway" \in Tables /\ (table = "walkaway" => command.op \in {"IncrWalkaway", "ResetWalkaway"})
      /\ (command.op \in {"IncrWalkaway", "ResetWalkaway"} => table = "walkaway")
  BY <1>2, TableOf DEF Tables
<1> HIDE DEF table, old, last
<1>4. \A i \in 1..last - 1 : log[i].at \in Nat /\ log[i].n \in Int /\ log[i].at <= now
  <2>1. \A i \in 1..last - 1 : log[i] \in Record /\ log[i].at <= now
    BY <1>1, <1>2 DEF LogInv
  <2> QED
    BY <2>1 DEF Record
<1> SUFFICES ASSUME NEW key \in Key
             PROVE  /\ \A i \in Of("IncrWalkaway", key)' :
                         \/ \E k \in Of("ResetWalkaway", key)' : k > i
                         \/ now > log'[i].at + WalkawayTTL
                         \/ /\ db'["walkaway"][key].n >= log'[i].n
                            /\ db'["walkaway"][key].ends >= log'[i].at + WalkawayTTL
                    /\ \A i, j \in Of("IncrWalkaway", key)' :
                         /\ i < j
                         /\ log'[j].at - log'[i].at <= WalkawayTTL
                         /\ \A k \in Of("ResetWalkaway", key)' : k < i \/ k > j
                         => log'[j].n > log'[i].n
  BY DEF CountInv, CountsGrow
<1> DEFINE count == db["walkaway"][key]
           counts == Of("IncrWalkaway", key)
           resets == Of("ResetWalkaway", key)
<1>5. /\ counts \subseteq 1..last - 1 /\ counts' \subseteq 1..last
      /\ \A i \in 1..last - 1 : i \in counts' <=> i \in counts
      /\ last \in counts' <=> "IncrWalkaway" = command.op /\ key = command.key
  BY <1>2, OfAfter
<1>6. /\ resets \subseteq 1..last - 1 /\ resets' \subseteq 1..last
      /\ \A i \in 1..last - 1 : i \in resets' <=> i \in resets
      /\ last \in resets' <=> "ResetWalkaway" = command.op /\ key = command.key
  BY <1>2, OfAfter
<1>7. \A i \in counts :
        \/ \E k \in resets : k > i
        \/ now > log[i].at + WalkawayTTL
        \/ count.n >= log[i].n /\ count.ends >= log[i].at + WalkawayTTL
  BY <1>1 DEF CountInv
<1>8. count.n \in Nat /\ count.ends \in Int
  BY <1>1, <1>3 DEF DbInv, Never
<1>9. \A i \in 1..last : i = last \/ (i \in 1..last - 1 /\ i < last)
  <2>1. last \in Nat \ {0}
    BY <1>2
  <2> QED
    BY <2>1
<1>10. \A i, j \in counts :
         /\ i < j
         /\ log[j].at - log[i].at <= WalkawayTTL
         /\ \A k \in resets : k < i \/ k > j
         => log[j].n > log[i].n
  BY <1>1 DEF CountsGrow
<1>11. /\ \A k \in resets : k \in resets'
       /\ \A i \in counts' : i # last => i \in counts /\ log'[i] = log[i] /\ i < last
       /\ \A k \in resets' : k # last => k \in resets
       /\ last \in counts' => last \notin resets'
  BY <1>2, <1>5, <1>6, <1>9
<1>12. command.op = "IncrWalkaway" /\ key = command.key =>
         /\ count'.n = count.n + 1 /\ count'.ends = now + WalkawayTTL
         /\ log'[last].n = count.n + 1
  <2> SUFFICES ASSUME command.op = "IncrWalkaway", key = command.key
               PROVE  /\ count'.n = count.n + 1 /\ count'.ends = now + WalkawayTTL
                      /\ log'[last].n = count.n + 1
    OBVIOUS
  <2>1. old = count /\ count' = Counted(count) /\ log'[last].n = Counted(count).n
    BY <1>2, <1>3, EffectOf DEF old, Answer
  <2> HIDE DEF count
  <2> QED
    BY <2>1, EntryShape DEF Counted
<1>13. ~(command.op \in {"IncrWalkaway", "ResetWalkaway"} /\ key = command.key) => count' = count
  BY <1>2, <1>3
<1> HIDE DEF count, counts, resets
<1>14. ASSUME NEW i \in counts'
       PROVE  \/ \E k \in resets' : k > i
              \/ now > log'[i].at + WalkawayTTL
              \/ count'.n >= log'[i].n /\ count'.ends >= log'[i].at + WalkawayTTL
  <2>1. CASE i = last
    BY <1>1, <1>2, <1>5, <1>8, <1>12, <2>1
  <2>2. CASE i # last
    <3>1. i \in counts /\ log'[i] = log[i] /\ i < last /\ i \in 1..last - 1
      BY <1>5, <1>11, <2>2
    <3>2. log[i].at \in Nat /\ log[i].n \in Int /\ log[i].at <= now
      BY <1>4, <3>1
    <3>3. CASE \E k \in resets : k > i
      BY <1>11, <3>3
    <3>4. CASE now > log[i].at + WalkawayTTL
      BY <3>1, <3>4
    <3>5. CASE count.n >= log[i].n /\ count.ends >= log[i].at + WalkawayTTL
      <4>1. CASE command.op = "ResetWalkaway" /\ key = command.key
        BY <1>6, <3>1, <4>1
      <4>2. CASE command.op = "IncrWalkaway" /\ key = command.key
        BY <1>1, <1>8, <1>12, <3>1, <3>2, <3>5, <4>2
      <4>3. CASE ~(command.op \in {"IncrWalkaway", "ResetWalkaway"} /\ key = command.key)
        BY <1>13, <3>1, <3>5, <4>3
      <4> QED
        BY <4>1, <4>2, <4>3
    <3> QED
      BY <1>7, <3>1, <3>3, <3>4, <3>5
  <2> QED
    BY <2>1, <2>2
<1>15. ASSUME NEW i \in counts', NEW j \in counts', i < j,
              log'[j].at - log'[i].at <= WalkawayTTL,
              \A k \in resets' : k < i \/ k > j
       PROVE  log'[j].n > log'[i].n
  <2>1. i \in 1..last /\ j \in 1..last
    BY <1>5
  <2>2. i # last
    BY <1>2, <1>9, <1>15, <2>1
  <2>3. i \in counts /\ log'[i] = log[i] /\ i \in 1..last - 1
    BY <1>5, <1>11, <2>2
  <2>4. \A k \in resets : k < i \/ k > j
    BY <1>11, <1>15
  <2>5. CASE j = last
    <3>1. /\ command.op = "IncrWalkaway" /\ key = command.key
          /\ log'[j].n = count.n + 1 /\ log'[j].at = now
      BY <1>2, <1>5, <1>12, <2>5
    <3>2. \A k \in resets : ~(k > i)
      <4>1. \A k \in resets : k \in 1..last - 1
        BY <1>6
      <4> QED
        BY <1>2, <2>1, <2>4, <2>5, <4>1
    <3>3. log[i].at \in Nat /\ log[i].n \in Int
      BY <1>4, <2>3
    <3>4. ~(now > log[i].at + WalkawayTTL)
      BY <1>1, <1>15, <2>3, <3>1, <3>3
    <3>5. count.n >= log[i].n
      BY <1>7, <2>3, <3>2, <3>4
    <3> QED
      BY <1>8, <2>3, <3>1, <3>3, <3>5
  <2>6. CASE j # last
    <3>1. j \in counts /\ log'[j] = log[j]
      BY <1>11, <2>6
    <3> QED
      BY <1>10, <1>15, <2>3, <2>4, <3>1
  <2> QED
    BY <2>5, <2>6
<1> QED
  BY <1>14, <1>15 DEF count, counts, resets

\* A command leaves what is known of the data true.
LEMMA CommandKeeps ==
    ASSUME DataInv, NEW command \in Commands, NEW answered \in BOOLEAN,
           Executed(command, answered), now' = now
    PROVE  DataInv'
<1>1. DbInv' /\ LogInv'
  BY AfterCommand DEF DataInv
<1> QED
  BY <1>1, ReportsAfter, BansAfter, CountsAfter DEF DataInv

\* So does the time, by which Redis drops what has ended.
LEMMA TickKeeps == ASSUME DataInv, Tick PROVE DataInv'
<1>1. /\ now \in Nat /\ now < MaxTime /\ now' = now + 1 /\ MaxTime \in Nat /\ log' = log
      /\ db' = [table \in Tables |-> [key \in Key |->
                  IF db[table][key].ends \in 0..now THEN Nothing ELSE db[table][key]]]
      /\ {WalkawayTTL, BanTime, Cooldown, MaxPaths} \subseteq Nat \ {0}
  BY RedisAssumption DEF Tick, DataInv, DbInv
<1>2. DbInv /\ LogInv /\ ReportInv /\ BanInv /\ CountInv
  BY DEF DataInv
<1>3. ASSUME NEW table \in Tables, NEW key \in Key
      PROVE  /\ db[table][key].n \in Nat /\ db[table][key].ends \in Nat \cup {Never}
             /\ db[table][key].ends >= now \/ db[table][key].ends = Never
             /\ \/ db[table][key].ends = now /\ db'[table][key] = Nothing
                \/ db[table][key].ends # now /\ db'[table][key] = db[table][key]
             /\ EntryOk(table, db'[table][key], now')
  <2> DEFINE entry == db[table][key]
  <2>1. /\ EntryOk(table, entry, now)
        /\ entry.n \in Nat /\ entry.ends \in Nat \cup {Never}
        /\ entry.ends >= now \/ entry.ends = Never
    BY <1>2, <1>3 DEF DbInv, EntryOk
  <2>2. db'[table][key] = IF entry.ends \in 0..now THEN Nothing ELSE entry
    BY <1>1, <1>3
  <2> HIDE DEF entry
  <2>3. entry.ends \in 0..now <=> entry.ends = now
    <3>1. CASE entry.ends = Never
      BY <1>1, <3>1 DEF Never
    <3>2. CASE entry.ends \in Nat
      <4>1. now \in Nat /\ entry.ends >= now
        BY <1>1, <2>1, <3>2 DEF Never
      <4> QED
        BY <3>2, <4>1
    <3> QED
      BY <2>1, <3>1, <3>2
  <2>4. EntryOk(table, Nothing, now')
    BY <1>1 DEF EntryOk, Nothing, Entry
  <2>5. entry.ends # now => EntryOk(table, entry, now')
    <3> SUFFICES ASSUME entry.ends # now
                 PROVE  entry.ends >= now + 1 \/ entry.ends = Never
      BY <1>1, <2>1 DEF EntryOk
    <3>1. CASE entry.ends \in Nat
      <4>1. now \in Nat /\ entry.ends >= now
        BY <1>1, <2>1, <3>1 DEF Never
      <4> QED
        BY <3>1, <4>1
    <3> QED
      BY <2>1, <3>1
  <2> QED
    BY <2>1, <2>2, <2>3, <2>4, <2>5 DEF entry
<1>4. DbInv'
  <2> DEFINE EntrySet == [n : Nat, ends : Nat \cup {Never}]
  <2>1. \A table \in Tables, key \in Key : db'[table][key] \in EntrySet
    BY <1>3 DEF EntryOk
  <2> HIDE DEF EntrySet
  <2>2. db' = [table \in Tables |-> [key \in Key |-> db'[table][key]]]
    BY <1>1, Zenon
  <2>3. db' \in [Tables -> [Key -> EntrySet]]
    BY <2>1, <2>2
  <2> QED
    BY <1>1, <1>3, <2>3 DEF DbInv, EntrySet
<1>5. /\ \A i \in DOMAIN log : log[i] \in Record /\ log[i].at <= now
      /\ \A i \in DOMAIN log : log[i].at \in Nat
  <2>1. \A i \in DOMAIN log : log[i] \in Record /\ log[i].at <= now
    BY <1>2 DEF LogInv
  <2> QED
    BY <2>1 DEF Record
<1>6. LogInv'
  BY <1>1, <1>2, <1>5 DEF LogInv
<1>7. \A op, key : Of(op, key)' = Of(op, key) /\ Of(op, key) \subseteq DOMAIN log
  BY <1>1 DEF Of
<1>8. {"reported", "blocked", "walkaway"} \subseteq Tables
  BY DEF Tables
<1>9. ReportInv'
  <2> SUFFICES ASSUME NEW key \in Key, NEW i \in Of("ShouldReport", key), log[i].n = 1
               PROVE  \/ now' > log[i].at + Cooldown
                      \/ /\ db'["reported"][key].n = 1
                         /\ db'["reported"][key].ends >= log[i].at + Cooldown
    BY <1>1, <1>7 DEF ReportInv
  <2>1. log[i].at \in Nat
    BY <1>5, <1>7
  <2>2. \/ now > log[i].at + Cooldown
        \/ db["reported"][key].n = 1 /\ db["reported"][key].ends >= log[i].at + Cooldown
    BY <1>2 DEF ReportInv
  <2>3. \/ db["reported"][key].ends = now
        \/ db'["reported"][key] = db["reported"][key]
    BY <1>3, <1>8
  <2> QED
    BY <1>1, <2>1, <2>2, <2>3
<1>10. BanInv'
  <2> SUFFICES ASSUME NEW key \in Key
               PROVE  /\ db'["blocked"][key].n = 1 =>
                           \E i \in Of("Block", key) : db'["blocked"][key].ends = log[i].at + BanTime
                      /\ \A i \in Of("Block", key) :
                           log[i].at + BanTime >= now' =>
                             /\ db'["blocked"][key].n = 1
                             /\ db'["blocked"][key].ends >= log[i].at + BanTime
    BY <1>1, <1>7 DEF BanInv
  <2> DEFINE ban == db["blocked"][key]
  <2>1. /\ ban.n = 1 => \E i \in Of("Block", key) : ban.ends = log[i].at + BanTime
        /\ \A i \in Of("Block", key) :
             log[i].at + BanTime >= now => ban.n = 1 /\ ban.ends >= log[i].at + BanTime
    BY <1>2 DEF BanInv
  <2>2. \/ ban.ends = now /\ ban' = Nothing
        \/ ban.ends # now /\ ban' = ban
    BY <1>3, <1>8
  <2>3. \A i \in Of("Block", key) : log[i].at \in Nat
    BY <1>5, <1>7
  <2> HIDE DEF ban
  <2>4. CASE ban.ends = now /\ ban' = Nothing
    BY <1>1, <2>1, <2>3, <2>4, EntryShape DEF ban, Nothing
  <2>5. CASE ban.ends # now /\ ban' = ban
    <3>1. ban'.n = 1 => \E i \in Of("Block", key) : ban'.ends = log[i].at + BanTime
      BY <2>1, <2>5
    <3>2. ASSUME NEW i \in Of("Block", key), log[i].at + BanTime >= now'
          PROVE  ban'.n = 1 /\ ban'.ends >= log[i].at + BanTime
      <4>1. log[i].at + BanTime >= now
        BY <1>1, <2>3, <3>2
      <4> QED
        BY <2>1, <2>5, <4>1
    <3> QED
      BY <3>1, <3>2 DEF ban
  <2> QED
    BY <2>2, <2>4, <2>5
<1>11. CountInv'
  <2> SUFFICES ASSUME NEW key \in Key, NEW i \in Of("IncrWalkaway", key)
               PROVE  \/ \E k \in Of("ResetWalkaway", key) : k > i
                      \/ now' > log[i].at + WalkawayTTL
                      \/ /\ db'["walkaway"][key].n >= log[i].n
                         /\ db'["walkaway"][key].ends >= log[i].at + WalkawayTTL
    BY <1>1, <1>7 DEF CountInv
  <2>1. log[i].at \in Nat
    BY <1>5, <1>7
  <2>2. \/ \E k \in Of("ResetWalkaway", key) : k > i
        \/ now > log[i].at + WalkawayTTL
        \/ /\ db["walkaway"][key].n >= log[i].n
           /\ db["walkaway"][key].ends >= log[i].at + WalkawayTTL
    BY <1>2 DEF CountInv
  <2>3. \/ db["walkaway"][key].ends = now
        \/ db'["walkaway"][key] = db["walkaway"][key]
    BY <1>3, <1>8
  <2> QED
    BY <1>1, <2>1, <2>2, <2>3
<1>12. ReportsSpaced' /\ BansAnswered' /\ CountsGrow'
  BY <1>1, <1>7 DEF DataInv, ReportsSpaced, BansAnswered, CountsGrow
<1> QED
  BY <1>4, <1>6, <1>9, <1>10, <1>11, <1>12 DEF DataInv

-----------------------------------------------------------------------------
(* The callers.                                                            *)

\* A caller with its answer leaves no ban count without an end: the first of
\* them goes on to set it, and the one that sets it has found the count there.
LEMMA ExecuteEnds ==
    ASSUME DataInv, CallInv, BanCountsEnd, NEW c \in Caller, Execute(c)
    PROVE  BanCountsEnd'
<1> DEFINE table == Table(work[c].op)
           old == db[table][work[c].key]
<1>1. /\ work[c] \in Commands /\ Executed(work[c], TRUE)
      /\ work' = [work EXCEPT ![c] =
                    IF work[c].op = "IncrBanCount" /\ db["bancount"][work[c].key].n = 0
                    THEN [op |-> "Expire", key |-> work[c].key] ELSE NoCommand]
      /\ now' = now /\ faulty' = faulty
  BY DEF Execute, AndThen, CallInv
<1>2. DbInv /\ LogInv /\ now \in Nat /\ BanMemory \in Nat
  BY RedisAssumption DEF DataInv, DbInv
<1>3. /\ work[c].op \in Operations \cup {"Expire"} /\ work[c].key \in Key
      /\ table \in Tables
      /\ db'[table][work[c].key] = Effect(work[c].op, old)
      /\ \A t \in Tables, key \in Key :
           t # table \/ key # work[c].key => db'[t][key] = db[t][key]
  BY <1>1, <1>2, AfterCommand
<1>4. /\ work'[c] = IF work[c].op = "IncrBanCount" /\ db["bancount"][work[c].key].n = 0
                    THEN [op |-> "Expire", key |-> work[c].key] ELSE NoCommand
      /\ \A d \in Caller \ {c} : work'[d] = work[d]
  BY <1>1 DEF CallInv
<1>5. "bancount" \in Tables /\ (table = "bancount" => work[c].op \in {"IncrBanCount", "Expire"})
      /\ (work[c].op \in {"IncrBanCount", "Expire"} => table = "bancount")
  BY <1>3, TableOf DEF Tables
<1> HIDE DEF table, old
<1> SUFFICES ASSUME NEW key \in Key, ~faulty, db'["bancount"][key].n > 0,
                    db'["bancount"][key].ends = Never
             PROVE  \E d \in Caller : work'[d] = [op |-> "Expire", key |-> key]
  BY <1>1 DEF BanCountsEnd
<1> DEFINE count == db["bancount"][key]
<1>6. count.n \in Nat
  BY <1>2, <1>5 DEF DbInv
<1>7. count.n > 0 /\ count.ends = Never =>
        \E d \in Caller : work[d] = [op |-> "Expire", key |-> key]
  BY DEF BanCountsEnd
<1> HIDE DEF count
<1>8. CASE work[c] = [op |-> "Expire", key |-> key]
  <2>1. count' = Ending(count)
    BY <1>3, <1>5, <1>8, EffectOf DEF count, old
  <2>2. count.n = 0 => count' = count
    BY <2>1 DEF Ending
  <2>3. count.n # 0 => count'.ends = now + BanMemory
    BY <2>1, EntryShape DEF Ending
  <2> QED
    BY <1>2, <1>6, <2>2, <2>3 DEF Never, count
<1>9. CASE work[c].op = "IncrBanCount" /\ work[c].key = key
  <2>1. count'.ends = count.ends
    BY <1>3, <1>5, <1>9, EffectOf, EntryShape DEF count, old
  <2>2. CASE count.n = 0
    BY <1>4, <1>9, <2>2 DEF count
  <2>3. CASE count.n # 0
    <3>1. PICK d \in Caller : work[d] = [op |-> "Expire", key |-> key]
      BY <1>6, <1>7, <2>1, <2>3 DEF count
    <3>2. d # c
      BY <1>9, <3>1
    <3> QED
      BY <1>4, <3>1, <3>2
  <2> QED
    BY <2>2, <2>3
<1>10. CASE ~(work[c].op \in {"IncrBanCount", "Expire"} /\ work[c].key = key)
  <2>1. count' = count
    BY <1>3, <1>5, <1>10 DEF count
  <2>2. PICK d \in Caller : work[d] = [op |-> "Expire", key |-> key]
    BY <1>7, <2>1 DEF count
  <2>3. d # c
    BY <1>10, <2>2
  <2> QED
    BY <1>4, <2>2, <2>3
<1>11. work[c].op = "Expire" /\ work[c].key = key => work[c] = [op |-> "Expire", key |-> key]
  BY <1>1 DEF Commands
<1> QED
  BY <1>8, <1>9, <1>10, <1>11

\* The time takes the end of no count, and no count without its end.
LEMMA TickEnds == ASSUME DataInv, BanCountsEnd, Tick PROVE BanCountsEnd'
<1>1. /\ UNCHANGED <<work, faulty>> /\ "bancount" \in Tables
      /\ \A key \in Key : db'["bancount"][key] = Nothing
                          \/ db'["bancount"][key] = db["bancount"][key]
  BY DEF Tick, Tables
<1>2. Nothing.n = 0
  BY EntryShape DEF Nothing
<1> QED
  BY <1>1, <1>2 DEF BanCountsEnd

LEMMA RestKeeps ==
    ASSUME DataInv, UNCHANGED <<now, db, log>>
    PROVE  DataInv'
  BY DEF DataInv, DbInv, EntryOk, LogInv, ReportInv, BanInv, CountInv,
         ReportsSpaced, BansAnswered, CountsGrow, Of

LEMMA CallKeeps ==
    ASSUME IndInv, NEW c \in Caller, NEW op \in Operations, NEW key \in Key, Call(c, op, key)
    PROVE  IndInv'
<1>1. DataInv'
  BY RestKeeps DEF IndInv, Call
<1>2. CallInv'
  BY RedisAssumption DEF IndInv, CallInv, Call, Commands
<1>3. \A d \in Caller, k \in Key : work[d] = [op |-> "Expire", key |-> k] => work'[d] = work[d]
  BY DEF IndInv, CallInv, Call, NoCommand
<1>4. BanCountsEnd'
  BY <1>3 DEF IndInv, BanCountsEnd, Call
<1> QED
  BY <1>1, <1>2, <1>4 DEF IndInv

LEMMA ExecuteKeeps == ASSUME IndInv, NEW c \in Caller, Execute(c) PROVE IndInv'
<1>1. work[c] \in Commands /\ Executed(work[c], TRUE) /\ now' = now
  BY DEF IndInv, CallInv, Execute
<1>2. DataInv'
  BY <1>1, CommandKeeps DEF IndInv
<1>3. CallInv'
  <2>1. work[c].key \in Key
    BY <1>1 DEF Commands
  <2>2. [op |-> "Expire", key |-> work[c].key] \in Commands
    BY <2>1 DEF Commands
  <2> QED
    BY <2>2 DEF IndInv, CallInv, Execute, AndThen
<1> QED
  BY <1>2, <1>3, ExecuteEnds DEF IndInv

LEMMA LoseKeeps == ASSUME IndInv, NEW c \in Caller, Lose(c) PROVE IndInv'
<1>1. work[c] \in Commands /\ Executed(work[c], FALSE) /\ now' = now
  BY DEF IndInv, CallInv, Lose
<1>2. DataInv'
  BY <1>1, CommandKeeps DEF IndInv
<1>3. CallInv' /\ BanCountsEnd'
  BY RedisAssumption DEF IndInv, CallInv, Lose, BanCountsEnd
<1> QED
  BY <1>2, <1>3 DEF IndInv

LEMMA GiveUpKeeps == ASSUME IndInv, NEW c \in Caller, GiveUp(c) PROVE IndInv'
<1>1. DataInv'
  BY RestKeeps DEF IndInv, GiveUp
<1>2. CallInv' /\ BanCountsEnd'
  BY DEF IndInv, CallInv, GiveUp, BanCountsEnd
<1> QED
  BY <1>1, <1>2 DEF IndInv

LEMMA LateKeeps == ASSUME IndInv, NEW command \in late, ExecuteLate(command) PROVE IndInv'
<1>1. command \in Commands /\ Executed(command, FALSE) /\ now' = now
  BY DEF IndInv, CallInv, ExecuteLate
<1>2. DataInv'
  BY <1>1, CommandKeeps DEF IndInv
<1>3. CallInv' /\ BanCountsEnd'
  BY DEF IndInv, CallInv, ExecuteLate, BanCountsEnd
<1> QED
  BY <1>2, <1>3 DEF IndInv

LEMMA InitHolds == ASSUME Init PROVE IndInv
<1>1. DbInv
  BY RedisAssumption DEF Init, DbInv, EntryOk, Nothing, Entry
<1>2. LogInv
  BY DEF Init, LogInv
<1>3. \A op, key : Of(op, key) = {}
  BY DEF Init, Of
<1>4. ReportInv /\ CountInv /\ ReportsSpaced /\ BansAnswered /\ CountsGrow
  BY <1>3 DEF ReportInv, CountInv, ReportsSpaced, BansAnswered, CountsGrow
<1>5. BanInv /\ BanCountsEnd
  <2>1. \A key \in Key : db["blocked"][key].n = 0 /\ db["bancount"][key].n = 0
    BY EntryShape DEF Init, Nothing, Tables
  <2> QED
    BY <1>3, <2>1 DEF BanInv, BanCountsEnd
<1>6. CallInv
  <2>1. MaxSent \in Nat
    BY RedisAssumption
  <2>2. work \in [Caller -> Commands \cup {NoCommand}]
    BY DEF Init
  <2>3. late = {} /\ sent = 0
    BY DEF Init
  <2>4. faulty \in BOOLEAN /\ (~faulty => late = {})
    BY DEF Init
  <2> QED
    BY <2>1, <2>2, <2>3, <2>4 DEF CallInv
<1> QED
  BY <1>1, <1>2, <1>4, <1>5, <1>6 DEF IndInv, DataInv

LEMMA NextHolds == ASSUME IndInv, [Next]_vars PROVE IndInv'
<1>1. CASE \E c \in Caller, op \in Operations, key \in Key : Call(c, op, key)
  BY <1>1, CallKeeps
<1>2. CASE \E c \in Caller : Execute(c)
  BY <1>2, ExecuteKeeps
<1>3. CASE \E c \in Caller : Lose(c)
  BY <1>3, LoseKeeps
<1>4. CASE \E c \in Caller : GiveUp(c)
  BY <1>4, GiveUpKeeps
<1>5. CASE \E command \in late : ExecuteLate(command)
  BY <1>5, LateKeeps
<1>6. CASE Tick
  <2>1. CallInv'
    BY <1>6 DEF IndInv, CallInv, Tick
  <2> QED
    BY <1>6, <2>1, TickKeeps, TickEnds DEF IndInv
<1>7. CASE UNCHANGED vars
  <2>1. DataInv'
    BY <1>7, RestKeeps DEF IndInv, vars
  <2> QED
    BY <1>7, <2>1 DEF IndInv, CallInv, BanCountsEnd, vars
<1> QED
  BY <1>1, <1>2, <1>3, <1>4, <1>5, <1>6, <1>7 DEF Next

-----------------------------------------------------------------------------

\* What Redis holds and has answered, and what the callers wait for, keep the
\* inductive invariant.
THEOREM Invariance == Spec => []IndInv
<1>1. Init => IndInv
  BY InitHolds
<1>2. IndInv /\ [Next]_vars => IndInv'
  BY NextHolds
<1> QED
  BY <1>1, <1>2, PTL DEF Spec

\* Every variable keeps its shape; no list of paths grows beyond maxRecentPaths
\* and no key outlives its end.
THEOREM TypeCorrect == Spec => []TypeOK
<1>1. IndInv => TypeOK
  BY DEF IndInv, DataInv, DbInv, EntryOk, CallInv, TypeOK
<1> QED
  BY <1>1, Invariance, PTL

\* No two callers are told to report an address within the cooldown: SetNX
\* answers true once, and the key is there until the cooldown is over, whoever
\* asks, and however often the command is sent again or late.
THEOREM OneReport == Spec => []ReportsSpaced
<1>1. IndInv => ReportsSpaced
  BY DEF IndInv, DataInv
<1> QED
  BY <1>1, Invariance, PTL

\* IsBlocked answers that an address is banned exactly while a ban imposed by
\* some instance is not over: Set gives the key its full time every time.
THEOREM BanRight == Spec => []BansAnswered
<1>1. IndInv => BansAnswered
  BY DEF IndInv, DataInv
<1> QED
  BY <1>1, Invariance, PTL

\* A count of walk-aways that is neither reset nor left alone for its time only
\* grows: Incr and Expire are one transaction.
THEOREM CountRight == Spec => []CountsGrow
<1>1. IndInv => CountsGrow
  BY DEF IndInv, DataInv
<1> QED
  BY <1>1, Invariance, PTL

\* A ban count without an end is one whose first caller is about to set it, as
\* long as the network fails nobody: Incr and Expire are two commands there.
THEOREM CountEnds == Spec => []BanCountsEnd
<1>1. IndInv => BanCountsEnd
  BY DEF IndInv
<1> QED
  BY <1>1, Invariance, PTL

=============================================================================
