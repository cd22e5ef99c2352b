----------------------------- MODULE RedisStore -----------------------------
(***************************************************************************)
(* The store in Redis (redisStore in store.go): each method is a command   *)
(* or a transaction that Redis executes at once, but IncrBanCount, which   *)
(* is two. Several instances of the program may share one Redis.           *)
(*                                                                         *)
(* The network may lose an answer, and the client library then sends the   *)
(* command again; or the method gives up after its timeout, when a command *)
(* already sent may still be executed later. A method that gives up        *)
(* returns 0, false or nil, as does one whose program has died.            *)
(*                                                                         *)
(* IncrPassiveCount is in PassiveMode.                                     *)
(***************************************************************************)
EXTENDS Integers, Sequences, FiniteSets

CONSTANTS
    Key,
    Caller,        \* requests served at one time, by any instance
    WalkawayTTL,   \* cfg.Walkaway.TTL
    BanTime,       \* cfg.Ban.Duration
    Cooldown,      \* cfg.AbuseIPDB.Cooldown
    BanMemory,     \* 30 days
    PathTime,      \* 7 days
    MaxPaths,      \* maxRecentPaths
    MaxTime,       \* bound: the clock stops
    MaxSent        \* bound: calls made

Operations ==
    {"IncrWalkaway", "ResetWalkaway", "Block", "IsBlocked", "ShouldReport",
     "IncrBanCount", "LogPath"}

ASSUME RedisAssumption ==
    /\ {WalkawayTTL, BanTime, Cooldown, BanMemory, PathTime, MaxPaths}
         \subseteq Nat \ {0}
    /\ {MaxTime, MaxSent} \subseteq Nat

VARIABLES
    now,
    db,      \* the keys of Redis
    work,    \* the command each caller is waiting for
    late,    \* commands sent by callers that have given up
    sent,
    faulty,  \* history: the network has failed a caller
    log      \* history: the commands executed, with what they answered

vars == <<now, db, work, late, sent, faulty, log>>

Tables == {"walkaway", "blocked", "reported", "bancount", "paths"}

\* The table a command is about: s.k(kind, ip).
Table(op) ==
    CASE op \in {"IncrWalkaway", "ResetWalkaway"} -> "walkaway"
      [] op \in {"Block", "IsBlocked"} -> "blocked"
      [] op = "ShouldReport" -> "reported"
      [] op \in {"IncrBanCount", "Expire"} -> "bancount"
      [] op = "LogPath" -> "paths"

Never == -1

\* The number at a key, and when Redis drops it; paths are counted only.
Entry(n, ends) == [n |-> n, ends |-> ends]

Nothing == Entry(0, Never)

Commands == [op : Operations \cup {"Expire"}, key : Key]

NoCommand == [op |-> "none"]

Init ==
    /\ now = 0
    /\ db = [table \in Tables |-> [key \in Key |-> Nothing]]
    /\ work = [c \in Caller |-> NoCommand]
    /\ late = {}
    /\ sent = 0
    /\ faulty = FALSE
    /\ log = <<>>

Call(c, op, key) ==
    /\ work[c] = NoCommand
    /\ sent < MaxSent
    /\ sent' = sent + 1
    /\ work' = [work EXCEPT ![c] = [op |-> op, key |-> key]]
    /\ UNCHANGED <<now, db, late, faulty, log>>

\* Mutant: a counter keeps the end it was given at first.
CountedFixed(old) ==
    Entry(old.n + 1, IF old.n = 0 THEN now + WalkawayTTL ELSE old.ends)

\* Incr and Expire in one transaction.
Counted(old) == Entry(old.n + 1, now + WalkawayTTL)

\* Mutant: a ban is set only where there is none.
BlockedOnce(old) == IF old.n = 0 THEN Entry(1, now + BanTime) ELSE old

\* Set with an end.
Blocked(old) == Entry(1, now + BanTime)

\* Mutant: every call for a report begins the cooldown.
ReportedAnew(old) == Entry(1, now + 1)

\* SetNX with an end.
Reported(old) == IF old.n = 0 THEN Entry(1, now + Cooldown) ELSE old

\* Expire alone, after the first ban has been counted.
Ending(old) == IF old.n = 0 THEN old ELSE Entry(old.n, now + BanMemory)

\* RPush, LTrim and Expire in one transaction.
Logged(old) ==
    Entry(IF old.n < MaxPaths THEN old.n + 1 ELSE MaxPaths, now + PathTime)

\* What a command makes of the entry at its key.
Effect(op, old) ==
    CASE op = "IncrWalkaway" -> Counted(old)
      [] op = "ResetWalkaway" -> Nothing
      [] op = "Block" -> Blocked(old)
      [] op = "IsBlocked" -> old
      [] op = "ShouldReport" -> Reported(old)
      [] op = "IncrBanCount" -> Entry(old.n + 1, old.ends)
      [] op = "Expire" -> Ending(old)
      [] op = "LogPath" -> Logged(old)

\* What it answers: a count, or 1 if it found something, or if it set it.
Answer(op, old) ==
    IF op = "ShouldReport" THEN 1 - old.n ELSE Effect(op, old).n

\* Redis executes a command.
Executed(command, answered) ==
    LET table == Table(command.op)
        old == db[table][command.key]
    IN /\ db' = [db EXCEPT ![table][command.key] = Effect(command.op, old)]
       /\ log' = Append(log, [op |-> command.op, key |-> command.key, at |-> now,
                              n |-> Answer(command.op, old),
                              answered |-> answered])

\* Mutant: the end of a ban count is not set.
AndThenNothing(c) == work' = [work EXCEPT ![c] = NoCommand]

\* The caller has its answer; the first ban counted is given an end.
AndThen(c) ==
    work' = [work EXCEPT ![c] =
               IF work[c].op = "IncrBanCount" /\ db["bancount"][work[c].key].n = 0
               THEN [op |-> "Expire", key |-> work[c].key]
               ELSE NoCommand]

Execute(c) ==
    /\ work[c] # NoCommand
    /\ Executed(work[c], TRUE)
    /\ AndThen(c)
    /\ UNCHANGED <<now, late, sent, faulty>>

\* The command is executed but its answer is lost, and it is sent again.
Lose(c) ==
    /\ work[c] # NoCommand
    /\ sent < MaxSent
    /\ sent' = sent + 1
    /\ Executed(work[c], FALSE)
    /\ faulty' = TRUE
    /\ UNCHANGED <<now, work, late>>

\* The caller has no answer in time, or dies; its command may be on its way.
GiveUp(c) ==
    /\ work[c] # NoCommand
    /\ late' \in {late, late \cup {work[c]}}
    /\ work' = [work EXCEPT ![c] = NoCommand]
    /\ faulty' = TRUE
    /\ UNCHANGED <<now, db, sent, log>>

\* Redis comes to a command nobody waits for any more.
ExecuteLate(command) ==
    /\ Executed(command, FALSE)
    /\ late' = late \ {command}
    /\ UNCHANGED <<now, work, sent, faulty>>

\* Time passes, and Redis drops what has ended.
Tick ==
    /\ now < MaxTime
    /\ now' = now + 1
    /\ db' = [table \in Tables |-> [key \in Key |->
                IF db[table][key].ends \in 0..now THEN Nothing
                ELSE db[table][key]]]
    /\ UNCHANGED <<work, late, sent, faulty, log>>

Next ==
    \/ \E c \in Caller :
          \/ \E op \in Operations, key \in Key : Call(c, op, key)
          \/ Execute(c) \/ Lose(c) \/ GiveUp(c)
    \/ \E command \in late : ExecuteLate(command)
    \/ Tick

Spec == Init /\ [][Next]_vars

-----------------------------------------------------------------------------
(* Properties.                                                             *)

\* Every variable keeps its shape; no list of paths is longer than it may be,
\* and nothing that has ended is there.
TypeOK ==
    /\ now \in 0..MaxTime
    /\ \A table \in Tables, key \in Key :
          LET entry == db[table][key] IN
          /\ entry.n \in Nat
          /\ entry.ends >= now \/ entry.ends = Never
          /\ table = "paths" => entry.n <= MaxPaths
    /\ \A c \in Caller : work[c] \in Commands \cup {NoCommand}
    /\ late \subseteq Commands
    /\ sent \in 0..MaxSent
    /\ faulty \in BOOLEAN

Of(op, key) == {i \in DOMAIN log : log[i].op = op /\ log[i].key = key}

\* Of all the callers that ask to report an address, through lost answers, late
\* commands and several instances, no two are told to within the cooldown.
ReportsSpaced ==
    \A key \in Key : \A i, j \in Of("ShouldReport", key) :
        i < j /\ log[i].n = 1 /\ log[j].n = 1 => log[j].at - log[i].at > Cooldown

\* An answer about a ban is right: it holds for the full time from the last
\* time it was imposed, by whatever instance, and no longer.
BansAnswered ==
    \A key \in Key : \A j \in Of("IsBlocked", key) :
        log[j].n = 1 <=>
            \E i \in Of("Block", key) : i < j /\ log[j].at - log[i].at <= BanTime

\* A counter that goes on within its time counts every request and forgets
\* none but by a reset.
CountsGrow ==
    \A key \in Key : \A i, j \in Of("IncrWalkaway", key) :
        /\ i < j
        /\ log[j].at - log[i].at <= WalkawayTTL
        /\ \A k \in Of("ResetWalkaway", key) : k < i \/ k > j
        => log[j].n > log[i].n

\* Until the network has failed somebody, a ban count without an end is about
\* to get one, however two callers' commands interleave.
BanCountsEnd ==
    \A key \in Key :
        LET count == db["bancount"][key] IN
        ~faulty /\ count.n > 0 /\ count.ends = Never =>
            \E c \in Caller : work[c] = [op |-> "Expire", key |-> key]
=============================================================================
