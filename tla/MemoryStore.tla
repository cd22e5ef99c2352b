----------------------------- MODULE MemoryStore -----------------------------
(***************************************************************************)
(* The in-memory store (store.go, memoryStore): walk-away counters, bans,  *)
(* reports, ban counts, recent paths and passive counters, the sweep that  *)
(* drops what has expired, and the snapshot file that carries the store    *)
(* over a restart.                                                         *)
(*                                                                         *)
(* Each method of the store is one critical section and one action here.   *)
(* A save is three steps: the copy under the lock, the temporary file, the *)
(* rename. The process can be killed between any two steps; it then starts *)
(* again from the file. There is no save on shutdown.                      *)
(***************************************************************************)
EXTENDS Integers, Sequences, FiniteSets, Functions

CONSTANTS
    Key,          \* addresses, and the prefixed keys of the gate
    Path,         \* request paths worth logging
    WalkawayTtl,  \* ttl of IncrWalkaway (cfg.Walkaway.TTL)
    BanDuration,  \* dur of Block (cfg.Ban.Duration; the trap's 24h)
    Cooldown,     \* cooldown of ShouldReport (15 minutes)
    ReportKeep,   \* how long a report is remembered (1 hour)
    BanCountKeep, \* how long a ban count is kept (30 days)
    Window,       \* window of IncrPassiveCount
    MaxPaths,     \* maxRecentPaths
    Persistent,   \* persistPath is set
    NoFile,       \* the snapshot does not exist
    Torn,         \* the snapshot does not parse
    MaxTime,      \* bound on the clock
    MaxCount,     \* bound on walk-aways and passive requests in a window
    MaxBans,      \* bound on bans counted for a key; 0: no bans, no reports
    MaxCrashes,   \* bound on restarts
    MaxFailures   \* bound on failed saves

ASSUME TimesAssumption ==
    /\ {WalkawayTtl, BanDuration, Cooldown, ReportKeep, BanCountKeep,
        Window, MaxTime} \subseteq Nat
    /\ Cooldown <= ReportKeep

ASSUME BoundsAssumption ==
    /\ {MaxPaths, MaxCount, MaxBans, MaxCrashes, MaxFailures} \subseteq Nat
    /\ Persistent \in BOOLEAN

\* A counter, a table of the store, and what is saved of the store.
Counters == [count : Nat \ {0}, expires : Nat]

Table(V) == UNION {[keys -> V] : keys \in SUBSET Key}

Snapshot == [walkaways : Table(Counters), blocked : Table(Nat),
             reported : Table(Nat), banCounts : Table(Nat \ {0}),
             recentPath : Table(Seq(Path))]

ASSUME DiskAssumption == NoFile \notin Snapshot /\ Torn \notin Snapshot

VARIABLES
    now,         \* time.Now()
    walkaways, blocked, reported, banCounts, recentPath, passiveCnt,
    dirty,       \* something changed since the last copy
    saver,       \* persistSnapshot: where it is and the copy it holds
    disk,        \* the contents of persistPath
    crashes, failures,
    saved,       \* history: the copy of the last save that completed
    failed,      \* history: the last save did not complete
    lastReport   \* history: reports made, less those a crash lost

tables == <<walkaways, blocked, reported, banCounts, recentPath, passiveCnt>>
file == <<saver, disk, crashes, failures, saved, failed>>
vars == <<now, tables, dirty, file, lastReport>>

Empty == [k \in {} |-> 0]

Put(f, k, v) == [i \in DOMAIN f \cup {k} |-> IF i = k THEN v ELSE f[i]]

\* What a table keeps of the entries that pass a test.
Kept(f, Test(_)) == Restrict(f, {k \in DOMAIN f : Test(f[k])})

Over(expiry) == now > expiry

NoSnapshot == [walkaways |-> Empty, blocked |-> Empty, reported |-> Empty,
               banCounts |-> Empty, recentPath |-> Empty]

\* memorySnapshot: all but the passive counters, and no expiry of ban counts.
Copy == [walkaways  |-> walkaways,
         blocked    |-> blocked,
         reported   |-> reported,
         banCounts  |-> [k \in DOMAIN banCounts |-> banCounts[k].count],
         recentPath |-> recentPath]

\* Mutant: the reports are saved but never taken up again.
LoadedWithoutReports(contents) ==
    IF contents \in {NoFile, Torn} THEN NoSnapshot
    ELSE [contents EXCEPT !.reported = Empty]

\* loadSnapshot: what a start at this moment takes from the file. The time
\* of a ban count starts anew.
Loaded(contents) ==
    IF contents \in {NoFile, Torn} THEN NoSnapshot
    ELSE [walkaways  |-> Kept(contents.walkaways, LAMBDA e : now < e.expires),
          blocked    |-> Kept(contents.blocked, LAMBDA e : now < e),
          reported   |-> Kept(contents.reported,
                              LAMBDA at : now - at <= ReportKeep),
          banCounts  |-> contents.banCounts,
          recentPath |-> contents.recentPath]

Init ==
    /\ now = 0
    /\ walkaways = Empty /\ blocked = Empty /\ reported = Empty
    /\ banCounts = Empty /\ recentPath = Empty /\ passiveCnt = Empty
    /\ dirty = FALSE
    /\ saver = [pc |-> "idle", copy |-> NoSnapshot]
    /\ disk = NoFile
    /\ crashes = 0 /\ failures = 0
    /\ saved = NoSnapshot /\ failed = FALSE
    /\ lastReport = Empty

-----------------------------------------------------------------------------
(* The methods the gate calls.                                             *)

\* A counter of a fixed window: the first event after the end opens the next.
Counted(f, k, span) ==
    IF k \notin DOMAIN f \/ Over(f[k].expires)
    THEN [count |-> 1, expires |-> now + span]
    ELSE [f[k] EXCEPT !.count = @ + 1]

IncrWalkaway(k) ==
    /\ Counted(walkaways, k, WalkawayTtl).count <= MaxCount
    /\ walkaways' = Put(walkaways, k, Counted(walkaways, k, WalkawayTtl))
    /\ dirty' = TRUE
    /\ UNCHANGED <<now, blocked, reported, banCounts, recentPath, passiveCnt,
                   file, lastReport>>

ResetWalkaway(k) ==
    /\ k \in DOMAIN walkaways
    /\ walkaways' = Restrict(walkaways, DOMAIN walkaways \ {k})
    /\ dirty' = TRUE
    /\ UNCHANGED <<now, blocked, reported, banCounts, recentPath, passiveCnt,
                   file, lastReport>>

Block(k) ==
    /\ MaxBans > 0
    /\ blocked' = Put(blocked, k, now + BanDuration)
    /\ dirty' = TRUE
    /\ UNCHANGED <<now, walkaways, reported, banCounts, recentPath, passiveCnt,
                   file, lastReport>>

\* Of a ban that is over, IsBlocked also drops the entry.
IsBlocked(k) ==
    /\ k \in DOMAIN blocked /\ Over(blocked[k])
    /\ blocked' = Restrict(blocked, DOMAIN blocked \ {k})
    /\ dirty' = TRUE
    /\ UNCHANGED <<now, walkaways, reported, banCounts, recentPath, passiveCnt,
                   file, lastReport>>

\* ShouldReport answers true, and the caller reports.
Reportable(k) == k \in DOMAIN reported => now - reported[k] >= Cooldown

ShouldReport(k) ==
    /\ MaxBans > 0
    /\ Reportable(k)
    /\ reported' = Put(reported, k, now)
    /\ lastReport' = Put(lastReport, k, now)
    /\ dirty' = TRUE
    /\ UNCHANGED <<now, walkaways, blocked, banCounts, recentPath, passiveCnt,
                   file>>

\* A ban count is continued even past its expiry, until it is swept.
IncrBanCount(k) ==
    LET n == IF k \in DOMAIN banCounts THEN banCounts[k].count + 1 ELSE 1 IN
    /\ n <= MaxBans
    /\ banCounts' = Put(banCounts, k,
                        [count |-> n, expires |-> now + BanCountKeep])
    /\ dirty' = TRUE
    /\ UNCHANGED <<now, walkaways, blocked, reported, recentPath, passiveCnt,
                   file, lastReport>>

\* RecentPaths.
PathsOf(k) == IF k \in DOMAIN recentPath THEN recentPath[k] ELSE <<>>

\* Paths with p logged: a repeat of the newest adds nothing, and the oldest
\* makes room.
Longer(paths, p) ==
    LET all == IF paths # <<>> /\ paths[Len(paths)] = p THEN paths
               ELSE Append(paths, p)
    IN  SubSeq(all, IF Len(all) > MaxPaths THEN Len(all) - MaxPaths + 1 ELSE 1,
               Len(all))

LogPath(k, p) ==
    /\ recentPath' = Put(recentPath, k, Longer(PathsOf(k), p))
    /\ dirty' = TRUE
    /\ UNCHANGED <<now, walkaways, blocked, reported, banCounts, passiveCnt,
                   file, lastReport>>

IncrPassiveCount(k) ==
    /\ Counted(passiveCnt, k, Window).count <= MaxCount
    /\ passiveCnt' = Put(passiveCnt, k, Counted(passiveCnt, k, Window))
    /\ dirty' = TRUE
    /\ UNCHANGED <<now, walkaways, blocked, reported, banCounts, recentPath,
                   file, lastReport>>

-----------------------------------------------------------------------------
(* Background: the sweep, the saves, restarts and the clock.               *)

\* Paths stay while the client is counted or banned.
SweptPaths(counters, bans) ==
    Restrict(recentPath,
             DOMAIN recentPath \cap (DOMAIN counters \cup DOMAIN bans))

\* Mutant: an entry is swept at its very end, when it still counts.
SweptCountersEarly(f) == Kept(f, LAMBDA e : now < e.expires)

\* sweepOnce of a table of counters.
SweptCounters(f) == Kept(f, LAMBDA e : ~Over(e.expires))

Sweep ==
    /\ walkaways' = SweptCounters(walkaways)
    /\ blocked' = Kept(blocked, LAMBDA e : ~Over(e))
    /\ reported' = Kept(reported, LAMBDA at : now - at <= ReportKeep)
    /\ passiveCnt' = SweptCounters(passiveCnt)
    /\ banCounts' = SweptCounters(banCounts)
    /\ recentPath' = SweptPaths(walkaways', blocked')
    /\ dirty' = (dirty \/ tables' # tables)
    /\ UNCHANGED <<now, file, lastReport>>

\* persistSnapshot, under the lock.
StartSave ==
    /\ Persistent /\ saver.pc = "idle" /\ dirty
    /\ saver' = [pc |-> "write", copy |-> Copy]
    /\ dirty' = FALSE
    /\ UNCHANGED <<now, tables, disk, crashes, failures, saved, failed,
                   lastReport>>

\* Mutant: the snapshot is written in place.
WriteInPlace ==
    /\ saver.pc = "write"
    /\ saver' = [saver EXCEPT !.pc = "rename"]
    /\ disk' = Torn
    /\ UNCHANGED <<now, tables, dirty, crashes, failures, saved, failed,
                   lastReport>>

\* The temporary file is written; nothing ever reads it.
WriteTemp ==
    /\ saver.pc = "write"
    /\ saver' = [saver EXCEPT !.pc = "rename"]
    /\ UNCHANGED <<now, tables, dirty, disk, crashes, failures, saved, failed,
                   lastReport>>

\* Mutant: the store is marked clean only now.
RenameAndClean ==
    /\ saver.pc = "rename"
    /\ saver' = [pc |-> "idle", copy |-> NoSnapshot]
    /\ disk' = saver.copy
    /\ saved' = saver.copy /\ failed' = FALSE
    /\ dirty' = FALSE
    /\ UNCHANGED <<now, tables, crashes, failures, lastReport>>

\* os.Rename replaces the snapshot whole.
Rename ==
    /\ saver.pc = "rename"
    /\ saver' = [pc |-> "idle", copy |-> NoSnapshot]
    /\ disk' = saver.copy
    /\ saved' = saver.copy /\ failed' = FALSE
    /\ UNCHANGED <<now, tables, dirty, crashes, failures, lastReport>>

\* The directory, the temporary file or the rename fails: the copy is given
\* up, and the store stays marked clean.
FailSave ==
    /\ saver.pc # "idle"
    /\ failures < MaxFailures
    /\ failures' = failures + 1
    /\ saver' = [pc |-> "idle", copy |-> NoSnapshot]
    /\ failed' = TRUE
    /\ UNCHANGED <<now, tables, dirty, disk, crashes, saved, lastReport>>

\* The process is killed and starts again (newMemoryStore).
Restart ==
    /\ crashes < MaxCrashes
    /\ crashes' = crashes + 1
    /\ LET snap == Loaded(disk) IN
       /\ walkaways' = snap.walkaways
       /\ blocked' = snap.blocked
       /\ reported' = snap.reported
       /\ banCounts' = [k \in DOMAIN snap.banCounts |->
                          [count |-> snap.banCounts[k],
                           expires |-> now + BanCountKeep]]
       /\ recentPath' = snap.recentPath
    /\ passiveCnt' = Empty
    /\ dirty' = FALSE
    /\ saver' = [pc |-> "idle", copy |-> NoSnapshot]
    /\ failed' = FALSE
    /\ lastReport' = saved.reported
    /\ UNCHANGED <<now, disk, failures, saved>>

Tick ==
    /\ now < MaxTime
    /\ now' = now + 1
    /\ UNCHANGED <<tables, dirty, file, lastReport>>

Save == StartSave \/ WriteTemp \/ Rename

Next ==
    \/ \E k \in Key :
         \/ IncrWalkaway(k) \/ ResetWalkaway(k) \/ Block(k) \/ IsBlocked(k)
         \/ ShouldReport(k) \/ IncrBanCount(k) \/ IncrPassiveCount(k)
         \/ \E p \in Path : LogPath(k, p)
    \/ Sweep \/ Save \/ FailSave \/ Restart \/ Tick

Spec == Init /\ [][Next]_vars

\* The tickers of sweepLoop and persistLoop fire for ever, and a save that
\* has begun goes on. Requests, failures and restarts are not owed.
FairSpec == Spec /\ WF_vars(Sweep) /\ WF_vars(Save) /\ WF_vars(Tick)

-----------------------------------------------------------------------------
(* Properties.                                                             *)

\* Every variable keeps its shape.
TypeOK ==
    /\ now \in Nat
    /\ {walkaways, banCounts, passiveCnt} \subseteq Table(Counters)
    /\ {blocked, reported} \subseteq Table(Nat)
    /\ recentPath \in Table(Seq(Path))
    /\ lastReport \in Table(Nat)
    /\ dirty \in BOOLEAN /\ failed \in BOOLEAN
    /\ saver \in [pc : {"idle", "write", "rename"}, copy : Snapshot]
    /\ disk \in {NoFile, Torn} \cup Snapshot
    /\ saved \in Snapshot
    /\ crashes \in Nat /\ failures \in Nat

\* A clean store has nothing to lose: unless the last save failed, a restart
\* brings back from the file just what it would bring back from a save made
\* now. Every method that changes a saved table marks the store dirty, and a
\* change that arrives during a save is not taken for saved.
CrashLosesNothing ==
    (Persistent /\ ~dirty /\ saver.pc = "idle" /\ ~failed) => Loaded(disk) = Loaded(Copy)

\* A ban that a completed save holds is in force until it ends: through
\* sweeps, lazy deletions, further saves that fail or are cut short, and
\* restarts.
BanOutlivesCrash ==
    \A k \in DOMAIN saved.blocked :
        now < saved.blocked[k] =>
            k \in DOMAIN blocked /\ blocked[k] >= saved.blocked[k]

\* Two reports of one address are at least the cooldown apart, with the
\* sweep and restarts between them; only a report made after the last
\* completed save is forgotten by a restart.
ReportsSpaced ==
    [][crashes' = crashes =>
         \A k \in DOMAIN lastReport :
            lastReport'[k] # lastReport[k] => now - lastReport[k] >= Cooldown]_vars

\* What a walk-away count, a ban, a report or a passive budget depends on: the
\* count as read, whether the next one goes on from it or starts anew, the ban,
\* the cooldown, the passive count, and the paths of a client that is counted
\* or banned at the moment. Ban counts are not here, for the sweep does change
\* them (IncrBanCount goes on with one that is over), nor are the paths of a
\* client that is neither counted nor banned, which the sweep drops.
WalkawayCount(k) ==
    IF k \in DOMAIN walkaways /\ ~Over(walkaways[k].expires)
    THEN walkaways[k].count ELSE 0

Banned(k) == k \in DOMAIN blocked /\ ~Over(blocked[k])

View == [k \in Key |->
           <<WalkawayCount(k), Counted(walkaways, k, WalkawayTtl), Banned(k),
             Reportable(k), Counted(passiveCnt, k, Window),
             IF Banned(k) \/ WalkawayCount(k) > 0 THEN PathsOf(k) ELSE <<>>>>]

\* The sweep and the lazy deletion of IsBlocked change nothing of View:
\* walk-away counts, bans, the report cooldown and passive budgets are the same
\* before and after, to the very end of an entry, and the paths of a client
\* that is still counted or banned stay for the report.
CleaningUnseen == [][(Sweep \/ \E k \in Key : IsBlocked(k)) => View' = View]_vars

\* Every ban reaches the file, unless it ends, is lost in a restart or falls
\* into a save that fails first.
BansReachDisk ==
    \A k \in Key :
        k \in DOMAIN blocked
            ~> (k \in DOMAIN saved.blocked \/ k \notin DOMAIN blocked \/ failed)
=============================================================================
