-------------------------- MODULE MemoryStoreProofs --------------------------
(***************************************************************************)
(* Proofs about MemoryStore, for any number of clients, times, restarts    *)
(* and failed saves: a completed save keeps its bans (BansOutlive), a      *)
(* clean store has nothing to lose (NothingLost), reports stay apart       *)
(* (ReportsApart) and cleaning goes unseen (CleaningGoesUnseen).           *)
(***************************************************************************)
EXTENDS MemoryStore, SequenceTheorems, TLAPS

-----------------------------------------------------------------------------
(* Tables.                                                                 *)

\* What a table is, without the union.
LEMMA TableShape ==
    ASSUME NEW V, NEW f
    PROVE  f \in Table(V) <=> DOMAIN f \subseteq Key /\ f \in [DOMAIN f -> V]
<1>1. ASSUME f \in Table(V)
      PROVE  DOMAIN f \subseteq Key /\ f \in [DOMAIN f -> V]
  <2>1. PICK keys \in SUBSET Key : f \in [keys -> V]
    BY <1>1 DEF Table
  <2> QED
    BY <2>1
<1>2. ASSUME DOMAIN f \subseteq Key, f \in [DOMAIN f -> V]
      PROVE  f \in Table(V)
  BY <1>2 DEF Table
<1> QED
  BY <1>1, <1>2

\* The empty table.
LEMMA EmptyTable ==
    ASSUME NEW V
    PROVE  Empty \in Table(V)
<1>1. DOMAIN Empty \subseteq Key /\ Empty \in [DOMAIN Empty -> V]
  BY DEF Empty
<1> QED
  BY <1>1, TableShape

\* Put adds or replaces one entry.
LEMMA PutEntries ==
    ASSUME NEW f, NEW k, NEW v
    PROVE  /\ DOMAIN Put(f, k, v) = DOMAIN f \cup {k}
           /\ Put(f, k, v)[k] = v
           /\ \A i \in DOMAIN f \ {k} : Put(f, k, v)[i] = f[i]
  BY DEF Put

LEMMA PutTable ==
    ASSUME NEW V, NEW f \in Table(V), NEW k \in Key, NEW v \in V
    PROVE  Put(f, k, v) \in Table(V)
<1>1. DOMAIN f \subseteq Key /\ f \in [DOMAIN f -> V]
  BY TableShape
<1>2. Put(f, k, v) \in [DOMAIN f \cup {k} -> V]
  BY <1>1 DEF Put
<1> QED
  BY <1>1, <1>2, PutEntries, TableShape

\* Restrict drops entries.
LEMMA RestrictTable ==
    ASSUME NEW V, NEW f \in Table(V), NEW keys \in SUBSET DOMAIN f
    PROVE  /\ Restrict(f, keys) \in Table(V)
           /\ DOMAIN Restrict(f, keys) = keys
           /\ \A i \in keys : Restrict(f, keys)[i] = f[i]
<1>1. DOMAIN f \subseteq Key /\ f \in [DOMAIN f -> V]
  BY TableShape
<1>2. /\ DOMAIN Restrict(f, keys) = keys
      /\ \A i \in keys : Restrict(f, keys)[i] = f[i]
      /\ Restrict(f, keys) \in [keys -> V]
  BY <1>1 DEF Restrict
<1>3. Restrict(f, keys) \in Table(V)
  BY <1>1, <1>2, TableShape
<1> QED
  BY <1>2, <1>3

\* A counter after an event.
LEMMA CountedCounter ==
    ASSUME NEW f \in Table(Counters), NEW k, NEW span \in Nat, now \in Nat
    PROVE  Counted(f, k, span) \in Counters
<1>1. CASE k \notin DOMAIN f \/ Over(f[k].expires)
  BY <1>1 DEF Counted, Counters
<1>2. CASE ~(k \notin DOMAIN f \/ Over(f[k].expires))
  <2>1. f[k] \in Counters
    BY <1>2, TableShape
  <2> DEFINE entry == f[k]
  <2>2. Counted(f, k, span) = [entry EXCEPT !.count = @ + 1]
    BY <1>2 DEF Counted
  <2>3. entry \in Counters
    BY <2>1
  <2> HIDE DEF entry
  <2>4. [entry EXCEPT !.count = @ + 1] \in Counters
    BY <2>3 DEF Counters
  <2> QED
    BY <2>2, <2>4
<1> QED
  BY <1>1, <1>2

-----------------------------------------------------------------------------
(* What the sweep leaves.                                                  *)

\* Of a table of counters, those that are not over.
LEMMA SweptTable ==
    ASSUME NEW f \in Table(Counters)
    PROVE  /\ SweptCounters(f) \in Table(Counters)
           /\ DOMAIN SweptCounters(f) = {k \in DOMAIN f : ~Over(f[k].expires)}
           /\ \A k \in DOMAIN SweptCounters(f) : SweptCounters(f)[k] = f[k]
<1> DEFINE keys == {k \in DOMAIN f : ~Over(f[k].expires)}
<1>1. SweptCounters(f) = Restrict(f, keys)
  BY DEF SweptCounters, Kept
<1>2. keys \in SUBSET DOMAIN f
  OBVIOUS
<1> HIDE DEF keys
<1>3. QED
  BY <1>1, <1>2, RestrictTable DEF keys

\* Of the bans, those that are not over.
BansLeft == Kept(blocked, LAMBDA e : ~Over(e))

LEMMA SweptBans ==
    ASSUME blocked \in Table(Nat)
    PROVE  /\ BansLeft \in Table(Nat)
           /\ DOMAIN BansLeft = {k \in DOMAIN blocked : ~Over(blocked[k])}
           /\ \A k \in DOMAIN BansLeft : BansLeft[k] = blocked[k]
<1> DEFINE keys == {k \in DOMAIN blocked : ~Over(blocked[k])}
<1>1. BansLeft = Restrict(blocked, keys)
  BY DEF BansLeft, Kept
<1>2. keys \in SUBSET DOMAIN blocked
  OBVIOUS
<1> HIDE DEF keys
<1> QED
  BY <1>1, <1>2, RestrictTable DEF keys

\* Of the reports, those that are remembered.
ReportsLeft == Kept(reported, LAMBDA at : now - at <= ReportKeep)

LEMMA SweptReports ==
    ASSUME reported \in Table(Nat)
    PROVE  /\ ReportsLeft \in Table(Nat)
           /\ DOMAIN ReportsLeft = {k \in DOMAIN reported : now - reported[k] <= ReportKeep}
           /\ \A k \in DOMAIN ReportsLeft : ReportsLeft[k] = reported[k]
<1> DEFINE keys == {k \in DOMAIN reported : now - reported[k] <= ReportKeep}
<1>1. ReportsLeft = Restrict(reported, keys)
  BY DEF ReportsLeft, Kept
<1>2. keys \in SUBSET DOMAIN reported
  OBVIOUS
<1> HIDE DEF keys
<1> QED
  BY <1>1, <1>2, RestrictTable DEF keys

\* The paths the sweep leaves.
LEMMA SweptPathsTable ==
    ASSUME recentPath \in Table(Seq(Path)), NEW counters, NEW bans
    PROVE  /\ SweptPaths(counters, bans) \in Table(Seq(Path))
           /\ DOMAIN SweptPaths(counters, bans) =
                DOMAIN recentPath \cap (DOMAIN counters \cup DOMAIN bans)
           /\ \A k \in DOMAIN SweptPaths(counters, bans) :
                SweptPaths(counters, bans)[k] = recentPath[k]
<1> DEFINE keys == DOMAIN recentPath \cap (DOMAIN counters \cup DOMAIN bans)
<1>1. SweptPaths(counters, bans) = Restrict(recentPath, keys)
  BY DEF SweptPaths
<1>2. keys \in SUBSET DOMAIN recentPath
  OBVIOUS
<1> HIDE DEF keys
<1> QED
  BY <1>1, <1>2, RestrictTable DEF keys

-----------------------------------------------------------------------------
(* What a start takes from the file.                                       *)

\* loadSnapshot at some later time.
LoadedAt(contents, t) ==
    IF contents \in {NoFile, Torn} THEN NoSnapshot
    ELSE [walkaways  |-> Restrict(contents.walkaways,
                                  {k \in DOMAIN contents.walkaways :
                                      t < contents.walkaways[k].expires}),
          blocked    |-> Restrict(contents.blocked,
                                  {k \in DOMAIN contents.blocked : t < contents.blocked[k]}),
          reported   |-> Restrict(contents.reported,
                                  {k \in DOMAIN contents.reported :
                                      t - contents.reported[k] <= ReportKeep}),
          banCounts  |-> contents.banCounts,
          recentPath |-> contents.recentPath]

LEMMA LoadedNow ==
    ASSUME NEW contents
    PROVE  Loaded(contents) = LoadedAt(contents, now)
  BY DEF Loaded, LoadedAt, Kept

\* The empty snapshot is one, and loads as itself.
LEMMA NoSnapshotShape == NoSnapshot \in Snapshot
  BY EmptyTable DEF NoSnapshot, Snapshot

LEMMA RestrictEmpty ==
    ASSUME NEW keys \in SUBSET DOMAIN Empty
    PROVE  Restrict(Empty, keys) = Empty
  BY DEF Restrict, Empty

LEMMA NoSnapshotLoads ==
    ASSUME NEW t \in Nat
    PROVE  LoadedAt(NoSnapshot, t) = NoSnapshot
<1>1. NoSnapshot \notin {NoFile, Torn}
  BY NoSnapshotShape, DiskAssumption
<1>2. /\ Restrict(Empty, {k \in DOMAIN Empty : t < Empty[k].expires}) = Empty
      /\ Restrict(Empty, {k \in DOMAIN Empty : t < Empty[k]}) = Empty
      /\ Restrict(Empty, {k \in DOMAIN Empty : t - Empty[k] <= ReportKeep}) = Empty
  BY RestrictEmpty
<1> QED
  BY <1>1, <1>2 DEF LoadedAt, NoSnapshot

\* What is loaded is a snapshot, whatever the file held.
LEMMA LoadedShape ==
    ASSUME NEW contents \in {NoFile, Torn} \cup Snapshot, NEW t \in Nat
    PROVE  LoadedAt(contents, t) \in Snapshot
<1>1. CASE contents \in {NoFile, Torn}
  BY <1>1, NoSnapshotShape DEF LoadedAt
<1>2. CASE contents \notin {NoFile, Torn}
  <2> DEFINE w == contents.walkaways
             b == contents.blocked
             r == contents.reported
  <2>1. contents \in Snapshot
    BY <1>2
  <2>2. /\ w \in Table(Counters) /\ b \in Table(Nat) /\ r \in Table(Nat)
        /\ contents.banCounts \in Table(Nat \ {0})
        /\ contents.recentPath \in Table(Seq(Path))
    BY <2>1 DEF Snapshot
  <2>3. LoadedAt(contents, t) =
          [walkaways  |-> Restrict(w, {k \in DOMAIN w : t < w[k].expires}),
           blocked    |-> Restrict(b, {k \in DOMAIN b : t < b[k]}),
           reported   |-> Restrict(r, {k \in DOMAIN r : t - r[k] <= ReportKeep}),
           banCounts  |-> contents.banCounts,
           recentPath |-> contents.recentPath]
    BY <1>2 DEF LoadedAt
  <2> HIDE DEF w, b, r
  <2>4. Restrict(w, {k \in DOMAIN w : t < w[k].expires}) \in Table(Counters)
    BY <2>2, RestrictTable
  <2>5. Restrict(b, {k \in DOMAIN b : t < b[k]}) \in Table(Nat)
    BY <2>2, RestrictTable
  <2>6. Restrict(r, {k \in DOMAIN r : t - r[k] <= ReportKeep}) \in Table(Nat)
    BY <2>2, RestrictTable
  <2> QED
    BY <2>2, <2>3, <2>4, <2>5, <2>6 DEF Snapshot
<1> QED
  BY <1>1, <1>2

\* To restrict twice is to restrict once.
LEMMA RestrictTwice ==
    ASSUME NEW f, NEW keys \in SUBSET DOMAIN f, NEW fewer \in SUBSET keys
    PROVE  Restrict(Restrict(f, keys), fewer) = Restrict(f, fewer)
  BY DEF Restrict

\* A later start takes from what an earlier one took just what it would
\* have taken from the file.
LEMMA LoadedTwice ==
    ASSUME NEW contents \in {NoFile, Torn} \cup Snapshot,
           NEW t0 \in Nat, NEW t \in Nat, t0 <= t
    PROVE  LoadedAt(LoadedAt(contents, t0), t) = LoadedAt(contents, t)
<1>1. CASE contents \in {NoFile, Torn}
  BY <1>1, NoSnapshotLoads DEF LoadedAt
<1>2. CASE contents \notin {NoFile, Torn}
  <2> DEFINE w == contents.walkaways
             b == contents.blocked
             r == contents.reported
             W(at) == {k \in DOMAIN w : at < w[k].expires}
             B(at) == {k \in DOMAIN b : at < b[k]}
             R(at) == {k \in DOMAIN r : at - r[k] <= ReportKeep}
             first == LoadedAt(contents, t0)
  <2>1. /\ \A k \in DOMAIN w : w[k].expires \in Nat
        /\ \A k \in DOMAIN b : b[k] \in Nat
        /\ \A k \in DOMAIN r : r[k] \in Nat
    <3>1. w \in Table(Counters) /\ b \in Table(Nat) /\ r \in Table(Nat)
      BY <1>2 DEF Snapshot
    <3> HIDE DEF w, b, r
    <3>2. \A k \in DOMAIN w : w[k] \in Counters
      BY <3>1, TableShape
    <3> QED
      BY <3>1, <3>2, TableShape DEF Counters
  <2>2. W(t) \subseteq W(t0) /\ B(t) \subseteq B(t0) /\ R(t) \subseteq R(t0)
    BY <2>1, TimesAssumption
  <2>3. \A at : LoadedAt(contents, at) =
          [walkaways |-> Restrict(w, W(at)), blocked |-> Restrict(b, B(at)),
           reported |-> Restrict(r, R(at)), banCounts |-> contents.banCounts,
           recentPath |-> contents.recentPath]
    BY <1>2 DEF LoadedAt
  <2>4. /\ first.walkaways = Restrict(w, W(t0)) /\ first.blocked = Restrict(b, B(t0))
        /\ first.reported = Restrict(r, R(t0)) /\ first.banCounts = contents.banCounts
        /\ first.recentPath = contents.recentPath
    <3>1. first =
            [walkaways |-> Restrict(w, W(t0)), blocked |-> Restrict(b, B(t0)),
             reported |-> Restrict(r, R(t0)), banCounts |-> contents.banCounts,
             recentPath |-> contents.recentPath]
      BY <2>3
    <3> HIDE DEF w, b, r, W, B, R, first
    <3> QED
      BY <3>1
  <2>5. /\ W(t) = {k \in DOMAIN Restrict(w, W(t0)) : t < Restrict(w, W(t0))[k].expires}
        /\ B(t) = {k \in DOMAIN Restrict(b, B(t0)) : t < Restrict(b, B(t0))[k]}
        /\ R(t) = {k \in DOMAIN Restrict(r, R(t0)) : t - Restrict(r, R(t0))[k] <= ReportKeep}
    BY <2>2 DEF Restrict
  <2>6. first \notin {NoFile, Torn}
    BY LoadedShape, DiskAssumption
  <2> HIDE DEF w, b, r, first
  <2>7. LoadedAt(first, t) =
          [walkaways |-> Restrict(Restrict(w, W(t0)), W(t)),
           blocked |-> Restrict(Restrict(b, B(t0)), B(t)),
           reported |-> Restrict(Restrict(r, R(t0)), R(t)),
           banCounts |-> contents.banCounts, recentPath |-> contents.recentPath]
    BY <2>4, <2>5, <2>6 DEF LoadedAt
  <2>8. /\ W(t0) \in SUBSET DOMAIN w /\ B(t0) \in SUBSET DOMAIN b /\ R(t0) \in SUBSET DOMAIN r
        /\ W(t) \in SUBSET W(t0) /\ B(t) \in SUBSET B(t0) /\ R(t) \in SUBSET R(t0)
    BY <2>2
  <2> HIDE DEF W, B, R
  <2>9. /\ Restrict(Restrict(w, W(t0)), W(t)) = Restrict(w, W(t))
        /\ Restrict(Restrict(b, B(t0)), B(t)) = Restrict(b, B(t))
        /\ Restrict(Restrict(r, R(t0)), R(t)) = Restrict(r, R(t))
    BY <2>8, RestrictTwice
  <2> QED
    BY <2>3, <2>7, <2>9 DEF first
<1> QED
  BY <1>1, <1>2
-----------------------------------------------------------------------------
(* The invariant.                                                          *)

\* No ban ends later than one imposed now would.
NoLonger(bans) == \A k \in DOMAIN bans : bans[k] <= now + BanDuration

BoundInv == NoLonger(blocked) /\ NoLonger(saved.blocked) /\ NoLonger(saver.copy.blocked)

\* The bans of a snapshot that are not over are in force, as long at least.
InForce(bans) ==
    \A k \in DOMAIN bans : now < bans[k] => k \in DOMAIN blocked /\ blocked[k] >= bans[k]

BanInv == InForce(saved.blocked) /\ InForce(saver.copy.blocked)

\* The file holds the last save that completed, whole.
DiskInv == \/ disk = NoFile /\ saved = NoSnapshot
           \/ disk \in Snapshot /\ disk = saved

\* A report made is remembered while it matters.
ReportInv ==
    \A k \in DOMAIN lastReport :
        \/ k \in DOMAIN reported /\ reported[k] = lastReport[k]
        \/ now - lastReport[k] > ReportKeep

\* What a start would take from the file, or from the copy that is on its
\* way there, now or later: just what it would take from a save made now.
OnItsWay == IF saver.pc = "idle" THEN disk ELSE saver.copy

Clean == Persistent /\ ~dirty /\ (saver.pc = "idle" => ~failed)

CleanInv ==
    Clean => \A t \in Nat : now <= t => LoadedAt(OnItsWay, t) = LoadedAt(Copy, t)

IndInv == TypeOK /\ BoundInv /\ BanInv /\ DiskInv /\ ReportInv /\ CleanInv

\* A copy of the tables is a snapshot.
LEMMA CopyShape ==
    ASSUME {walkaways, banCounts} \subseteq Table(Counters),
           {blocked, reported} \subseteq Table(Nat),
           recentPath \in Table(Seq(Path))
    PROVE  Copy \in Snapshot
<1> DEFINE f == [k \in DOMAIN banCounts |-> banCounts[k].count]
<1>1. DOMAIN banCounts \subseteq Key /\ \A k \in DOMAIN banCounts : banCounts[k] \in Counters
  BY TableShape
<1>2. \A k \in DOMAIN banCounts : banCounts[k].count \in Nat \ {0}
  BY <1>1 DEF Counters
<1>3. DOMAIN f \subseteq Key /\ f \in [DOMAIN f -> Nat \ {0}]
  BY <1>1, <1>2
<1>4. f \in Table(Nat \ {0})
  BY <1>3, TableShape
<1> QED
  BY <1>4 DEF Copy, Snapshot

\* The invariant holds at the start.
LEMMA InitInv == Init => IndInv
<1> SUFFICES ASSUME Init
             PROVE  IndInv
  OBVIOUS
<1>1. [k \in DOMAIN banCounts |-> banCounts[k].count] = Empty
  BY DEF Init, Empty
<1>2. Copy = NoSnapshot
  BY <1>1 DEF Copy, NoSnapshot, Init
<1>4. TypeOK
  BY NoSnapshotShape, EmptyTable DEF Init, TypeOK
<1>5. BoundInv /\ BanInv /\ ReportInv
  BY DEF Init, BoundInv, NoLonger, BanInv, InForce, ReportInv, NoSnapshot, Empty
<1>6. DiskInv
  BY DEF Init, DiskInv
<1>7. CleanInv
  <2>1. OnItsWay = NoFile
    BY DEF Init, OnItsWay
  <2>2. \A t \in Nat : LoadedAt(NoFile, t) = NoSnapshot
    BY DEF LoadedAt
  <2> QED
    BY <1>2, <2>1, <2>2, NoSnapshotLoads DEF CleanInv
<1> QED
  BY <1>4, <1>5, <1>6, <1>7 DEF IndInv

-----------------------------------------------------------------------------
(* Every step keeps the shape of the variables.                            *)

LEMMA LongerPaths ==
    ASSUME NEW paths \in Seq(Path), NEW p \in Path
    PROVE  Longer(paths, p) \in Seq(Path)
<1> DEFINE all == IF paths # <<>> /\ paths[Len(paths)] = p THEN paths ELSE Append(paths, p)
           first == IF Len(all) > MaxPaths THEN Len(all) - MaxPaths + 1 ELSE 1
<1>1. all \in Seq(Path)
  BY AppendProperties
<1> HIDE DEF all
<1>2. Len(all) \in Nat /\ first \in Int /\ first >= 1
  BY <1>1, BoundsAssumption
<1>3. \A i \in first..Len(all) : all[i] \in Path
  BY <1>1, <1>2
<1> HIDE DEF first
<1>4. SubSeq(all, first, Len(all)) \in Seq(Path)
  BY <1>2, <1>3, SubSeqProperties
<1> QED
  BY <1>4 DEF Longer, all, first

\* What a restart makes of the file.
LEMMA RestartTables ==
    ASSUME TypeOK, Restart
    PROVE  /\ walkaways' = LoadedAt(disk, now).walkaways
           /\ blocked' = LoadedAt(disk, now).blocked
           /\ reported' = LoadedAt(disk, now).reported
           /\ recentPath' = LoadedAt(disk, now).recentPath
           /\ banCounts' = [k \in DOMAIN LoadedAt(disk, now).banCounts |->
                              [count |-> LoadedAt(disk, now).banCounts[k],
                               expires |-> now + BanCountKeep]]
           /\ LoadedAt(disk, now) \in Snapshot
           /\ banCounts' \in Table(Counters)
<1> DEFINE snap == LoadedAt(disk, now)
<1>1. snap \in Snapshot
  BY LoadedShape DEF TypeOK
<1>2. Loaded(disk) = snap
  BY LoadedNow
<1>3. banCounts' = [k \in DOMAIN snap.banCounts |->
                      [count |-> snap.banCounts[k], expires |-> now + BanCountKeep]]
  BY <1>2 DEF Restart
<1> HIDE DEF snap
<1>4. snap.banCounts \in Table(Nat \ {0})
  BY <1>1 DEF Snapshot
<1>5. /\ DOMAIN snap.banCounts \subseteq Key
      /\ \A k \in DOMAIN snap.banCounts : snap.banCounts[k] \in Nat \ {0}
  BY <1>4, TableShape
<1>6. now + BanCountKeep \in Nat
  BY TimesAssumption DEF TypeOK
<1>7. \A k \in DOMAIN snap.banCounts :
         [count |-> snap.banCounts[k], expires |-> now + BanCountKeep] \in Counters
  BY <1>5, <1>6 DEF Counters
<1>8. banCounts' \in Table(Counters)
  BY <1>3, <1>5, <1>7, TableShape
<1> QED
  BY <1>1, <1>2, <1>3, <1>8 DEF Restart, snap

LEMMA NextType == TypeOK /\ [Next]_vars => TypeOK'
<1> SUFFICES ASSUME TypeOK, [Next]_vars
             PROVE  TypeOK'
  OBVIOUS
<1> USE TimesAssumption DEF TypeOK, file
<1>1. ASSUME NEW k \in Key, IncrWalkaway(k)
      PROVE  TypeOK'
  <2>1. walkaways' \in Table(Counters)
    BY <1>1, CountedCounter, PutTable DEF IncrWalkaway
  <2> QED
    BY <1>1, <2>1 DEF IncrWalkaway
<1>2. ASSUME NEW k \in Key, ResetWalkaway(k)
      PROVE  TypeOK'
  <2>1. walkaways' \in Table(Counters)
    BY <1>2, RestrictTable DEF ResetWalkaway
  <2> QED
    BY <1>2, <2>1 DEF ResetWalkaway
<1>3. ASSUME NEW k \in Key, Block(k)
      PROVE  TypeOK'
  <2>1. now + BanDuration \in Nat /\ blocked' = Put(blocked, k, now + BanDuration)
    BY <1>3 DEF Block
  <2>2. blocked' \in Table(Nat)
    BY <2>1, PutTable
  <2> QED
    BY <1>3, <2>2 DEF Block
<1>4. ASSUME NEW k \in Key, IsBlocked(k)
      PROVE  TypeOK'
  <2>1. blocked' \in Table(Nat)
    BY <1>4, RestrictTable DEF IsBlocked
  <2> QED
    BY <1>4, <2>1 DEF IsBlocked
<1>5. ASSUME NEW k \in Key, ShouldReport(k)
      PROVE  TypeOK'
  <2>1. reported' \in Table(Nat) /\ lastReport' \in Table(Nat)
    BY <1>5, PutTable DEF ShouldReport
  <2> QED
    BY <1>5, <2>1 DEF ShouldReport
<1>6. ASSUME NEW k \in Key, IncrBanCount(k)
      PROVE  TypeOK'
  <2> DEFINE n == IF k \in DOMAIN banCounts THEN banCounts[k].count + 1 ELSE 1
  <2>1. \A i \in DOMAIN banCounts : banCounts[i] \in Counters
    BY TableShape
  <2>2. n \in Nat \ {0} /\ now + BanCountKeep \in Nat
    BY <2>1 DEF Counters
  <2> HIDE DEF n
  <2>3. [count |-> n, expires |-> now + BanCountKeep] \in Counters
    BY <2>2 DEF Counters
  <2>4. banCounts' = Put(banCounts, k, [count |-> n, expires |-> now + BanCountKeep])
    BY <1>6 DEF IncrBanCount, n
  <2>5. banCounts' \in Table(Counters)
    BY <2>3, <2>4, PutTable
  <2> QED
    BY <1>6, <2>5 DEF IncrBanCount
<1>7. ASSUME NEW k \in Key, NEW p \in Path, LogPath(k, p)
      PROVE  TypeOK'
  <2>1. PathsOf(k) \in Seq(Path)
    BY TableShape DEF PathsOf
  <2>2. recentPath' \in Table(Seq(Path))
    BY <1>7, <2>1, LongerPaths, PutTable DEF LogPath
  <2> QED
    BY <1>7, <2>2 DEF LogPath
<1>8. ASSUME NEW k \in Key, IncrPassiveCount(k)
      PROVE  TypeOK'
  <2>1. passiveCnt' \in Table(Counters)
    BY <1>8, CountedCounter, PutTable DEF IncrPassiveCount
  <2> QED
    BY <1>8, <2>1 DEF IncrPassiveCount
<1>9. CASE Sweep
  <2>1. walkaways' \in Table(Counters) /\ passiveCnt' \in Table(Counters)
        /\ banCounts' \in Table(Counters)
    BY <1>9, SweptTable DEF Sweep
  <2>2. blocked' = BansLeft /\ reported' = ReportsLeft
    BY <1>9 DEF Sweep, BansLeft, ReportsLeft, Kept
  <2>3. recentPath' = SweptPaths(walkaways', blocked') /\ dirty' \in BOOLEAN
        /\ UNCHANGED <<now, file, lastReport>>
    BY <1>9 DEF Sweep
  <2> QED
    BY <2>1, <2>2, <2>3, SweptBans, SweptReports, SweptPathsTable
<1>10. CASE StartSave
  BY <1>10, CopyShape DEF StartSave, tables
<1>11. CASE WriteTemp
  BY <1>11 DEF WriteTemp, tables
<1>12. CASE Rename
  BY <1>12, NoSnapshotShape DEF Rename, tables
<1>13. CASE FailSave
  BY <1>13, NoSnapshotShape DEF FailSave, tables
<1>14. CASE Restart
  <2>1. /\ walkaways' \in Table(Counters) /\ blocked' \in Table(Nat)
        /\ reported' \in Table(Nat) /\ recentPath' \in Table(Seq(Path))
        /\ banCounts' \in Table(Counters)
    BY <1>14, RestartTables DEF Snapshot
  <2>2. saved.reported \in Table(Nat)
    BY DEF Snapshot
  <2>3. passiveCnt' \in Table(Counters)
    BY <1>14, EmptyTable DEF Restart
  <2>4. /\ saver' = [pc |-> "idle", copy |-> NoSnapshot]
        /\ dirty' = FALSE /\ failed' = FALSE /\ crashes' = crashes + 1
        /\ lastReport' = saved.reported
        /\ UNCHANGED <<now, disk, failures, saved>>
    BY <1>14 DEF Restart
  <2>5. saver' \in [pc : {"idle", "write", "rename"}, copy : Snapshot]
    BY <2>4, NoSnapshotShape
  <2>6. saved' \in Snapshot /\ disk' \in {NoFile, Torn} \cup Snapshot
        /\ now' \in Nat /\ crashes' \in Nat /\ failures' \in Nat
    BY <2>4
  <2>7. lastReport' \in Table(Nat)
    BY <2>2, <2>4
  <2> QED
    BY <2>1, <2>3, <2>4, <2>5, <2>6, <2>7
<1>15. CASE Tick
  BY <1>15 DEF Tick, tables
<1>16. CASE UNCHANGED vars
  BY <1>16 DEF vars, tables
<1> QED
  BY <1>1, <1>2, <1>3, <1>4, <1>5, <1>6, <1>7, <1>8, <1>9, <1>10, <1>11, <1>12,
     <1>13, <1>14, <1>15, <1>16
  DEF Next, Save

-----------------------------------------------------------------------------
(* Every step keeps the bans.                                              *)

\* What has been banned remains so until the ban ends: only a restart takes
\* bans away, and only Block sets a later end.
LEMMA BansKept ==
    ASSUME TypeOK, BoundInv, [Next]_vars, ~Restart,
           NEW bans \in Table(Nat), NoLonger(bans), InForce(bans)
    PROVE  /\ \A k \in DOMAIN blocked' : blocked'[k] <= now' + BanDuration
           /\ \A k \in DOMAIN bans : bans[k] <= now' + BanDuration
           /\ \A k \in DOMAIN bans : now' < bans[k] =>
                k \in DOMAIN blocked' /\ blocked'[k] >= bans[k]
<1>1. /\ now \in Nat /\ blocked \in Table(Nat) /\ BanDuration \in Nat
      /\ \A k \in DOMAIN blocked : blocked[k] \in Nat /\ blocked[k] <= now + BanDuration
      /\ \A k \in DOMAIN bans : bans[k] \in Nat /\ bans[k] <= now + BanDuration
      /\ \A k \in DOMAIN bans : now < bans[k] => k \in DOMAIN blocked /\ blocked[k] >= bans[k]
  BY TimesAssumption, TableShape DEF TypeOK, BoundInv, NoLonger, InForce
<1>2. ASSUME NEW k \in Key, Block(k)
      PROVE  /\ now' = now
             /\ DOMAIN blocked' = DOMAIN blocked \cup {k}
             /\ blocked'[k] = now + BanDuration
             /\ \A i \in DOMAIN blocked \ {k} : blocked'[i] = blocked[i]
  BY <1>2 DEF Block, Put
<1>4. ASSUME NEW k \in Key, IsBlocked(k)
      PROVE  /\ now' = now /\ Over(blocked[k])
             /\ DOMAIN blocked' = DOMAIN blocked \ {k}
             /\ \A i \in DOMAIN blocked' : blocked'[i] = blocked[i]
  <2>1. /\ now' = now /\ k \in DOMAIN blocked /\ Over(blocked[k])
        /\ blocked' = Restrict(blocked, DOMAIN blocked \ {k})
    BY <1>4 DEF IsBlocked
  <2> QED
    BY <1>1, <2>1, RestrictTable
<1>5. ASSUME Sweep
      PROVE  /\ now' = now
             /\ DOMAIN blocked' = {k \in DOMAIN blocked : ~Over(blocked[k])}
             /\ \A i \in DOMAIN blocked' : blocked'[i] = blocked[i]
  <2>1. now' = now /\ blocked' = BansLeft
    BY <1>5 DEF Sweep, BansLeft, Kept
  <2> QED
    BY <1>1, <2>1, SweptBans
<1>6. CASE \E k \in Key : Block(k)
  <2>1. PICK k \in Key : Block(k)
    BY <1>6
  <2>2. /\ now' = now
        /\ DOMAIN blocked' = DOMAIN blocked \cup {k}
        /\ blocked'[k] = now + BanDuration
        /\ \A i \in DOMAIN blocked \ {k} : blocked'[i] = blocked[i]
    BY <1>2, <2>1
  <2> QED
    BY <1>1, <2>2
<1>7. CASE \E k \in Key : IsBlocked(k)
  <2>1. PICK k \in Key : IsBlocked(k)
    BY <1>7
  <2>2. /\ now' = now /\ Over(blocked[k])
        /\ DOMAIN blocked' = DOMAIN blocked \ {k}
        /\ \A i \in DOMAIN blocked' : blocked'[i] = blocked[i]
    BY <1>4, <2>1
  <2> QED
    BY <1>1, <2>2 DEF Over
<1>8. CASE Sweep
  BY <1>1, <1>5, <1>8 DEF Over
<1>9. CASE Tick
  <2>1. now' = now + 1 /\ blocked' = blocked
    BY <1>9 DEF Tick, tables
  <2> QED
    BY <1>1, <2>1
<1>10. CASE now' = now /\ blocked' = blocked
  BY <1>1, <1>10
<1> QED
  BY <1>6, <1>7, <1>8, <1>9, <1>10
  DEF Next, Save, IncrWalkaway, ResetWalkaway, ShouldReport, IncrBanCount,
      LogPath, IncrPassiveCount, StartSave, WriteTemp, Rename, FailSave, vars, tables

\* The steps that leave the file and the saver alone.
LEMMA FileKept ==
    ASSUME [Next]_vars, ~StartSave, ~WriteTemp, ~Rename, ~FailSave, ~Restart
    PROVE  UNCHANGED <<saver, disk, saved, failed>>
  BY DEF Next, Save, IncrWalkaway, ResetWalkaway, Block, IsBlocked, ShouldReport,
         IncrBanCount, LogPath, IncrPassiveCount, Sweep, Tick, file, vars

LEMMA NextDisk == TypeOK /\ DiskInv /\ [Next]_vars => DiskInv'
<1> SUFFICES ASSUME TypeOK, DiskInv, [Next]_vars
             PROVE  DiskInv'
  OBVIOUS
<1>1. CASE Rename
  BY <1>1 DEF Rename, DiskInv, TypeOK
<1>2. CASE UNCHANGED <<disk, saved>>
  BY <1>2 DEF DiskInv
<1> QED
  BY <1>1, <1>2, FileKept DEF StartSave, WriteTemp, FailSave, Restart

\* A restart takes up the bans of the file that are not over.
LEMMA RestartBans ==
    ASSUME TypeOK, DiskInv, Restart
    PROVE  /\ DOMAIN blocked' = {k \in DOMAIN saved.blocked : now < saved.blocked[k]}
           /\ \A k \in DOMAIN blocked' : blocked'[k] = saved.blocked[k]
<1>1. blocked' = LoadedAt(disk, now).blocked
  BY RestartTables
<1>2. CASE disk = NoFile /\ saved = NoSnapshot
  <2>1. blocked' = Empty /\ saved.blocked = Empty
    BY <1>1, <1>2 DEF LoadedAt, NoSnapshot
  <2> QED
    BY <2>1 DEF Empty
<1>3. CASE disk \in Snapshot /\ disk = saved
  <2> DEFINE bans == saved.blocked
             keys == {k \in DOMAIN bans : now < bans[k]}
  <2>1. disk \notin {NoFile, Torn}
    BY <1>3, DiskAssumption
  <2>2. bans \in Table(Nat)
    BY <1>3 DEF Snapshot
  <2>3. blocked' = Restrict(bans, keys)
    BY <1>1, <1>3, <2>1 DEF LoadedAt
  <2>4. keys \in SUBSET DOMAIN bans
    OBVIOUS
  <2> HIDE DEF bans, keys
  <2>5. /\ DOMAIN blocked' = keys
        /\ \A k \in keys : blocked'[k] = bans[k]
    BY <2>2, <2>3, <2>4, RestrictTable
  <2> QED
    BY <2>5 DEF bans, keys
<1> QED
  BY <1>2, <1>3 DEF DiskInv

LEMMA NextBans ==
    TypeOK /\ BoundInv /\ BanInv /\ DiskInv /\ [Next]_vars => BoundInv' /\ BanInv'
<1> SUFFICES ASSUME TypeOK, BoundInv, BanInv, DiskInv, [Next]_vars
             PROVE  BoundInv' /\ BanInv'
  OBVIOUS
<1>1. /\ blocked \in Table(Nat) /\ saved.blocked \in Table(Nat)
      /\ saver.copy.blocked \in Table(Nat) /\ now \in Nat /\ BanDuration \in Nat
  BY TimesAssumption DEF TypeOK, Snapshot
<1>2. /\ NoLonger(blocked) /\ NoLonger(saved.blocked) /\ NoLonger(saver.copy.blocked)
      /\ InForce(saved.blocked) /\ InForce(saver.copy.blocked) /\ InForce(blocked)
  <2>1. InForce(blocked)
    BY <1>1, TableShape DEF InForce
  <2> QED
    BY <2>1 DEF BoundInv, BanInv
<1>3. ASSUME NEW bans, bans \in {saved.blocked, saver.copy.blocked, blocked}, ~Restart
      PROVE  /\ \A k \in DOMAIN blocked' : blocked'[k] <= now' + BanDuration
             /\ \A k \in DOMAIN bans : bans[k] <= now' + BanDuration
             /\ \A k \in DOMAIN bans : now' < bans[k] =>
                  k \in DOMAIN blocked' /\ blocked'[k] >= bans[k]
  <2>1. bans \in Table(Nat) /\ NoLonger(bans) /\ InForce(bans)
    BY <1>1, <1>2, <1>3
  <2> QED
    BY <1>3, <2>1, BansKept
<1>4. CASE ~Restart /\ saved.blocked' \in {saved.blocked, saver.copy.blocked}
           /\ (saver.copy.blocked' \in {saver.copy.blocked, blocked}
               \/ saver.copy.blocked' = Empty)
  BY <1>3, <1>4 DEF BoundInv, BanInv, NoLonger, InForce, Empty
<1>5. CASE Restart
  <2>1. /\ now' = now /\ saved' = saved
        /\ saver' = [pc |-> "idle", copy |-> NoSnapshot]
    BY <1>5 DEF Restart
  <2>2. /\ DOMAIN blocked' = {k \in DOMAIN saved.blocked : now < saved.blocked[k]}
        /\ \A k \in DOMAIN blocked' : blocked'[k] = saved.blocked[k]
    BY <1>5, RestartBans
  <2>3. \A k \in DOMAIN saved.blocked :
           saved.blocked[k] \in Nat /\ saved.blocked[k] <= now + BanDuration
    BY <1>1, <1>2, TableShape DEF NoLonger
  <2>4. DOMAIN saver'.copy.blocked = {}
    BY <2>1 DEF NoSnapshot, Empty
  <2> QED
    BY <2>1, <2>2, <2>3, <2>4 DEF BoundInv, BanInv, NoLonger, InForce
<1>6. CASE StartSave
  <2>1. saved' = saved /\ saver'.copy.blocked = blocked
    BY <1>6 DEF StartSave, Copy
  <2> QED
    BY <1>4, <1>6, <2>1, <1>5
<1>7. CASE Rename
  <2>1. saved' = saver.copy /\ saver'.copy.blocked = Empty
    BY <1>7 DEF Rename, NoSnapshot
  <2> QED
    BY <1>4, <1>5, <1>7, <2>1
<1>8. CASE FailSave
  <2>1. saved' = saved /\ saver'.copy.blocked = Empty
    BY <1>8 DEF FailSave, NoSnapshot
  <2> QED
    BY <1>4, <1>5, <1>8, <2>1
<1>9. CASE WriteTemp
  <2>1. saved' = saved /\ saver'.copy = saver.copy
    BY <1>9 DEF WriteTemp, TypeOK
  <2> QED
    BY <1>4, <1>5, <1>9, <2>1
<1>10. CASE UNCHANGED <<saver, saved>>
  BY <1>4, <1>5, <1>10
<1> QED
  BY <1>5, <1>6, <1>7, <1>8, <1>9, <1>10, FileKept

-----------------------------------------------------------------------------
(* Every step keeps the reports apart.                                     *)

\* The report made last of an address is remembered until it is too old to
\* matter.
LEMMA NextReports == TypeOK /\ DiskInv /\ ReportInv /\ [Next]_vars => ReportInv'
<1> SUFFICES ASSUME TypeOK, DiskInv, ReportInv, [Next]_vars
             PROVE  ReportInv'
  OBVIOUS
<1>1. /\ now \in Nat /\ ReportKeep \in Nat
      /\ reported \in Table(Nat) /\ lastReport \in Table(Nat)
      /\ \A k \in DOMAIN reported : reported[k] \in Nat
      /\ \A k \in DOMAIN lastReport : lastReport[k] \in Nat
  BY TimesAssumption, TableShape DEF TypeOK
<1>2. CASE \E k \in Key : ShouldReport(k)
  <2>1. PICK k \in Key : ShouldReport(k)
    BY <1>2
  <2>2. /\ now' = now /\ reported' = Put(reported, k, now)
        /\ lastReport' = Put(lastReport, k, now)
    BY <2>1 DEF ShouldReport
  <2>3. /\ DOMAIN reported' = DOMAIN reported \cup {k} /\ reported'[k] = now
        /\ \A i \in DOMAIN reported \ {k} : reported'[i] = reported[i]
    BY <2>2 DEF Put
  <2>4. /\ DOMAIN lastReport' = DOMAIN lastReport \cup {k} /\ lastReport'[k] = now
        /\ \A i \in DOMAIN lastReport \ {k} : lastReport'[i] = lastReport[i]
    BY <2>2 DEF Put
  <2> QED
    BY <2>2, <2>3, <2>4 DEF ReportInv
<1>3. CASE Sweep
  <2>1. now' = now /\ lastReport' = lastReport /\ reported' = ReportsLeft
    BY <1>3 DEF Sweep, ReportsLeft, Kept
  <2>2. /\ DOMAIN reported' = {k \in DOMAIN reported : now - reported[k] <= ReportKeep}
        /\ \A k \in DOMAIN reported' : reported'[k] = reported[k]
    BY <1>1, <2>1, SweptReports
  <2> QED
    BY <1>1, <2>1, <2>2 DEF ReportInv
<1>4. CASE Restart
  <2> DEFINE reports == saved.reported
  <2>1. now' = now /\ lastReport' = reports /\ reported' = LoadedAt(disk, now).reported
    BY <1>4, RestartTables DEF Restart
  <2>2. CASE disk = NoFile /\ saved = NoSnapshot
    BY <2>1, <2>2 DEF ReportInv, NoSnapshot, Empty
  <2>3. CASE disk \in Snapshot /\ disk = saved
    <3> DEFINE keys == {k \in DOMAIN reports : now - reports[k] <= ReportKeep}
    <3>1. disk \notin {NoFile, Torn}
      BY <2>3, DiskAssumption
    <3>2. reports \in Table(Nat)
      BY <2>3 DEF Snapshot
    <3>3. reported' = Restrict(reports, keys)
      BY <2>1, <2>3, <3>1 DEF LoadedAt
    <3>4. keys \in SUBSET DOMAIN reports
      OBVIOUS
    <3> HIDE DEF keys, reports
    <3>5. DOMAIN reported' = keys /\ \A k \in keys : reported'[k] = reports[k]
      BY <3>2, <3>3, <3>4, RestrictTable
    <3>6. \A k \in DOMAIN reports : reports[k] \in Nat
      BY <3>2, TableShape
    <3> QED
      BY <1>1, <2>1, <3>5, <3>6 DEF ReportInv, keys
  <2> QED
    BY <2>2, <2>3 DEF DiskInv
<1>5. CASE Tick
  <2>1. now' = now + 1 /\ reported' = reported /\ lastReport' = lastReport
    BY <1>5 DEF Tick, tables
  <2> QED
    BY <1>1, <2>1 DEF ReportInv
<1>6. CASE UNCHANGED <<now, reported, lastReport>>
  BY <1>6 DEF ReportInv
<1> QED
  BY <1>2, <1>3, <1>4, <1>5, <1>6
  DEF Next, Save, IncrWalkaway, ResetWalkaway, Block, IsBlocked, IncrBanCount,
      LogPath, IncrPassiveCount, StartSave, WriteTemp, Rename, FailSave, vars, tables

-----------------------------------------------------------------------------
(* A clean store has nothing to lose.                                      *)

\* The steps of the gate and the sweep mark the store dirty if they change
\* a table.
LEMMA DirtyIfChanged ==
    ASSUME [Next]_vars, ~StartSave, ~Restart
    PROVE  ~dirty' => ~dirty /\ Copy' = Copy
<1>1. CASE Sweep
  <2>1. ~dirty' => ~dirty /\ tables' = tables
    BY <1>1 DEF Sweep
  <2> QED
    BY <2>1 DEF tables, Copy
<1>2. CASE UNCHANGED <<dirty, tables>>
  BY <1>2 DEF tables, Copy
<1>3. CASE dirty' = TRUE
  BY <1>3
<1> QED
  BY <1>1, <1>2, <1>3
  DEF Next, Save, IncrWalkaway, ResetWalkaway, Block, IsBlocked, ShouldReport,
      IncrBanCount, LogPath, IncrPassiveCount, WriteTemp, Rename, FailSave, Tick, vars

\* After a restart the store holds what the file gave.
LEMMA RestartCopy ==
    ASSUME TypeOK, Restart
    PROVE  Copy' = LoadedAt(disk, now)
<1> DEFINE snap == LoadedAt(disk, now)
<1>1. /\ walkaways' = snap.walkaways /\ blocked' = snap.blocked
      /\ reported' = snap.reported /\ recentPath' = snap.recentPath
      /\ banCounts' = [k \in DOMAIN snap.banCounts |->
                         [count |-> snap.banCounts[k], expires |-> now + BanCountKeep]]
      /\ snap \in Snapshot
  BY RestartTables
<1> HIDE DEF snap
<1>2. snap.banCounts \in [DOMAIN snap.banCounts -> Nat \ {0}]
  <2>1. snap.banCounts \in Table(Nat \ {0})
    BY <1>1 DEF Snapshot
  <2> QED
    BY <2>1, TableShape
<1>3. [k \in DOMAIN banCounts' |-> banCounts'[k].count] = snap.banCounts
  BY <1>1, <1>2
<1>4. Copy' = snap
  BY <1>1, <1>3 DEF Copy, Snapshot
<1> QED
  BY <1>4 DEF snap

LEMMA NextClean == TypeOK /\ DiskInv /\ CleanInv /\ [Next]_vars => CleanInv'
<1> SUFFICES ASSUME TypeOK, DiskInv, CleanInv, [Next]_vars, Clean',
                    NEW t \in Nat, now' <= t
             PROVE  LoadedAt(OnItsWay', t) = LoadedAt(Copy', t)
  BY DEF CleanInv
<1>1. CASE StartSave
  <2>1. saver'.pc # "idle" /\ saver'.copy = Copy /\ Copy' = Copy
    BY <1>1 DEF StartSave, tables, Copy
  <2> QED
    BY <2>1 DEF OnItsWay
<1>2. CASE Restart
  <2>1. OnItsWay' = disk /\ now' = now
    BY <1>2 DEF Restart, OnItsWay
  <2>2. disk \in {NoFile, Torn} \cup Snapshot /\ now \in Nat
    BY DEF TypeOK
  <2>3. LoadedAt(LoadedAt(disk, now), t) = LoadedAt(disk, t)
    BY <2>1, <2>2, LoadedTwice
  <2> QED
    BY <1>2, <2>1, <2>3, RestartCopy
<1>3. CASE ~StartSave /\ ~Restart
  <2>1. ~dirty /\ Copy' = Copy /\ Persistent
    BY <1>3, DirtyIfChanged DEF Clean
  <2>2. OnItsWay' = OnItsWay /\ Clean
    <3>1. CASE WriteTemp
      BY <2>1, <3>1 DEF WriteTemp, OnItsWay, Clean, TypeOK
    <3>2. CASE Rename
      BY <2>1, <3>2 DEF Rename, OnItsWay, Clean
    <3>3. ~FailSave
      BY DEF FailSave, Clean
    <3>4. CASE UNCHANGED <<saver, disk, failed>>
      BY <2>1, <3>4 DEF OnItsWay, Clean
    <3> QED
      BY <1>3, <3>1, <3>2, <3>3, <3>4, FileKept
  <2>3. now <= t
    <3>1. now' = now \/ now' = now + 1
      BY DEF Next, Save, IncrWalkaway, ResetWalkaway, Block, IsBlocked, ShouldReport,
             IncrBanCount, LogPath, IncrPassiveCount, Sweep, StartSave, WriteTemp,
             Rename, FailSave, Restart, Tick, vars
    <3> QED
      BY <3>1 DEF TypeOK
  <2> QED
    BY <2>1, <2>2, <2>3 DEF CleanInv
<1> QED
  BY <1>1, <1>2, <1>3

-----------------------------------------------------------------------------
(* Theorems.                                                               *)

LEMMA Invariance == Spec => []IndInv
<1>1. IndInv /\ [Next]_vars => IndInv'
  BY NextType, NextBans, NextDisk, NextReports, NextClean DEF IndInv
<1> QED
  BY InitInv, <1>1, PTL DEF Spec

\* The variables keep their shape.
THEOREM TypeCorrect == Spec => []TypeOK
<1>1. IndInv => TypeOK
  BY DEF IndInv
<1> QED
  BY <1>1, Invariance, PTL

\* A clean store whose last save did not fail has nothing to lose: every
\* method that changes what is saved marks the store, and a change that
\* comes during a save is not taken for saved (persistSnapshot).
THEOREM NothingLost == Spec => []CrashLosesNothing
<1>1. IndInv => CrashLosesNothing
  <2> SUFFICES ASSUME IndInv, Persistent, ~dirty, saver.pc = "idle", ~failed
               PROVE  Loaded(disk) = Loaded(Copy)
    BY DEF CrashLosesNothing
  <2>1. Clean /\ OnItsWay = disk /\ now \in Nat
    BY DEF Clean, OnItsWay, IndInv, TypeOK
  <2>2. LoadedAt(disk, now) = LoadedAt(Copy, now)
    BY <2>1 DEF IndInv, CleanInv
  <2> QED
    BY <2>2, LoadedNow
<1> QED
  BY <1>1, Invariance, PTL

\* A ban that a completed save holds is in force until it ends, through
\* sweeps, lazy deletions, failed saves and restarts.
THEOREM BansOutlive == Spec => []BanOutlivesCrash
<1>1. IndInv => BanOutlivesCrash
  BY DEF IndInv, BanInv, InForce, BanOutlivesCrash
<1> QED
  BY <1>1, Invariance, PTL

\* Two reports of an address are at least the cooldown apart, unless a
\* restart lost the first (ShouldReport, sweepOnce, loadSnapshot).
THEOREM ReportsApart == Spec => ReportsSpaced
<1> DEFINE Apart == crashes' = crashes =>
                      \A k \in DOMAIN lastReport :
                         lastReport'[k] # lastReport[k] => now - lastReport[k] >= Cooldown
<1>1. IndInv /\ [Next]_vars => [Apart]_vars
  <2> SUFFICES ASSUME IndInv, [Next]_vars, crashes' = crashes, NEW k \in DOMAIN lastReport,
                      lastReport'[k] # lastReport[k]
               PROVE  now - lastReport[k] >= Cooldown
    OBVIOUS
  <2>1. /\ now \in Nat /\ lastReport[k] \in Nat /\ {Cooldown, ReportKeep} \subseteq Nat
        /\ Cooldown <= ReportKeep
    BY TimesAssumption, TableShape DEF IndInv, TypeOK
  <2>2. CASE \E i \in Key : ShouldReport(i)
    <3>1. PICK i \in Key : ShouldReport(i)
      BY <2>2
    <3>2. Reportable(i) /\ lastReport' = Put(lastReport, i, now)
      BY <3>1 DEF ShouldReport
    <3>3. i = k
      BY <3>2 DEF Put
    <3>4. \/ k \in DOMAIN reported /\ reported[k] = lastReport[k]
          \/ now - lastReport[k] > ReportKeep
      BY DEF IndInv, ReportInv
    <3> QED
      BY <2>1, <3>2, <3>3, <3>4 DEF Reportable
  <2>3. ~Restart
    BY DEF Restart, IndInv, TypeOK
  <2>4. CASE lastReport' = lastReport
    BY <2>4
  <2> QED
    BY <2>2, <2>3, <2>4
    DEF Next, Save, IncrWalkaway, ResetWalkaway, Block, IsBlocked, IncrBanCount, LogPath,
        IncrPassiveCount, Sweep, StartSave, WriteTemp, Rename, FailSave, Tick, vars
<1> QED
  BY <1>1, Invariance, PTL DEF Spec, ReportsSpaced

\* The sweep and the deletion in IsBlocked change no walk-away count, ban,
\* report cooldown or passive budget, and no paths of a client that is counted
\* or banned (sweepOnce, IsBlocked). Ban counts are not spoken of.
THEOREM CleaningGoesUnseen == Spec => CleaningUnseen
<1> DEFINE Cleaning == Sweep \/ \E k \in Key : IsBlocked(k)
<1>1. IndInv /\ [Next]_vars => [Cleaning => View' = View]_vars
  <2> SUFFICES ASSUME IndInv, Cleaning, NEW k \in Key
               PROVE  /\ WalkawayCount(k)' = WalkawayCount(k)
                      /\ Counted(walkaways, k, WalkawayTtl)' = Counted(walkaways, k, WalkawayTtl)
                      /\ Banned(k)' <=> Banned(k)
                      /\ Reportable(k)' <=> Reportable(k)
                      /\ Counted(passiveCnt, k, Window)' = Counted(passiveCnt, k, Window)
                      /\ Banned(k) \/ WalkawayCount(k) > 0 => PathsOf(k)' = PathsOf(k)
    BY DEF View, Banned, Reportable
  <2>1. /\ now \in Nat /\ blocked \in Table(Nat) /\ reported \in Table(Nat)
        /\ \A i \in DOMAIN reported : reported[i] \in Nat
        /\ walkaways \in Table(Counters) /\ passiveCnt \in Table(Counters)
        /\ recentPath \in Table(Seq(Path))
        /\ {Cooldown, ReportKeep} \subseteq Nat /\ Cooldown <= ReportKeep
    BY TimesAssumption, TableShape DEF IndInv, TypeOK
  <2>2. CASE \E i \in Key : IsBlocked(i)
    <3>1. PICK i \in Key : IsBlocked(i)
      BY <2>2
    <3>2. /\ now' = now /\ walkaways' = walkaways /\ reported' = reported
          /\ passiveCnt' = passiveCnt /\ recentPath' = recentPath
          /\ Over(blocked[i])
          /\ DOMAIN blocked' = DOMAIN blocked \ {i}
          /\ \A j \in DOMAIN blocked' : blocked'[j] = blocked[j]
      BY <2>1, <3>1, RestrictTable DEF IsBlocked
    <3> QED
      BY <3>2 DEF WalkawayCount, Counted, Banned, Reportable, PathsOf, Over
  <2>3. CASE Sweep
    <3>1. /\ now' = now /\ walkaways' = SweptCounters(walkaways)
          /\ blocked' = BansLeft /\ reported' = ReportsLeft
          /\ passiveCnt' = SweptCounters(passiveCnt)
          /\ recentPath' = SweptPaths(walkaways', blocked')
      BY <2>3 DEF Sweep, BansLeft, ReportsLeft, Kept
    <3>2. /\ DOMAIN walkaways' = {i \in DOMAIN walkaways : ~Over(walkaways[i].expires)}
          /\ \A i \in DOMAIN walkaways' : walkaways'[i] = walkaways[i]
      BY <2>1, <3>1, SweptTable
    <3>3. /\ DOMAIN passiveCnt' = {i \in DOMAIN passiveCnt : ~Over(passiveCnt[i].expires)}
          /\ \A i \in DOMAIN passiveCnt' : passiveCnt'[i] = passiveCnt[i]
      BY <2>1, <3>1, SweptTable
    <3>4. /\ DOMAIN blocked' = {i \in DOMAIN blocked : ~Over(blocked[i])}
          /\ \A i \in DOMAIN blocked' : blocked'[i] = blocked[i]
      BY <2>1, <3>1, SweptBans
    <3>5. /\ DOMAIN reported' = {i \in DOMAIN reported : now - reported[i] <= ReportKeep}
          /\ \A i \in DOMAIN reported' : reported'[i] = reported[i]
      BY <2>1, <3>1, SweptReports
    <3>6. /\ DOMAIN recentPath' =
               DOMAIN recentPath \cap (DOMAIN walkaways' \cup DOMAIN blocked')
          /\ \A i \in DOMAIN recentPath' : recentPath'[i] = recentPath[i]
      BY <2>1, <3>1, SweptPathsTable
    <3>7. /\ WalkawayCount(k)' = WalkawayCount(k)
          /\ Counted(walkaways, k, WalkawayTtl)' = Counted(walkaways, k, WalkawayTtl)
      BY <3>1, <3>2 DEF WalkawayCount, Counted, Over
    <3>8. Counted(passiveCnt, k, Window)' = Counted(passiveCnt, k, Window)
      BY <3>1, <3>3 DEF Counted, Over
    <3>9. Banned(k)' <=> Banned(k)
      BY <3>1, <3>4 DEF Banned, Over
    <3>10. Reportable(k)' <=> Reportable(k)
      BY <2>1, <3>1, <3>5 DEF Reportable
    <3>11. ASSUME Banned(k) \/ WalkawayCount(k) > 0
           PROVE  PathsOf(k)' = PathsOf(k)
      <4>1. k \in DOMAIN walkaways' \cup DOMAIN blocked'
        BY <3>2, <3>4, <3>11 DEF Banned, WalkawayCount, Over
      <4> QED
        BY <3>6, <4>1 DEF PathsOf
    <3> QED
      BY <3>7, <3>8, <3>9, <3>10, <3>11
  <2> QED
    BY <2>2, <2>3
<1> QED
  BY <1>1, Invariance, PTL DEF Spec, CleaningUnseen
=============================================================================
