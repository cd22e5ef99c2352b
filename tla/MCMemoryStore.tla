---------------------------- MODULE MCMemoryStore ----------------------------
(* A small instance of MemoryStore for TLC. What happens is chosen at the    *)
(* start: bans, reports and saves that may fail, counters and paths over     *)
(* saves, or counters, paths and bans over restarts from nothing.            *)
EXTENDS MemoryStore

VARIABLE mix

Untouched ==
    [bans   |-> <<walkaways, recentPath, passiveCnt>>,
     paths  |-> <<blocked, reported, banCounts, passiveCnt, failures>>,
     counts |-> <<reported, banCounts, saver>>]

MCInit == Init /\ mix \in DOMAIN Untouched

MCNext == Next /\ UNCHANGED <<mix, Untouched[mix]>>

MCSpec == MCInit /\ [][MCNext]_<<vars, mix>>

\* The fairness of FairSpec, for saves where they are made.
MCFairSpec ==
    /\ MCSpec
    /\ WF_<<vars, mix>>(Sweep /\ UNCHANGED mix)
    /\ WF_<<vars, mix>>(Tick /\ UNCHANGED mix)
    /\ WF_<<vars, mix>>(mix # "counts" /\ Save /\ UNCHANGED mix)

\* BansReachDisk, where the store is saved.
SavedBansReachDisk == mix # "counts" => BansReachDisk
=============================================================================
