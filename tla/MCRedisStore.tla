---------------------------- MODULE MCRedisStore ----------------------------
(* A small instance of RedisStore for TLC. What is called is chosen at the   *)
(* start: operations on the same keys.                                       *)
EXTENDS RedisStore, TLC

VARIABLE calls

Together ==
    {{"ShouldReport"}, {"Block", "IsBlocked"},
     {"IncrWalkaway", "ResetWalkaway"}, {"IncrBanCount", "LogPath"}}

MCInit == Init /\ calls \in Together

MCNext ==
    /\ Next
    /\ UNCHANGED calls
    /\ \A c \in Caller : work'[c].op \in calls \cup {"none", "Expire"}

MCSpec == MCInit /\ [][MCNext]_<<vars, calls>>

Symmetric == Permutations(Caller)
=============================================================================
