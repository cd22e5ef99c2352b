------------------------- MODULE RequestGateProofs -------------------------
(***************************************************************************)
(* Proofs about RequestGate for any numbers of workers, addresses and      *)
(* fingerprints and any limits: types, banned clients stay out, shared     *)
(* addresses are spared, no limit is passed unnoticed, and a solution      *)
(* clears every counter.                                                   *)
(***************************************************************************)
EXTENDS RequestGate, TLAPS

-----------------------------------------------------------------------------
(* What the ways of moving on do to a worker's record.                     *)

\* w's record becomes r, and nobody else's changes.
Becomes(w, r) == /\ work' \in [Worker -> Requests]
                 /\ work'[w] = r
                 /\ \A v \in Worker \ {w} : work'[v] = work[v]

LEMMA IdleType == Idle \in Requests
BY DEF Idle, Request, Requests, Place, Penalty

LEMMA BecomesIdle ==
    ASSUME TypeOK, NEW w \in Worker, Answer(w)
    PROVE  Becomes(w, Idle)
BY IdleType DEF TypeOK, Answer, Becomes

LEMMA BecomesMoved ==
    ASSUME TypeOK, NEW w \in Worker, NEW place \in Place,
           NEW penalty \in Penalty, NEW step \in 0..5,
           Move(w, place, penalty, step)
    PROVE  Becomes(w, Request(place, work[w].ip, work[w].fp, work[w].shared,
                              penalty, step))
<1>1. work \in [Worker -> Requests] /\ work[w] \in Requests
  BY DEF TypeOK
<1>2. Request(place, work[w].ip, work[w].fp, work[w].shared, penalty, step)
         \in Requests
  BY <1>1 DEF Request, Requests
<1> QED
  BY <1>1, <1>2 DEF Move, Becomes

LEMMA BecomesAt ==
    ASSUME TypeOK, NEW w \in Worker, NEW place \in Place, Goto(w, place)
    PROVE  Becomes(w, Request(place, work[w].ip, work[w].fp, work[w].shared,
                              work[w].penalty, work[w].step))
<1>1. work[w].penalty \in Penalty /\ work[w].step \in 0..5
  BY DEF TypeOK, Requests
<1> QED
  BY <1>1, BecomesMoved DEF Goto

LEMMA BecomesArrived ==
    ASSUME TypeOK, NEW w \in Worker, NEW place \in Place, NEW ip \in Ip,
           NEW fp \in Prints, Arrive(w, place, ip, fp)
    PROVE  Becomes(w, Request(place, ip, fp, Shared(ip), "none", 0))
<1>1. work \in [Worker -> Requests]
  BY DEF TypeOK
<1>2. Shared(ip) \in BOOLEAN
  BY DEF Shared
<1>3. Request(place, ip, fp, Shared(ip), "none", 0) \in Requests
  BY <1>2 DEF Request, Requests, Penalty, Fp
<1> QED
  BY <1>1, <1>3 DEF Arrive, Becomes

-----------------------------------------------------------------------------
(* Types.                                                                  *)

LEMMA LimitType ==
    ASSUME NEW key \in Key
    PROVE  Limit(key) \in Nat /\ Limit(key) > 0
<1>1. Threshold \in Nat \ {0} /\ FailedAttemptFactor \in Nat \ {0}
  BY LimitsAssumption
<1>2. FailedAttemptFactor * Threshold \in Nat /\ FailedAttemptFactor * Threshold > 0
  BY <1>1
<1>3. SwitchAllowance + 1 \in Nat /\ SwitchAllowance + 1 > 0
  BY LimitsAssumption
<1> QED
  BY <1>1, <1>2, <1>3 DEF Limit

LEMMA CountedType ==
    ASSUME TypeOK, NEW key \in Key
    PROVE  Counted(key) \in Nat /\ Counted(key) <= Limit(key)
<1>1. counts[key] \in Nat /\ Limit(key) \in Nat
  BY LimitType DEF TypeOK
<1> QED
  BY <1>1 DEF Counted

\* The variables that the store's calls change.
StoreType ==
    /\ counts \in [Key -> Nat]
    /\ \A key \in Key : counts[key] <= Limit(key)
    /\ blocked \subseteq Ip \cup Fp
    /\ banCounts \in [Ip -> 0..(ReportAfterBans - 1)]
    /\ reported \subseteq Ip
    /\ exits \subseteq Ip
    /\ fresh \subseteq Worker \X Key
    /\ struck \subseteq Banning

LEMMA ReadsType ==
    ASSUME TypeOK, Reads
    PROVE  StoreType'
BY DEF TypeOK, StoreType, Reads, store, Limit

LEMMA IncrType ==
    ASSUME TypeOK, NEW key \in Key, IncrWalkaway(key)
    PROVE  StoreType'
<1>1. counts' \in [Key -> Nat]
  BY CountedType DEF TypeOK, IncrWalkaway
<1>2. \A k \in Key : counts'[k] <= Limit(k)
  BY CountedType DEF TypeOK, IncrWalkaway
<1>3. fresh' \subseteq Worker \X Key
  BY DEF TypeOK, IncrWalkaway, Solving
<1> QED
  BY <1>1, <1>2, <1>3 DEF TypeOK, StoreType, IncrWalkaway, Limit

LEMMA ClearType ==
    ASSUME TypeOK, NEW key \in Key, ClearKey(key)
    PROVE  StoreType'
<1>1. counts' \in [Key -> Nat]
  BY DEF TypeOK, ClearKey
<1>2. \A k \in Key : counts'[k] <= Limit(k)
  BY LimitType DEF TypeOK, ClearKey
<1> QED
  BY <1>1, <1>2 DEF TypeOK, StoreType, ClearKey, Limit

LEMMA BlockType ==
    ASSUME TypeOK, NEW who \in Ip \cup Fp, Block(who)
    PROVE  StoreType'
BY DEF TypeOK, StoreType, Block, Limit

\* Whoever is not idle has an address; whoever counts or bans a fingerprint
\* has one; and a solver is at one of the counters it has to clear.
PlacedAt(r) ==
    /\ r.pc # "idle" => r.ip \in Ip
    /\ r.pc \in {"printcount", "printban"} => r.fp \in Fp
    /\ r.pc = "reset" => r.step \in 1..(IF r.fp = NoFp THEN 4 ELSE 5)

Good == TypeOK /\ \A w \in Worker : PlacedAt(work[w])

LEMMA BecomesGood ==
    ASSUME Good, NEW w \in Worker, NEW r, Becomes(w, r), PlacedAt(r),
           StoreType', held' \subseteq Worker \X (Ip \cup Fp),
           listed' \subseteq Worker
    PROVE  Good'
<1>1. TypeOK'
  BY DEF Good, TypeOK, StoreType, Becomes
<1>2. \A v \in Worker : PlacedAt(work'[v])
  BY DEF Good, Becomes
<1> QED
  BY <1>1, <1>2 DEF Good, PlacedAt

LEMMA AnswerGood ==
    ASSUME Good, NEW w \in Worker, Answer(w), StoreType'
    PROVE  Good'
<1>1. Becomes(w, Idle)
  BY BecomesIdle DEF Good
<1>2. PlacedAt(Idle)
  BY DEF PlacedAt, Idle, Request
<1>3. /\ held' \subseteq Worker \X (Ip \cup Fp)
      /\ listed' \subseteq Worker
  BY DEF Answer, Good, TypeOK
<1> QED
  BY <1>1, <1>2, <1>3, BecomesGood

LEMMA MoveGood ==
    ASSUME Good, NEW w \in Worker, NEW place \in Place,
           NEW penalty \in Penalty, NEW step \in 0..5,
           Move(w, place, penalty, step), StoreType', work[w].ip \in Ip,
           place \in {"printcount", "printban"} => work[w].fp \in Fp,
           place = "reset" =>
              step \in 1..(IF work[w].fp = NoFp THEN 4 ELSE 5)
    PROVE  Good'
<1> DEFINE r == Request(place, work[w].ip, work[w].fp, work[w].shared,
                        penalty, step)
<1>1. Becomes(w, r)
  BY BecomesMoved DEF Good
<1>2. PlacedAt(r)
  BY DEF PlacedAt, Request
<1>3. /\ held' \subseteq Worker \X (Ip \cup Fp)
      /\ listed' \subseteq Worker
  BY DEF Move, Good, TypeOK
<1> QED
  BY <1>1, <1>2, <1>3, BecomesGood

LEMMA GotoGood ==
    ASSUME Good, NEW w \in Worker, NEW place \in Place \ {"reset"},
           Goto(w, place), StoreType', work[w].pc # "idle",
           place \in {"printcount", "printban"} => work[w].fp \in Fp
    PROVE  Good'
<1>1. work[w].penalty \in Penalty /\ work[w].step \in 0..5
  BY DEF Good, TypeOK, Requests
<1>2. work[w].ip \in Ip
  BY DEF Good, PlacedAt
<1> QED
  BY <1>1, <1>2, MoveGood DEF Goto

\* The keys a handler counts under.
LEMMA KeysType ==
    ASSUME Good, NEW w \in Worker, work[w].pc # "idle"
    PROVE  /\ work[w].ip \in Ip
           /\ \A kind \in IpKind : <<kind, work[w].ip>> \in Key
           /\ work[w].fp \in Fp => <<"fp", work[w].fp>> \in Key
           /\ PenaltyKey(w) \in Key
BY DEF Good, PlacedAt, Key, IpKind, PenaltyKey

LEMMA ResetKeyType ==
    ASSUME Good, NEW w \in Worker, work[w].pc = "reset"
    PROVE  ResetKey(w) \in Key
<1>1. /\ work[w].step \in 1..(IF work[w].fp = NoFp THEN 4 ELSE 5)
      /\ work[w].ip \in Ip /\ work[w].fp \in Fp \cup {NoFp}
  BY DEF Good, PlacedAt, TypeOK, Requests
<1>2. CASE work[w].step = 5
  BY <1>1, <1>2 DEF ResetKey, ResetKinds, Key
<1>3. CASE work[w].step \in 1..4
  BY <1>1, <1>3 DEF ResetKey, ResetKinds, Key, IpKind
<1> QED
  BY <1>1, <1>2, <1>3

LEMMA ArriveGood ==
    ASSUME Good, NEW w \in Worker, Page(w) \/ Post(w)
    PROVE  Good'
<1>1. PICK place \in {"gate", "verify"}, ip \in Ip, fp \in Prints :
         /\ Arrive(w, place, ip, fp) /\ Reads
         /\ held' \subseteq Worker \X (Ip \cup Fp)
  BY DEF Page, Post, Good, TypeOK
<1> DEFINE r == Request(place, ip, fp, Shared(ip), "none", 0)
<1>2. place \in Place
  BY DEF Place
<1>3. Becomes(w, r)
  BY <1>1, <1>2, BecomesArrived DEF Good
<1>4. PlacedAt(r)
  BY DEF PlacedAt, Request
<1>5. listed' \subseteq Worker
  BY <1>1 DEF Arrive, Good, TypeOK
<1>6. StoreType'
  BY <1>1, ReadsType DEF Good
<1> QED
  BY <1>1, <1>3, <1>4, <1>5, <1>6, BecomesGood

\* The steps of a handler that leave the store alone.
LEMMA ReadingGood ==
    ASSUME Good, NEW w \in Worker, work[w].pc # "idle", Reads,
           \/ Gate(w) \/ Judge(w) \/ Forwarded(w) \/ Switch(w) \/ CheckPrint(w)
           \/ Load(w) \/ Verify(w)
    PROVE  Good'
<1>1. StoreType'
  BY ReadsType DEF Good
<1>2. CASE Answer(w)
  BY <1>1, <1>2, AnswerGood
<1>3. CASE \E place \in {"judge", "forward", "switch", "print", "load", "walk"} :
              Goto(w, place)
  BY <1>1, <1>3, GotoGood DEF Place
<1>4. CASE Goto(w, "printcount") /\ work[w].fp # NoFp
  <2>1. work[w].fp \in Fp
    BY <1>4 DEF Good, TypeOK, Requests
  <2> QED
    BY <1>1, <1>4, <2>1, GotoGood DEF Place
<1>5. CASE \E penalty \in Penalties(work[w].ip) : Move(w, "penalty", penalty, 0)
  <2>1. PICK penalty \in Penalties(work[w].ip) : Move(w, "penalty", penalty, 0)
    BY <1>5
  <2>2. penalty \in Penalty /\ "penalty" \in Place /\ 0 \in 0..5
    BY DEF Penalties, Penalty, Place
  <2>3. work[w].ip \in Ip
    BY KeysType
  <2> QED
    BY <1>1, <2>1, <2>2, <2>3, MoveGood
<1>6. CASE Move(w, "reset", "none", 1)
  <2>1. "none" \in Penalty /\ "reset" \in Place /\ 1 \in 0..5
    BY DEF Penalty, Place
  <2>2. 1 \in 1..(IF work[w].fp = NoFp THEN 4 ELSE 5)
    OBVIOUS
  <2>3. work[w].ip \in Ip
    BY KeysType
  <2> QED
    BY <1>1, <1>6, <2>1, <2>2, <2>3, MoveGood
<1> QED
  BY <1>2, <1>3, <1>4, <1>5, <1>6
  DEF Gate, Judge, Forwarded, Switch, CheckPrint, Load, Verify

\* The steps that count.
LEMMA CountingGood ==
    ASSUME Good, NEW w \in Worker, work[w].pc # "idle",
           NEW key \in Key, IncrWalkaway(key),
           \/ Answer(w)
           \/ \E place \in {"print", "load", "walk", "ban"} : Goto(w, place)
           \/ Goto(w, "printban") /\ work[w].fp \in Fp
    PROVE  Good'
<1>1. StoreType'
  BY IncrType DEF Good
<1> QED
  BY <1>1, AnswerGood, GotoGood DEF Place

LEMMA CountingSteps ==
    ASSUME Good, NEW w \in Worker, work[w].pc # "idle", ~Reads,
           \/ Switch(w) \/ CountPrint(w) \/ Load(w) \/ Walk(w) \/ Verify(w)
           \/ Penalise(w)
    PROVE  \E key \in Key :
              /\ IncrWalkaway(key)
              /\ \/ Answer(w)
                 \/ \E place \in {"print", "load", "walk", "ban"} : Goto(w, place)
                 \/ Goto(w, "printban") /\ work[w].fp \in Fp
<1>1. /\ <<"switch", work[w].ip>> \in Key /\ <<"load", work[w].ip>> \in Key
      /\ <<"walk", work[w].ip>> \in Key /\ PenaltyKey(w) \in Key
  BY KeysType DEF IpKind
<1>2. CASE Switch(w)
  BY <1>1, <1>2 DEF Switch
<1>3. CASE CountPrint(w)
  <2>1. work[w].fp \in Fp /\ <<"fp", work[w].fp>> \in Key
    BY <1>3, KeysType DEF CountPrint, Good, PlacedAt
  <2> QED
    BY <1>3, <2>1 DEF CountPrint
<1>4. CASE Load(w)
  BY <1>1, <1>4 DEF Load
<1>5. CASE Walk(w)
  BY <1>1, <1>5 DEF Walk
<1>6. CASE Verify(w)
  BY <1>1, <1>6 DEF Verify
<1>7. CASE Penalise(w)
  BY <1>1, <1>7 DEF Penalise
<1> QED
  BY <1>2, <1>3, <1>4, <1>5, <1>6, <1>7

LEMMA HandlerGood ==
    ASSUME Good, NEW w \in Worker, Handler(w)
    PROVE  Good'
<1>1. work[w].pc # "idle"
  BY DEF Handler, Gate, Judge, Forwarded, Switch, CheckPrint, CountPrint,
         BanPrint, Load, Walk, Verify, Penalise, Ban, IncrBanCount, Report,
         Reset, Cookie
<1>2. work[w].ip \in Ip
  BY <1>1, KeysType
<1>3. CASE Reads /\ (Gate(w) \/ Judge(w) \/ Forwarded(w) \/ Switch(w)
                     \/ CheckPrint(w) \/ Load(w) \/ Verify(w))
  BY <1>1, <1>3, ReadingGood
<1>4. CASE ~Reads /\ (Switch(w) \/ CountPrint(w) \/ Load(w) \/ Walk(w)
                      \/ Verify(w) \/ Penalise(w))
  BY <1>1, <1>4, CountingSteps, CountingGood
<1>5. CASE CountPrint(w) \/ Walk(w) \/ Penalise(w)
  BY <1>1, <1>5, CountingGood, KeysType DEF CountPrint, Walk, Penalise, Good, PlacedAt, IpKind
<1>6. CASE BanPrint(w)
  <2>1. work[w].fp \in Fp
    BY <1>6 DEF BanPrint, Good, PlacedAt
  <2> QED
    BY <1>6, <2>1, BlockType, AnswerGood DEF BanPrint, Good
<1>7. CASE Ban(w)
  BY <1>1, <1>2, <1>7, BlockType, GotoGood DEF Ban, Good, Place
<1>8. CASE IncrBanCount(w)
  <2>1. banCounts[work[w].ip] \in 0..(ReportAfterBans - 1) /\ ReportAfterBans \in Nat
    BY <1>2, LimitsAssumption DEF Good, TypeOK
  <2>2. banCounts' \in [Ip -> 0..(ReportAfterBans - 1)]
    BY <1>2, <1>8, <2>1 DEF IncrBanCount, Good, TypeOK
  <2>3. StoreType'
    BY <1>8, <2>2 DEF IncrBanCount, StoreType, Good, TypeOK, Limit
  <2>4. Answer(w) \/ Goto(w, "report")
    BY <1>8 DEF IncrBanCount
  <2> QED
    BY <1>1, <2>3, <2>4, AnswerGood, GotoGood DEF Place
<1>9. CASE Report(w)
  <2>1. StoreType'
    BY <1>2, <1>9 DEF Report, StoreType, Good, TypeOK, Limit
  <2> QED
    BY <1>9, <2>1, AnswerGood DEF Report
<1>10. CASE Reset(w)
  <2>1. work[w].pc = "reset" /\ ResetKey(w) \in Key
    BY <1>10, ResetKeyType DEF Reset
  <2>2. StoreType'
    BY <1>10, <2>1, ClearType DEF Reset, Good
  <2>3. work[w].step \in 1..ResetSteps(w) /\ ResetSteps(w) \in {4, 5}
    BY <2>1 DEF Good, PlacedAt, ResetSteps
  <2>4. "none" \in Penalty /\ "reset" \in Place /\ "cookie" \in Place
    BY DEF Penalty, Place
  <2>5. CASE Move(w, "reset", "none", work[w].step + 1)
             /\ work[w].step < ResetSteps(w)
    <3>1. work[w].step + 1 \in 0..5 /\ work[w].step + 1 \in 1..ResetSteps(w)
      BY <2>3, <2>5
    <3> QED
      BY <1>2, <2>2, <2>4, <2>5, <3>1, MoveGood DEF ResetSteps
  <2>6. CASE Move(w, "cookie", "none", work[w].step)
    <3>1. work[w].step \in 0..5
      BY <2>3
    <3> QED
      BY <1>2, <2>2, <2>4, <2>6, <3>1, MoveGood
  <2> QED
    BY <1>10, <2>5, <2>6 DEF Reset
<1>11. CASE Cookie(w)
  <2>1. StoreType'
    BY <1>11 DEF Cookie, StoreType, Good, TypeOK, store, Limit
  <2> QED
    BY <1>11, <2>1, AnswerGood DEF Cookie
<1> QED
  BY <1>3, <1>4, <1>5, <1>6, <1>7, <1>8, <1>9, <1>10, <1>11
  DEF Handler, Gate, Judge, Forwarded, CheckPrint

LEMMA RestGood ==
    ASSUME Good, UNCHANGED work, StoreType',
           held' \subseteq Worker \X (Ip \cup Fp), listed' \subseteq Worker
    PROVE  Good'
BY DEF Good, TypeOK, StoreType, PlacedAt

LEMMA Inductive ==
    ASSUME Good, [Next]_vars
    PROVE  Good'
<1>1. ASSUME NEW w \in Worker, Page(w) \/ Post(w) \/ Handler(w)
      PROVE  Good'
  BY <1>1, ArriveGood, HandlerGood
<1>2. held \subseteq Worker \X (Ip \cup Fp) /\ listed \subseteq Worker
  BY DEF Good, TypeOK
<1>3. ASSUME NEW ip \in Ip, Trap(ip)
      PROVE  Good'
  BY <1>2, <1>3, BlockType, RestGood DEF Trap, Good
<1>4. ASSUME NEW ip \in Ip, Forget(ip)
      PROVE  Good'
  <2>1. banCounts' \in [Ip -> 0..(ReportAfterBans - 1)]
    BY <1>4, LimitsAssumption DEF Forget, Good, TypeOK
  <2>2. StoreType'
    BY <1>4, <2>1 DEF Forget, StoreType, Good, TypeOK, Limit
  <2> QED
    BY <1>2, <1>4, <2>2, RestGood DEF Forget
<1>5. ASSUME NEW key \in Key, Lapse(key)
      PROVE  Good'
  BY <1>2, <1>5, ClearType, RestGood DEF Lapse, Good
<1>6. ASSUME NEW who \in Ip \cup Fp, EndBan(who)
      PROVE  Good'
  <2>1. StoreType'
    BY <1>6 DEF EndBan, StoreType, Good, TypeOK, Limit
  <2> QED
    BY <1>2, <1>6, <2>1, RestGood DEF EndBan
<1>7. CASE FetchExits
  <2>1. StoreType'
    BY <1>7 DEF FetchExits, StoreType, Good, TypeOK, store, Limit
  <2> QED
    BY <1>2, <1>7, <2>1, RestGood DEF FetchExits
<1>8. CASE UNCHANGED vars
  BY <1>2, <1>8, ReadsType, RestGood DEF vars, Reads, Good
<1> QED
  BY <1>1, <1>3, <1>4, <1>5, <1>6, <1>7, <1>8 DEF Next

LEMMA InitGood == Init => Good
<1> SUFFICES ASSUME Init PROVE Good
  OBVIOUS
<1>1. counts \in [Key -> Nat] /\ \A key \in Key : counts[key] <= Limit(key)
  BY LimitType DEF Init
<1>2. banCounts \in [Ip -> 0..(ReportAfterBans - 1)]
  BY LimitsAssumption DEF Init
<1>3. work \in [Worker -> Requests] /\ \A w \in Worker : PlacedAt(work[w])
  BY IdleType DEF Init, PlacedAt, Idle, Request
<1> QED
  BY <1>1, <1>2, <1>3 DEF Init, Good, TypeOK

LEMMA Invariance == Spec => []Good
BY InitGood, Inductive, PTL DEF Spec

\* Every variable of the gate keeps its shape: a handler never counts, bans
\* or clears under a key it does not have.
THEOREM TypeCorrect == Spec => []TypeOK
<1>1. Good => TypeOK
  BY DEF Good
<1> QED
  BY <1>1, Invariance, PTL

-----------------------------------------------------------------------------
(* Where a handler goes, and under what condition.                         *)

Hop(w, p, q) ==
    \/ p = "gate" /\ q = "judge" /\ (work[w].shared \/ work[w].ip \notin blocked)
    \/ p = "judge" /\ q \in {"forward", "switch"}
    \/ p = "switch" /\ q = "print" /\ ~work[w].shared
    \/ p = "print" /\ q \in {"load", "printcount"} /\ work[w].fp \notin blocked
    \/ p = "printcount" /\ q \in {"printban", "load"}
    \/ p = "load" /\ q = "walk"
    \/ p \in {"walk", "penalty"} /\ q = "ban"
    \/ p = "verify" /\ q = "penalty" /\ ~Shared(work[w].ip)
    \/ p \in {"verify", "reset"} /\ q \in {"reset", "cookie"}
    \/ p = "ban" /\ q = "bancount"
    \/ p = "bancount" /\ q = "report"

\* A handler goes on with the same request, or answers it.
Hops(w) ==
    /\ UNCHANGED <<held, listed>>
    /\ work'[w].ip = work[w].ip /\ work'[w].fp = work[w].fp
    /\ work'[w].shared = work[w].shared
    /\ Hop(w, work[w].pc, work'[w].pc)

LEMMA GotoHops ==
    ASSUME Good, NEW w \in Worker, NEW place \in Place, Goto(w, place),
           Hop(w, work[w].pc, place)
    PROVE  Hops(w)
<1>1. Becomes(w, Request(place, work[w].ip, work[w].fp, work[w].shared,
                         work[w].penalty, work[w].step))
  BY BecomesAt DEF Good
<1>2. /\ work'[w].ip = work[w].ip /\ work'[w].fp = work[w].fp
      /\ work'[w].shared = work[w].shared /\ work'[w].pc = place
  BY <1>1 DEF Becomes, Request
<1> QED
  BY <1>2 DEF Hops, Goto, Move

LEMMA MoveHops ==
    ASSUME Good, NEW w \in Worker, NEW place \in Place,
           NEW penalty \in Penalty, NEW step \in 0..5,
           Move(w, place, penalty, step), Hop(w, work[w].pc, place)
    PROVE  Hops(w) /\ work'[w].pc = place /\ work'[w].step = step
<1>1. Becomes(w, Request(place, work[w].ip, work[w].fp, work[w].shared,
                         penalty, step))
  BY BecomesMoved DEF Good
<1>2. /\ work'[w].ip = work[w].ip /\ work'[w].fp = work[w].fp
      /\ work'[w].shared = work[w].shared /\ work'[w].pc = place
      /\ work'[w].step = step
  BY <1>1 DEF Becomes, Request
<1> QED
  BY <1>2 DEF Hops, Move

LEMMA HandlerHops ==
    ASSUME Good, NEW w \in Worker, Handler(w)
    PROVE  Answer(w) \/ Hops(w)
<1>0. /\ {"judge", "forward", "switch", "print", "printcount", "printban",
          "load", "walk", "penalty", "ban", "bancount", "report", "reset",
          "cookie"} \subseteq Place
      /\ Penalty = {"none", "failed", "walkaway"}
  BY DEF Place, Penalty
<1>1. CASE Gate(w)
  BY <1>0, <1>1, GotoHops DEF Gate, Hop
<1>2. CASE Judge(w)
  BY <1>0, <1>2, GotoHops DEF Judge, Hop
<1>3. CASE Forwarded(w) \/ BanPrint(w) \/ Report(w) \/ Cookie(w)
  BY <1>3 DEF Forwarded, BanPrint, Report, Cookie
<1>4. CASE Switch(w)
  BY <1>0, <1>4, GotoHops DEF Switch, Hop
<1>5. CASE CheckPrint(w)
  <2>1. NoFp \notin blocked
    BY SetsAssumption DEF Good, TypeOK, Fp
  <2> QED
    BY <1>0, <1>5, <2>1, GotoHops DEF CheckPrint, Hop
<1>6. CASE CountPrint(w)
  BY <1>0, <1>6, GotoHops DEF CountPrint, Hop
<1>7. CASE Load(w)
  BY <1>0, <1>7, GotoHops DEF Load, Hop
<1>8. CASE Walk(w)
  BY <1>0, <1>8, GotoHops DEF Walk, Hop
<1>9. CASE Penalise(w)
  BY <1>0, <1>9, GotoHops DEF Penalise, Hop
<1>10. CASE Ban(w)
  BY <1>0, <1>10, GotoHops DEF Ban, Hop
<1>11. CASE IncrBanCount(w)
  BY <1>0, <1>11, GotoHops DEF IncrBanCount, Hop
<1>12. CASE Verify(w)
  <2>1. CASE \E penalty \in Penalties(work[w].ip) : Move(w, "penalty", penalty, 0)
    <3>1. PICK penalty \in Penalties(work[w].ip) : Move(w, "penalty", penalty, 0)
      BY <2>1
    <3>2. penalty \in Penalty /\ ~Shared(work[w].ip) /\ 0 \in 0..5
      BY DEF Penalties
    <3>3. Hop(w, work[w].pc, "penalty")
      BY <1>12, <3>2 DEF Verify, Hop
    <3> QED
      BY <1>0, <3>1, <3>2, <3>3, MoveHops
  <2>2. CASE Move(w, "reset", "none", 1)
    <3>1. Hop(w, work[w].pc, "reset") /\ 1 \in 0..5 /\ "none" \in Penalty
      BY <1>0, <1>12 DEF Verify, Hop
    <3> QED
      BY <1>0, <2>2, <3>1, MoveHops
  <2> QED
    BY <1>12, <2>1, <2>2 DEF Verify
<1>13. CASE Reset(w)
  <2>1. /\ Hop(w, work[w].pc, "reset") /\ Hop(w, work[w].pc, "cookie")
        /\ "none" \in Penalty
    BY <1>0, <1>13 DEF Reset, Hop
  <2>2. work[w].step \in 1..ResetSteps(w) /\ ResetSteps(w) \in {4, 5}
    BY <1>13 DEF Reset, Good, PlacedAt, ResetSteps
  <2>3. work[w].step \in 0..5
    BY <2>2
  <2>4. work[w].step < ResetSteps(w) => work[w].step + 1 \in 0..5
    BY <2>2
  <2> QED
    BY <1>0, <1>13, <2>1, <2>3, <2>4, MoveHops DEF Reset
<1> QED
  BY <1>1, <1>2, <1>3, <1>4, <1>5, <1>6, <1>7, <1>8, <1>9, <1>10, <1>11, <1>12,
     <1>13 DEF Handler

\* The rest of the workers stand still, no ban ends, and the list stays.
LEMMA HandlerFrame ==
    ASSUME Good, NEW w \in Worker, Handler(w)
    PROVE  /\ \A v \in Worker \ {w} : work'[v] = work[v]
           /\ Answer(w) => work'[w] = Idle
           /\ blocked \subseteq blocked' /\ exits' = exits
<1>1. work \in [Worker -> Requests]
  BY DEF Good, TypeOK
<1>2. Answer(w) => Becomes(w, Idle)
  BY BecomesIdle DEF Good
<1>3. \A place, penalty, step : Move(w, place, penalty, step) =>
         \A v \in Worker \ {w} : work'[v] = work[v]
  BY <1>1 DEF Move
<1>4. Answer(w) \/ \E place, penalty, step : Move(w, place, penalty, step)
  BY DEF Handler, Gate, Judge, Forwarded, Switch, CheckPrint, CountPrint,
     BanPrint, Load, Walk, Verify, Penalise, Ban, IncrBanCount, Report, Reset,
     Cookie, Goto
<1>5. /\ blocked \subseteq blocked' /\ exits' = exits
  BY DEF Handler, Gate, Judge, Forwarded, Switch, CheckPrint, CountPrint,
     BanPrint, Load, Walk, Verify, Penalise, Ban, IncrBanCount, Report, Reset,
     Cookie, Reads, store, IncrWalkaway, ClearKey, Block
<1> QED
  BY <1>2, <1>3, <1>4, <1>5 DEF Becomes

-----------------------------------------------------------------------------
(* Banned clients stay out.                                                *)

\* What a ban that has held since the arrival says of a handler's place.
HeldAt(w) ==
    /\ \A who : <<w, who>> \in held => who \in blocked /\ work[w].pc # "idle"
    /\ work[w].shared \/ work[w].pc # "gate" => <<w, work[w].ip>> \notin held
    /\ work[w].pc \in {"printcount", "printban", "load", "walk"} =>
          <<w, work[w].fp>> \notin held

HeldInv == \A w \in Worker : HeldAt(w)

\* A worker that stands still, or whose bans end, keeps what is said of it.
LEMMA HeldStill ==
    ASSUME NEW v \in Worker, HeldAt(v), work'[v] = work[v],
           \A who : <<v, who>> \in held' =>
                      <<v, who>> \in held /\ (who \in blocked => who \in blocked')
    PROVE  HeldAt(v)'
BY DEF HeldAt

LEMMA HeldArrive ==
    ASSUME Good, HeldInv, NEW w \in Worker, Page(w) \/ Post(w)
    PROVE  HeldInv'
<1>1. PICK place \in {"gate", "verify"}, ip \in Ip, fp \in Prints :
         /\ Arrive(w, place, ip, fp) /\ Reads
         /\ \/ place = "verify" /\ held' = held
            \/ /\ place = "gate"
               /\ held' = held \cup
                    ({w} \X ((IF Shared(ip) THEN {fp} ELSE {ip, fp}) \cap blocked))
  BY DEF Page, Post
<1>2. place \in Place
  BY DEF Place
<1>3. Becomes(w, Request(place, ip, fp, Shared(ip), "none", 0))
  BY <1>1, <1>2, BecomesArrived DEF Good
<1>4. /\ work'[w].pc = place /\ work'[w].ip = ip /\ work'[w].fp = fp
      /\ work'[w].shared = Shared(ip)
      /\ \A v \in Worker \ {w} : work'[v] = work[v]
  BY <1>3 DEF Becomes, Request
<1>5. blocked' = blocked /\ ip # fp
  BY <1>1, SetsAssumption DEF Reads, store
<1>6. \A who : <<w, who>> \notin held
  BY <1>1 DEF Arrive, HeldInv, HeldAt
<1>7. HeldAt(w)'
  BY <1>1, <1>4, <1>5, <1>6 DEF HeldAt
<1>8. ASSUME NEW v \in Worker \ {w}
      PROVE  HeldAt(v)'
  <2>1. \A who : <<v, who>> \in held' => <<v, who>> \in held
    BY <1>1
  <2> QED
    BY <1>4, <1>5, <2>1, HeldStill DEF HeldInv
<1> QED
  BY <1>7, <1>8 DEF HeldInv

LEMMA HeldHandler ==
    ASSUME Good, HeldInv, NEW w \in Worker, Handler(w)
    PROVE  HeldInv'
<1>1. /\ \A v \in Worker \ {w} : work'[v] = work[v]
      /\ Answer(w) => work'[w] = Idle
      /\ blocked \subseteq blocked'
  BY HandlerFrame
<1>2. Answer(w) \/ Hops(w)
  BY HandlerHops
<1>3. held' \subseteq held
  BY <1>2 DEF Answer, Hops
<1>4. ASSUME NEW v \in Worker \ {w}
      PROVE  HeldAt(v)'
  BY <1>1, <1>3, HeldStill DEF HeldInv
<1>5. CASE Answer(w)
  <2>1. \A who : <<w, who>> \notin held'
    BY <1>5 DEF Answer
  <2> QED
    BY <1>4, <2>1 DEF HeldInv, HeldAt
<1>6. CASE Hops(w)
  <2>1. HeldAt(w) /\ held' = held
    BY <1>6 DEF HeldInv, Hops
  <2>2. \A who : <<w, who>> \in held' => who \in blocked'
    BY <1>1, <2>1 DEF HeldAt
  <2>3. work'[w].pc \notin {"idle", "gate"}
    BY <1>6 DEF Hops, Hop
  <2>4. <<w, work'[w].ip>> \notin held'
    BY <1>6, <2>1 DEF Hops, Hop, HeldAt
  <2>5. work'[w].pc \in {"printcount", "printban", "load", "walk"} =>
           <<w, work'[w].fp>> \notin held'
    BY <1>6, <2>1 DEF Hops, Hop, HeldAt
  <2>6. HeldAt(w)'
    BY <2>2, <2>3, <2>4, <2>5 DEF HeldAt
  <2> QED
    BY <1>4, <2>6 DEF HeldInv
<1> QED
  BY <1>2, <1>5, <1>6

LEMMA HeldStep ==
    ASSUME Good, HeldInv, [Next]_vars
    PROVE  HeldInv'
<1>1. ASSUME NEW w \in Worker, Page(w) \/ Post(w) \/ Handler(w)
      PROVE  HeldInv'
  BY <1>1, HeldArrive, HeldHandler
<1>2. CASE work' = work /\ blocked \subseteq blocked' /\ held' = held
  BY <1>2, HeldStill DEF HeldInv
<1>3. ASSUME NEW who \in Ip \cup Fp, EndBan(who)
      PROVE  HeldInv'
  <2>1. /\ work' = work /\ blocked' = blocked \ {who}
        /\ held' = {h \in held : h[2] # who}
    BY <1>3 DEF EndBan
  <2>2. ASSUME NEW v \in Worker, NEW x, <<v, x>> \in held'
        PROVE  <<v, x>> \in held /\ x # who
    BY <2>1, <2>2
  <2> QED
    BY <2>1, <2>2, HeldStill DEF HeldInv
<1> QED
  BY <1>1, <1>2, <1>3
  DEF Next, Trap, Forget, Lapse, FetchExits, Block, ClearKey, vars, store

\* A client whose ban has held since its request arrived does not reach the
\* application, whatever else happens meanwhile (the IsBlocked tests of
\* handleRequest).
THEOREM BansHold == Spec => []BannedStayOut
<1>1. Init => HeldInv
  BY DEF Init, HeldInv, HeldAt, Idle, Request
<1>2. Good /\ HeldInv /\ [Next]_vars => HeldInv'
  BY HeldStep
<1>3. HeldInv => BannedStayOut
  BY DEF HeldInv, HeldAt, BannedStayOut
<1> QED
  BY <1>1, <1>2, <1>3, Invariance, PTL DEF Spec

-----------------------------------------------------------------------------
(* Shared addresses are spared.                                            *)

ListedAt(w) ==
    w \in listed =>
        /\ Shared(work[w].ip) /\ work[w].shared
        /\ work[w].pc \in {"gate", "judge", "forward", "switch", "verify",
                           "reset", "cookie"}

ListedInv == \A w \in Worker : ListedAt(w)

LEMMA ListedStill ==
    ASSUME NEW v \in Worker, ListedAt(v), work'[v] = work[v], exits' = exits,
           v \in listed' => v \in listed
    PROVE  ListedAt(v)'
BY DEF ListedAt, Shared

LEMMA ListedArrive ==
    ASSUME Good, ListedInv, NEW w \in Worker, Page(w) \/ Post(w)
    PROVE  ListedInv'
<1>1. PICK place \in {"gate", "verify"}, ip \in Ip, fp \in Prints :
         Arrive(w, place, ip, fp) /\ Reads
  BY DEF Page, Post
<1>2. place \in Place
  BY DEF Place
<1>3. Becomes(w, Request(place, ip, fp, Shared(ip), "none", 0))
  BY <1>1, <1>2, BecomesArrived DEF Good
<1>4. /\ work'[w].pc = place /\ work'[w].ip = ip
      /\ work'[w].shared = Shared(ip)
      /\ \A v \in Worker \ {w} : work'[v] = work[v]
  BY <1>3 DEF Becomes, Request
<1>5. exits' = exits /\ work[w].pc = "idle"
  BY <1>1 DEF Reads, Arrive
<1>6. w \notin listed
  BY <1>5 DEF ListedInv, ListedAt
<1>7. w \in listed' => Shared(ip)
  BY <1>1, <1>6 DEF Arrive
<1>8. ListedAt(w)'
  BY <1>4, <1>5, <1>7 DEF ListedAt, Shared
<1>9. \A v \in Worker \ {w} : v \in listed' => v \in listed
  BY <1>1 DEF Arrive
<1> QED
  BY <1>4, <1>5, <1>8, <1>9, ListedStill DEF ListedInv

LEMMA ListedHandler ==
    ASSUME Good, ListedInv, NEW w \in Worker, Handler(w)
    PROVE  ListedInv'
<1>1. /\ \A v \in Worker \ {w} : work'[v] = work[v]
      /\ exits' = exits
  BY HandlerFrame
<1>2. Answer(w) \/ Hops(w)
  BY HandlerHops
<1>3. listed' \subseteq listed
  BY <1>2 DEF Answer, Hops
<1>4. CASE Answer(w)
  <2>1. ListedAt(w)'
    BY <1>4 DEF Answer, ListedAt
  <2> QED
    BY <1>1, <1>3, <2>1, ListedStill DEF ListedInv
<1>5. CASE Hops(w)
  <2>1. ListedAt(w)'
    BY <1>1, <1>5 DEF Hops, Hop, ListedInv, ListedAt, Shared
  <2> QED
    BY <1>1, <1>3, <2>1, ListedStill DEF ListedInv
<1> QED
  BY <1>2, <1>4, <1>5

LEMMA ListedStep ==
    ASSUME Good, ListedInv, [Next]_vars
    PROVE  ListedInv'
<1>1. ASSUME NEW w \in Worker, Page(w) \/ Post(w) \/ Handler(w)
      PROVE  ListedInv'
  BY <1>1, ListedArrive, ListedHandler
<1>2. CASE work' = work /\ exits' = exits /\ listed' = listed
  BY <1>2, ListedStill DEF ListedInv
<1>3. CASE FetchExits
  BY <1>3 DEF FetchExits, ListedInv, ListedAt
<1> QED
  BY <1>1, <1>2, <1>3
  DEF Next, Trap, Forget, Lapse, EndBan, Block, ClearKey, vars, store

\* What a handler in those places does to the store.
LEMMA ListedSpared ==
    ASSUME Good, ListedInv, NEW w \in Worker, w \in listed, Handler(w)
    PROVE  /\ \A key \in Banning : counts'[key] <= counts[key]
           /\ blocked' = blocked /\ banCounts' = banCounts
           /\ reported' = reported
<1>1. /\ work[w].shared
      /\ work[w].pc \in {"gate", "judge", "forward", "switch", "verify",
                         "reset", "cookie"}
  BY DEF ListedInv, ListedAt
<1>2. \A key \in Banning : key \in Key /\ counts[key] \in Nat
  BY DEF Banning, Key, IpKind, Good, TypeOK
<1>3. <<"load", work[w].ip>> \notin Banning
  BY DEF Banning
<1>4. CASE Reads
  BY <1>2, <1>4 DEF Reads, store
<1>5. CASE IncrWalkaway(<<"load", work[w].ip>>)
  BY <1>2, <1>3, <1>5 DEF IncrWalkaway, Good, TypeOK
<1>6. CASE Reset(w)
  BY <1>2, <1>6 DEF Reset, ClearKey, Good, TypeOK
<1>7. CASE Cookie(w)
  BY <1>2, <1>7 DEF Cookie, store
<1> QED
  BY <1>1, <1>4, <1>5, <1>6, <1>7
  DEF Handler, Gate, Judge, Forwarded, Switch, CheckPrint, CountPrint,
      BanPrint, Load, Walk, Verify, Penalise, Ban, IncrBanCount, Report

\* A request from an address that is shared throughout is never held against
\* it, however the exit list changes for others (sharedTorIP in handleRequest
\* and retryChallenge).
THEOREM SharedAreSpared == Spec => SharedSpared
<1> DEFINE Spared == \A w \in listed : work'[w] # work[w] =>
                        /\ \A key \in Banning : counts'[key] <= counts[key]
                        /\ blocked' = blocked
                        /\ banCounts' = banCounts
                        /\ reported' = reported
<1>1. Init => ListedInv
  BY DEF Init, ListedInv, ListedAt
<1>2. Good /\ ListedInv /\ [Next]_vars => ListedInv'
  BY ListedStep
<1>3. Good /\ ListedInv /\ [Next]_vars => [Spared]_vars
  <2> SUFFICES ASSUME Good, ListedInv, Next, NEW w \in listed,
                      work'[w] # work[w]
               PROVE  /\ \A key \in Banning : counts'[key] <= counts[key]
                      /\ blocked' = blocked
                      /\ banCounts' = banCounts
                      /\ reported' = reported
    OBVIOUS
  <2>1. w \in Worker /\ work[w].pc # "idle"
    BY DEF Good, TypeOK, ListedInv, ListedAt
  <2>2. PICK v \in Worker : Page(v) \/ Post(v) \/ Handler(v)
    BY DEF Next, Trap, Forget, Lapse, EndBan, FetchExits
  <2>3. CASE Page(v) \/ Post(v)
    <3>1. work[v].pc = "idle" /\ Reads
      BY <2>3 DEF Page, Post, Arrive
    <3>2. \A key \in Banning : counts[key] \in Nat
      BY DEF Banning, Key, IpKind, Good, TypeOK
    <3> QED
      BY <3>1, <3>2 DEF Reads, store
  <2>4. CASE Handler(v)
    <3>1. v = w
      BY <2>1, <2>4, HandlerFrame
    <3> QED
      BY <2>1, <2>4, <3>1, ListedSpared
  <2> QED
    BY <2>2, <2>3, <2>4
<1> QED
  BY <1>1, <1>2, <1>3, Invariance, PTL DEF Spec, SharedSpared

-----------------------------------------------------------------------------
(* No limit is passed unnoticed.                                           *)

\* w is about to ban the one the counter belongs to.
AtBan(w, key) ==
    \/ work[w].pc = "ban" /\ work[w].ip = key[2]
    \/ work[w].pc = "printban" /\ work[w].fp = key[2]

Noticed(key) ==
    counts[key] >= Limit(key) =>
        key \in struck \/ \E w \in Worker : AtBan(w, key)

\* A step of w, which was not about to ban, that does not bring the counter
\* to its limit.
LEMMA NoticedStill ==
    ASSUME NEW key, Noticed(key),
           counts'[key] >= Limit(key) => counts[key] >= Limit(key),
           key \in struck => key \in struck',
           \A v \in Worker : AtBan(v, key) => work'[v] = work[v]
    PROVE  Noticed(key)'
<1> SUFFICES ASSUME counts'[key] >= Limit(key)
             PROVE  key \in struck' \/ \E w \in Worker : AtBan(w, key)'
  BY DEF Noticed, Limit
<1>1. key \in struck \/ \E w \in Worker : AtBan(w, key)
  BY DEF Noticed
<1>2. ASSUME NEW v \in Worker, AtBan(v, key)
      PROVE  AtBan(v, key)'
  BY <1>2 DEF AtBan
<1> QED
  BY <1>1, <1>2

LEMMA BanningType ==
    ASSUME Good, NEW key \in Banning
    PROVE  key \in Key /\ counts[key] \in Nat /\ Limit(key) \in Nat \ {0}
<1>1. key \in Key
  BY DEF Banning, Key, IpKind
<1> QED
  BY <1>1, LimitType DEF Good, TypeOK

LEMMA NoticedClear ==
    ASSUME Good, LimitBans, NEW k \in Key, ClearKey(k),
           \A v \in Worker : work[v].pc \in {"ban", "printban"} =>
                                work'[v] = work[v]
    PROVE  LimitBans'
<1>1. ASSUME NEW key \in Banning
      PROVE  Noticed(key)'
  <2>1. key \in Key /\ counts[key] \in Nat /\ Limit(key) \in Nat \ {0}
    BY BanningType
  <2>2. counts'[key] = IF key = k THEN 0 ELSE counts[key]
    BY <2>1 DEF ClearKey, Good, TypeOK
  <2>3. CASE key = k
    BY <2>1, <2>2, <2>3 DEF Noticed, Limit
  <2>4. CASE key # k
    <3>1. Noticed(key)
      BY DEF LimitBans, Noticed, AtBan
    <3>2. key \in struck => key \in struck'
      BY <2>4 DEF ClearKey
    <3> QED
      BY <2>2, <2>4, <3>1, <3>2, NoticedStill DEF AtBan
  <2> QED
    BY <2>3, <2>4
<1> QED
  BY <1>1 DEF LimitBans, Noticed, AtBan, Banning

\* A step that counts nothing and takes nobody from the brink of a ban.
LEMMA NoticedRest ==
    ASSUME Good, LimitBans, counts' = counts, struck \subseteq struck',
           \A v \in Worker : work[v].pc \in {"ban", "printban"} =>
                                work'[v] = work[v]
    PROVE  LimitBans'
<1>1. ASSUME NEW key \in Banning
      PROVE  Noticed(key)'
  <2>1. Noticed(key)
    BY DEF LimitBans, Noticed, AtBan
  <2> QED
    BY <2>1, NoticedStill DEF AtBan
<1> QED
  BY <1>1 DEF LimitBans, Noticed, AtBan, Banning

\* Whoever blocks has struck every counter of the one it blocks.
LEMMA NoticedBlock ==
    ASSUME Good, LimitBans, NEW w \in Worker, Ban(w) \/ BanPrint(w)
    PROVE  LimitBans'
<1> DEFINE who == IF work[w].pc = "ban" THEN work[w].ip ELSE work[w].fp
<1>1. Block(who)
  BY DEF Ban, BanPrint
<1>2. \A v \in Worker \ {w} : work'[v] = work[v]
  BY HandlerFrame DEF Handler
<1>3. ASSUME NEW key \in Banning
      PROVE  Noticed(key)'
  <2>1. Noticed(key)
    BY DEF LimitBans, Noticed, AtBan
  <2>2. counts' = counts /\ struck \subseteq struck'
    BY <1>1 DEF Block
  <2>3. CASE AtBan(w, key)
    <3>1. key[2] = who
      BY <2>3 DEF AtBan
    <3>2. counts[key] >= Limit(key) => key \in struck'
      BY <1>1, <3>1 DEF Block
    <3> QED
      BY <2>2, <3>2 DEF Noticed, Limit
  <2>4. CASE ~AtBan(w, key)
    BY <1>2, <2>1, <2>2, <2>4, NoticedStill
  <2> QED
    BY <2>3, <2>4
<1> QED
  BY <1>3 DEF LimitBans, Noticed, AtBan, Banning

\* Whoever brings a counter to its limit is about to ban.
LEMMA NoticedIncr ==
    ASSUME Good, LimitBans, NEW w \in Worker, NEW k \in Key, IncrWalkaway(k),
           work[w].pc \notin {"ban", "printban"},
           \A v \in Worker \ {w} : work'[v] = work[v],
           k \in Banning /\ Counted(k) >= Limit(k) => AtBan(w, k)'
    PROVE  LimitBans'
<1>1. ASSUME NEW key \in Banning
      PROVE  Noticed(key)'
  <2>1. key \in Key /\ counts[key] \in Nat
    BY BanningType
  <2>2. counts'[key] = IF key = k THEN Counted(k) ELSE counts[key]
    BY <2>1 DEF IncrWalkaway, Good, TypeOK
  <2>3. CASE key = k
    BY <2>2, <2>3 DEF Noticed, Limit
  <2>4. CASE key # k
    <3>1. Noticed(key)
      BY DEF LimitBans, Noticed, AtBan
    <3>2. struck' = struck
      BY DEF IncrWalkaway
    <3> QED
      BY <2>2, <2>4, <3>1, <3>2, NoticedStill DEF AtBan
  <2> QED
    BY <2>3, <2>4
<1> QED
  BY <1>1 DEF LimitBans, Noticed, AtBan, Banning

LEMMA GotoPlace ==
    ASSUME Good, NEW w \in Worker, NEW place \in Place, Goto(w, place)
    PROVE  /\ work'[w].pc = place
           /\ work'[w].ip = work[w].ip /\ work'[w].fp = work[w].fp
<1>1. Becomes(w, Request(place, work[w].ip, work[w].fp, work[w].shared,
                         work[w].penalty, work[w].step))
  BY BecomesAt DEF Good
<1> QED
  BY <1>1 DEF Becomes, Request

LEMMA NoticedHandler ==
    ASSUME Good, LimitBans, NEW w \in Worker, Handler(w)
    PROVE  LimitBans'
<1>1. \A v \in Worker \ {w} : work'[v] = work[v]
  BY HandlerFrame
<1>2. CASE Ban(w) \/ BanPrint(w)
  BY <1>2, NoticedBlock
<1>3. CASE work[w].pc \notin {"ban", "printban"} /\ counts' = counts
           /\ struck' = struck
  BY <1>1, <1>3, NoticedRest
<1>4. CASE Reset(w)
  <2>1. work[w].pc = "reset" /\ ResetKey(w) \in Key /\ ClearKey(ResetKey(w))
    BY <1>4, ResetKeyType DEF Reset
  <2> QED
    BY <1>1, <2>1, NoticedClear
<1>5. CASE /\ work[w].pc # "idle" /\ work[w].pc \notin {"ban", "printban"}
           /\ \E kind \in {"switch", "load"} : IncrWalkaway(<<kind, work[w].ip>>)
  <2>1. PICK kind \in {"switch", "load"} : IncrWalkaway(<<kind, work[w].ip>>)
    BY <1>5
  <2>2. <<kind, work[w].ip>> \in Key /\ <<kind, work[w].ip>> \notin Banning
    BY <1>5, KeysType DEF IpKind, Banning
  <2> QED
    BY <1>1, <1>5, <2>1, <2>2, NoticedIncr
<1>6. CASE Walk(w) \/ Penalise(w)
  <2>1. PICK k \in Key :
           /\ k[2] = work[w].ip /\ IncrWalkaway(k)
           /\ Counted(k) >= Limit(k) => Goto(w, "ban")
    <3>1. work[w].pc \in {"walk", "penalty"}
      BY <1>6 DEF Walk, Penalise
    <3>2. /\ <<"walk", work[w].ip>> \in Key /\ PenaltyKey(w) \in Key
          /\ PenaltyKey(w)[2] = work[w].ip
      BY <3>1, KeysType DEF IpKind, PenaltyKey
    <3>3. CASE Walk(w)
      BY <3>2, <3>3 DEF Walk
    <3>4. CASE Penalise(w)
      BY <3>2, <3>4 DEF Penalise
    <3> QED
      BY <1>6, <3>3, <3>4
  <2>2. work[w].pc \notin {"ban", "printban"}
    BY <1>6 DEF Walk, Penalise
  <2>3. ASSUME Goto(w, "ban")
        PROVE  work'[w].pc = "ban" /\ work'[w].ip = work[w].ip
    BY <2>3, GotoPlace DEF Place
  <2>4. Counted(k) >= Limit(k) => AtBan(w, k)'
    BY <2>1, <2>3 DEF AtBan
  <2> QED
    BY <1>1, <2>1, <2>2, <2>4, NoticedIncr
<1>7. CASE CountPrint(w)
  <2>1. PICK k \in Key :
           /\ k[2] = work[w].fp /\ IncrWalkaway(k)
           /\ Counted(k) >= Limit(k) => Goto(w, "printban")
    <3>1. <<"fp", work[w].fp>> \in Key
      BY <1>7, KeysType DEF CountPrint, Good, PlacedAt
    <3> QED
      BY <1>7, <3>1 DEF CountPrint
  <2>2. work[w].pc \notin {"ban", "printban"}
    BY <1>7 DEF CountPrint
  <2>3. ASSUME Goto(w, "printban")
        PROVE  work'[w].pc = "printban" /\ work'[w].fp = work[w].fp
    BY <2>3, GotoPlace DEF Place
  <2>4. Counted(k) >= Limit(k) => AtBan(w, k)'
    BY <2>1, <2>3 DEF AtBan
  <2> QED
    BY <1>1, <2>1, <2>2, <2>4, NoticedIncr
<1> QED
  BY <1>2, <1>3, <1>4, <1>5, <1>6, <1>7
  DEF Handler, Gate, Judge, Forwarded, Switch, CheckPrint, Load, Verify,
      IncrBanCount, Report, Cookie, Reads, store

LEMMA NoticedStep ==
    ASSUME Good, LimitBans, [Next]_vars
    PROVE  LimitBans'
<1>1. ASSUME NEW w \in Worker, Page(w) \/ Post(w)
      PROVE  LimitBans'
  <2>1. /\ work[w].pc = "idle" /\ counts' = counts /\ struck' = struck
        /\ \A v \in Worker \ {w} : work'[v] = work[v]
    BY <1>1 DEF Page, Post, Arrive, Reads, store, Good, TypeOK
  <2> QED
    BY <2>1, NoticedRest
<1>2. ASSUME NEW w \in Worker, Handler(w)
      PROVE  LimitBans'
  BY <1>2, NoticedHandler
<1>3. ASSUME NEW key \in Key, Lapse(key)
      PROVE  LimitBans'
  BY <1>3, NoticedClear DEF Lapse
<1>4. CASE work' = work /\ counts' = counts /\ struck \subseteq struck'
  BY <1>4, NoticedRest
<1> QED
  BY <1>1, <1>2, <1>3, <1>4
  DEF Next, Trap, Forget, EndBan, FetchExits, Block, vars, store

\* However requests interleave, and wherever they find a counter, none at its
\* limit is left without a ban that has been or is about to be imposed
\* (handleRequest, retryChallenge, banClient).
THEOREM LimitsBan == Spec => []LimitBans
<1>1. Init => LimitBans
  <2> SUFFICES ASSUME Init, NEW key \in Banning
               PROVE  ~(counts[key] >= Limit(key))
    BY DEF LimitBans
  <2>1. key \in Key
    BY DEF Banning, Key, IpKind
  <2> QED
    BY <2>1, LimitType DEF Init
<1>2. Good /\ LimitBans /\ [Next]_vars => LimitBans'
  BY NoticedStep
<1> QED
  BY <1>1, <1>2, Invariance, PTL DEF Spec

-----------------------------------------------------------------------------
(* A solution clears every counter.                                        *)

\* What is counted under the key was counted after w had cleared it.
Cleared(w, key) == counts[key] > 0 => <<w, key>> \in fresh

\* The counters that a solver has behind it.
Behind(w) ==
    {<<ResetKinds[n], work[w].ip>> :
        n \in {m \in 1..4 : \/ work[w].pc = "cookie"
                            \/ work[w].pc = "reset" /\ m < work[w].step}}
    \cup
    {key \in {<<"fp", work[w].fp>>} : work[w].pc = "cookie" /\ work[w].fp \in Fp}

SolverAt(w) == \A key \in Behind(w) : Cleared(w, key)

SolverInv == \A w \in Worker : SolverAt(w)

LEMMA BehindType ==
    ASSUME Good, NEW w \in Worker
    PROVE  /\ Behind(w) \subseteq Key
           /\ Behind(w) # {} => w \in Solving
<1>1. work[w].pc \in {"cookie", "reset"} => work[w].ip \in Ip
  BY DEF Good, PlacedAt
<1>2. \A n \in 1..4 : ResetKinds[n] \in IpKind
  BY DEF ResetKinds, IpKind
<1> QED
  BY <1>1, <1>2 DEF Behind, Key, Solving

\* What the calls of the store do to a counter that is cleared.
LEMMA ClearedIncr ==
    ASSUME Good, NEW v \in Worker, NEW key \in Key, NEW k \in Key,
           v \in Solving, Cleared(v, key), IncrWalkaway(k)
    PROVE  Cleared(v, key)'
<1>1. CASE key = k
  BY <1>1 DEF Cleared, IncrWalkaway
<1>2. CASE key # k
  <2>1. counts'[key] = counts[key] /\ fresh \subseteq fresh'
    BY <1>2 DEF IncrWalkaway, Good, TypeOK
  <2> QED
    BY <2>1 DEF Cleared
<1> QED
  BY <1>1, <1>2

LEMMA ClearedClear ==
    ASSUME Good, NEW v \in Worker, NEW key \in Key, NEW k \in Key,
           Cleared(v, key) \/ key = k, ClearKey(k)
    PROVE  Cleared(v, key)'
<1>1. CASE key = k
  <2>1. counts'[key] = 0
    BY <1>1 DEF ClearKey, Good, TypeOK
  <2> QED
    BY <2>1 DEF Cleared
<1>2. CASE key # k
  <2>1. counts'[key] = counts[key]
    BY <1>2 DEF ClearKey, Good, TypeOK
  <2>2. <<v, key>> \in fresh => <<v, key>> \in fresh'
    BY <1>2 DEF ClearKey
  <2> QED
    BY <1>2, <2>1, <2>2 DEF Cleared
<1> QED
  BY <1>1, <1>2

\* A worker that stands still keeps what it has behind it.
LEMMA SolverStill ==
    ASSUME Good, NEW v \in Worker, SolverAt(v), work'[v] = work[v],
           \/ counts' = counts /\ \A key : <<v, key>> \in fresh =>
                                               <<v, key>> \in fresh'
           \/ \E k \in Key : IncrWalkaway(k) \/ ClearKey(k)
    PROVE  SolverAt(v)'
<1>1. Behind(v)' = Behind(v)
  BY DEF Behind
<1>2. ASSUME NEW key \in Behind(v)
      PROVE  Cleared(v, key)'
  <2>1. key \in Key /\ v \in Solving /\ Cleared(v, key)
    BY <1>2, BehindType DEF SolverAt
  <2>2. CASE counts' = counts /\ \A x : <<v, x>> \in fresh => <<v, x>> \in fresh'
    BY <2>1, <2>2 DEF Cleared
  <2>3. CASE \E k \in Key : IncrWalkaway(k) \/ ClearKey(k)
    BY <2>1, <2>3, ClearedIncr, ClearedClear
  <2> QED
    BY <2>2, <2>3
<1> QED
  BY <1>1, <1>2 DEF SolverAt

LEMMA SolverReset ==
    ASSUME Good, SolverInv, NEW w \in Worker, Reset(w)
    PROVE  SolverAt(w)'
<1>1. /\ work[w].pc = "reset" /\ work[w].ip \in Ip
      /\ work[w].step \in 1..ResetSteps(w)
      /\ ResetSteps(w) = IF work[w].fp = NoFp THEN 4 ELSE 5
      /\ work[w].fp \in Fp \cup {NoFp} /\ NoFp \notin Fp
  BY DEF Reset, Good, PlacedAt, ResetSteps, TypeOK, Requests, Fp
<1>2. PICK k \in Key : k = ResetKey(w) /\ ClearKey(k)
  BY <1>1, ResetKeyType DEF Reset
<1>3. /\ work'[w].ip = work[w].ip /\ work'[w].fp = work[w].fp
      /\ \/ /\ work'[w].pc = "reset" /\ work'[w].step = work[w].step + 1
         \/ /\ work'[w].pc = "cookie" /\ work[w].step = ResetSteps(w)
  <2>1. /\ "reset" \in Place /\ "cookie" \in Place /\ "none" \in Penalty
        /\ work[w].step \in 0..5
    BY <1>1 DEF Place, Penalty
  <2>2. CASE /\ work[w].step < ResetSteps(w)
             /\ Move(w, "reset", "none", work[w].step + 1)
    <3>1. work[w].step + 1 \in 0..5
      BY <1>1, <2>2
    <3>2. Becomes(w, Request("reset", work[w].ip, work[w].fp, work[w].shared,
                             "none", work[w].step + 1))
      BY <2>1, <2>2, <3>1, BecomesMoved DEF Good
    <3> QED
      BY <3>2 DEF Becomes, Request
  <2>3. CASE /\ ~(work[w].step < ResetSteps(w))
             /\ Move(w, "cookie", "none", work[w].step)
    <3>1. Becomes(w, Request("cookie", work[w].ip, work[w].fp, work[w].shared,
                             "none", work[w].step))
      BY <2>1, <2>3, BecomesMoved DEF Good
    <3> QED
      BY <1>1, <2>3, <3>1 DEF Becomes, Request
  <2> QED
    BY <2>2, <2>3 DEF Reset
<1>4. ASSUME NEW key \in Behind(w)'
      PROVE  key \in Behind(w) \/ key = k
  <2>1. CASE key = <<"fp", work[w].fp>> /\ work'[w].pc = "cookie"
             /\ work[w].fp \in Fp
    BY <1>1, <1>2, <1>3, <2>1 DEF ResetKey, ResetKinds
  <2>2. CASE \E n \in 1..4 : key = <<ResetKinds[n], work[w].ip>>
                             /\ n <= work[w].step
    <3>1. PICK n \in 1..4 : key = <<ResetKinds[n], work[w].ip>>
                            /\ n <= work[w].step
      BY <2>2
    <3>2. CASE n < work[w].step
      BY <1>1, <3>1, <3>2 DEF Behind
    <3>3. CASE n = work[w].step
      BY <1>1, <1>2, <3>1, <3>3 DEF ResetKey, ResetKinds
    <3> QED
      BY <1>1, <3>1, <3>2, <3>3
  <2> QED
    BY <1>1, <1>3, <1>4, <2>1, <2>2 DEF Behind
<1>5. ASSUME NEW key \in Behind(w)'
      PROVE  Cleared(w, key)'
  <2>1. key \in Behind(w) => key \in Key /\ Cleared(w, key)
    BY BehindType DEF SolverInv, SolverAt
  <2>2. key \in Key
    BY <1>4, <2>1
  <2> QED
    BY <1>2, <1>4, <2>1, <2>2, ClearedClear
<1> QED
  BY <1>5 DEF SolverAt

\* What the handlers other than that of a solver do to the counters.
LEMMA HandlerCounts ==
    ASSUME Good, NEW w \in Worker, Handler(w)
    PROVE  \/ counts' = counts /\ \A f \in fresh : f[1] # w => f \in fresh'
           \/ \E k \in Key : IncrWalkaway(k) \/ ClearKey(k)
<1>1. CASE work[w].pc # "idle" /\ ~Reads
           /\ (Switch(w) \/ CountPrint(w) \/ Load(w) \/ Walk(w) \/ Verify(w)
               \/ Penalise(w))
  BY <1>1, CountingSteps
<1>2. CASE Reads
  BY <1>2 DEF Reads, store
<1>3. CASE Reset(w)
  BY <1>3, ResetKeyType DEF Reset
<1>4. CASE Cookie(w)
  BY <1>4 DEF Cookie, store
<1>5. CASE BanPrint(w) \/ Ban(w) \/ IncrBanCount(w) \/ Report(w)
  BY <1>5 DEF BanPrint, Ban, Block, IncrBanCount, Report
<1> QED
  BY <1>1, <1>2, <1>3, <1>4, <1>5
  DEF Handler, Gate, Judge, Forwarded, Switch, CheckPrint, CountPrint, Load,
      Walk, Verify, Penalise

LEMMA SolverHandler ==
    ASSUME Good, SolverInv, NEW w \in Worker, Handler(w)
    PROVE  SolverInv'
<1>1. ASSUME NEW v \in Worker \ {w}
      PROVE  SolverAt(v)'
  <2>1. work'[v] = work[v]
    BY HandlerFrame
  <2>2. \/ counts' = counts /\ \A key : <<v, key>> \in fresh =>
                                            <<v, key>> \in fresh'
        \/ \E k \in Key : IncrWalkaway(k) \/ ClearKey(k)
    BY HandlerCounts
  <2> QED
    BY <2>1, <2>2, SolverStill DEF SolverInv
<1>2. SolverAt(w)'
  <2>1. CASE Reset(w)
    BY <2>1, SolverReset
  <2>2. CASE Answer(w)
    <3>1. work'[w].pc = "idle"
      BY <2>2, BecomesIdle DEF Good, Becomes, Idle, Request
    <3> QED
      BY <3>1 DEF SolverAt, Behind
  <2>3. CASE Verify(w) /\ Move(w, "reset", "none", 1)
    <3>1. "reset" \in Place /\ "none" \in Penalty /\ 1 \in 0..5
      BY DEF Place, Penalty
    <3>2. Becomes(w, Request("reset", work[w].ip, work[w].fp,
                             work[w].shared, "none", 1))
      BY <2>3, <3>1, BecomesMoved DEF Good
    <3>3. work'[w].pc = "reset" /\ work'[w].step = 1
      BY <3>2 DEF Becomes, Request
    <3> QED
      BY <3>3 DEF SolverAt, Behind
  <2>4. CASE Hops(w) /\ work'[w].pc \notin {"reset", "cookie"}
    BY <2>4 DEF SolverAt, Behind
  <2>5. work[w].pc \notin {"verify", "reset"} /\ Hops(w) =>
           work'[w].pc \notin {"reset", "cookie"}
    BY DEF Hops, Hop
  <2>6. work[w].pc = "verify" => Verify(w)
    BY DEF Handler, Gate, Judge, Forwarded, Switch, CheckPrint, CountPrint,
           BanPrint, Load, Walk, Penalise, Ban, IncrBanCount, Report, Reset,
           Cookie
  <2>7. work[w].pc = "reset" => Reset(w)
    BY DEF Handler, Gate, Judge, Forwarded, Switch, CheckPrint, CountPrint,
           BanPrint, Load, Walk, Penalise, Ban, IncrBanCount, Report, Verify,
           Cookie
  <2>8. CASE Verify(w) /\ ~Answer(w) /\ ~Move(w, "reset", "none", 1)
    <3>1. PICK penalty \in Penalties(work[w].ip) : Move(w, "penalty", penalty, 0)
      BY <2>8 DEF Verify
    <3>2. penalty \in Penalty /\ "penalty" \in Place /\ 0 \in 0..5
      BY DEF Penalties, Penalty, Place
    <3>3. Becomes(w, Request("penalty", work[w].ip, work[w].fp,
                             work[w].shared, penalty, 0))
      BY <3>1, <3>2, BecomesMoved DEF Good
    <3>4. work'[w].pc = "penalty"
      BY <3>3 DEF Becomes, Request
    <3> QED
      BY <3>4 DEF SolverAt, Behind
  <2> QED
    BY <2>1, <2>2, <2>3, <2>4, <2>5, <2>6, <2>7, <2>8, HandlerHops
<1> QED
  BY <1>1, <1>2 DEF SolverInv

LEMMA SolverStep ==
    ASSUME Good, SolverInv, [Next]_vars
    PROVE  SolverInv'
<1>1. ASSUME NEW w \in Worker, Page(w) \/ Post(w)
      PROVE  SolverInv'
  <2>1. PICK place \in {"gate", "verify"}, ip \in Ip, fp \in Prints :
           Arrive(w, place, ip, fp) /\ Reads
    BY <1>1 DEF Page, Post
  <2>2. place \in Place
    BY DEF Place
  <2>3. Becomes(w, Request(place, ip, fp, Shared(ip), "none", 0))
    BY <2>1, <2>2, BecomesArrived DEF Good
  <2>4. work'[w].pc = place /\ \A v \in Worker \ {w} : work'[v] = work[v]
    BY <2>3 DEF Becomes, Request
  <2>5. counts' = counts /\ fresh' = fresh
    BY <2>1 DEF Reads, store
  <2>6. SolverAt(w)'
    BY <2>4 DEF SolverAt, Behind
  <2> QED
    BY <2>4, <2>5, <2>6, SolverStill DEF SolverInv
<1>2. ASSUME NEW w \in Worker, Handler(w)
      PROVE  SolverInv'
  BY <1>2, SolverHandler
<1>3. ASSUME NEW key \in Key, Lapse(key)
      PROVE  SolverInv'
  BY <1>3, SolverStill DEF Lapse, SolverInv
<1>4. CASE work' = work /\ counts' = counts /\ fresh' = fresh
  BY <1>4, SolverStill DEF SolverInv
<1> QED
  BY <1>1, <1>2, <1>3, <1>4
  DEF Next, Trap, Forget, EndBan, FetchExits, Block, vars, store

\* When the verified cookie is set, every counter of the solver has been
\* cleared, and whatever stands in one came later (resetWalkaways).
THEOREM SolutionsClear == Spec => []SolvingClears
<1>1. Init => SolverInv
  BY DEF Init, SolverInv, SolverAt, Behind, Idle, Request
<1>2. Good /\ SolverInv /\ [Next]_vars => SolverInv'
  BY SolverStep
<1>3. Good /\ SolverInv => SolvingClears
  <2> SUFFICES ASSUME Good, SolverInv, NEW w \in Worker,
                      work[w].pc = "cookie", NEW key \in Key,
                      key[2] \in {work[w].ip, work[w].fp}, counts[key] > 0
               PROVE  <<w, key>> \in fresh
    BY DEF SolvingClears
  <2>1. /\ work[w].ip \in Ip /\ work[w].fp \in Fp \cup {NoFp}
        /\ NoFp \notin Ip /\ Ip \cap Fp = {} /\ NoFp \notin Fp
    BY SetsAssumption DEF Good, PlacedAt, TypeOK, Requests, Fp
  <2>2. CASE \E kind \in IpKind : key = <<kind, work[w].ip>>
    <3>1. PICK kind \in IpKind : key = <<kind, work[w].ip>>
      BY <2>2
    <3>2. \E n \in 1..4 : kind = ResetKinds[n]
      BY DEF IpKind, ResetKinds
    <3>3. key \in Behind(w)
      BY <3>1, <3>2 DEF Behind
    <3> QED
      BY <3>3 DEF SolverInv, SolverAt, Cleared
  <2>3. CASE key = <<"fp", work[w].fp>> /\ work[w].fp \in Fp
    <3>1. key \in Behind(w)
      BY <2>3 DEF Behind
    <3> QED
      BY <3>1 DEF SolverInv, SolverAt, Cleared
  <2> QED
    BY <2>1, <2>2, <2>3 DEF Key
<1> QED
  BY <1>1, <1>2, <1>3, Invariance, PTL DEF Spec

=============================================================================
