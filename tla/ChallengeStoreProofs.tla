------------------------ MODULE ChallengeStoreProofs ------------------------
(***************************************************************************)
(* Proofs about ChallengeStore for any numbers of workers, ids, addresses  *)
(* and any timing constants: type correctness, one redemption per          *)
(* challenge, honest passes, and the implementation of OneShotTicket.      *)
(***************************************************************************)
EXTENDS ChallengeStore, FiniteSetTheorems, TLAPS

-----------------------------------------------------------------------------
(* What a handler may do to its own record.                                *)

\* The idle record is a record of local state, and a harmless one.
LEMMA IdleWork == Idle \in Work /\ LocalInv(Idle) /\ Idle.took = NoChallenge
BY DEF Idle, Local, Work, Place, LocalInv, Kind

\* A fresh challenge is a challenge, issued now.
LEMMA NewChallengesType ==
    ASSUME now \in Nat, NEW kind \in Kind, NEW c \in NewChallenges(kind)
    PROVE  c \in Challenge /\ c.issued = now
BY SetsAssumption, TimesAssumption DEF NewChallenges, Challenge

\* A step of a handler that replaces its worker's record by a harmless one:
\* it holds nothing afterwards and says nothing of a verdict.
Drops(w) ==
    \E k \in Work : /\ LocalInv(k)
                    /\ k.took = NoChallenge
                    /\ work' = [work EXCEPT ![w] = k]

LEMMA FinishDrops ==
    ASSUME NEW w \in Worker, Finish(w)
    PROVE  Drops(w)
BY IdleWork DEF Finish, Drops

LEMMA LocalDrops ==
    ASSUME IndInv, NEW w \in Worker, work[w].pc # "idle",
           NEW place \in Place, NEW kind \in Kind, NEW value \in Int,
           LocalInv(Local(place, kind, work[w].ip, work[w].id, value)),
           work' = [work EXCEPT ![w] =
                      Local(place, kind, work[w].ip, work[w].id, value)]
    PROVE  Drops(w)
<1>1. work[w] \in Work /\ LocalInv(work[w])
  BY DEF IndInv, TypeOK
<1>2. Local(place, kind, work[w].ip, work[w].id, value) \in Work
  BY <1>1 DEF Local, Work, LocalInv
<1> QED
  BY <1>2 DEF Drops, Local

LEMMA ToServeDrops ==
    ASSUME IndInv, NEW w \in Worker, ToServe(w), work[w].pc # "idle"
    PROVE  Drops(w)
<1>1. work[w] \in Work /\ LocalInv(work[w]) /\ work[w].asks \in Kind
  BY DEF IndInv, TypeOK, LocalInv
<1>2. LocalInv(Local("serve", work[w].asks, work[w].ip, work[w].id, 0))
  BY <1>1 DEF LocalInv, Local
<1>3. work' = [work EXCEPT ![w] = Local("serve", work[w].asks, work[w].ip,
                                       work[w].id, 0)]
  BY DEF ToServe
<1>4. "serve" \in Place /\ 0 \in Int
  BY DEF Place
<1> QED
  BY <1>1, <1>2, <1>3, <1>4, LocalDrops

-----------------------------------------------------------------------------
(* Steps that leave the table alone.                                       *)

AttemptsOK(a) == /\ DOMAIN a \subseteq Ip
                 /\ \A ip \in DOMAIN a : a[ip] \in [count : Nat, expires : Int]

\* A worker whose handler lets go of what it held disturbs nothing.
LEMMA DropsInv ==
    ASSUME IndInv, NEW w \in Worker, Drops(w), AttemptsOK(attempts'),
           UNCHANGED <<now, challenges, ledger, passes>>
    PROVE  IndInv'
<1>1. PICK k \in Work : /\ LocalInv(k)
                        /\ k.took = NoChallenge
                        /\ work' = [work EXCEPT ![w] = k]
  BY DEF Drops
<1>2. work \in [Worker -> Work]
  BY DEF IndInv, TypeOK
<1>3. /\ work' \in [Worker -> Work]
      /\ \A v \in Worker : work'[v] = IF v = w THEN k ELSE work[v]
  BY <1>1, <1>2
<1>4. TypeOK'
  BY <1>3 DEF IndInv, TypeOK, AttemptsOK
<1>5. \A v \in Worker : LocalInv(work[v])'
  BY <1>1, <1>3 DEF IndInv, LocalInv
<1>6. \A v \in Worker : Holding(v)' => Holding(v) /\ work'[v] = work[v]
  BY <1>1, <1>3 DEF Holding
<1>7. HoldingInv' /\ ExclusiveInv'
  BY <1>6 DEF IndInv, HoldingInv, ExclusiveInv
<1> QED
  BY <1>4, <1>5, <1>7 DEF IndInv, PendingInv, LedgerInv, OneRedemption

LEMMA BeginInv ==
    ASSUME IndInv, NEW w \in Worker, NEW place \in Place, NEW kind \in Kind,
           NEW ip \in Ip, NEW id \in Id \cup {NoId}, NEW value \in Int,
           Begin(w, place, kind, ip, id, value),
           \/ place = "look" /\ kind = "spot"
           \/ place \in {"gate", "refresh"} /\ kind = "timed"
           \/ place = "attempt" \/ place = "serve"
    PROVE  IndInv'
<1> DEFINE k == Local(place, kind, ip, id, value)
<1>1. k \in Work /\ LocalInv(k) /\ k.took = NoChallenge
  BY DEF Local, Work, LocalInv
<1>2. Drops(w) /\ UNCHANGED <<now, challenges, attempts, ledger, passes>>
  BY <1>1 DEF Begin, Drops
<1> QED
  BY <1>2, DropsInv DEF AttemptsOK, IndInv, TypeOK

LEMMA ArriveInv ==
    ASSUME IndInv, NEW w \in Worker, Arrive(w)
    PROVE  IndInv'
<1>1. DOMAIN ledger \cup {NoId} \subseteq Id \cup {NoId}
  BY DEF IndInv, TypeOK
<1>2. /\ {"serve", "look", "attempt", "gate", "refresh"} \subseteq Place
      /\ {"spot", "jigsaw", "timed"} \subseteq Kind
      /\ Clicks \subseteq Int /\ 0 \in Int
  BY SetsAssumption DEF Place, Kind
<1>3. CASE Visit(w)
  <2>1. PICK kind \in Puzzle, ip \in Ip : Begin(w, "serve", kind, ip, NoId, 0)
    BY <1>3 DEF Visit
  <2>2. kind \in Kind /\ NoId \in Id \cup {NoId}
    BY DEF Kind, Puzzle
  <2> QED
    BY <1>2, <2>1, <2>2, BeginInv
<1>4. CASE AnswerSpot(w)
  <2>1. PICK ip \in Ip, id \in DOMAIN ledger \cup {NoId} :
           \/ \E value \in Clicks : Begin(w, "look", "spot", ip, id, value)
           \/ Begin(w, "serve", "spot", ip, id, 0)
    BY <1>4 DEF AnswerSpot
  <2>2. CASE \E value \in Clicks : Begin(w, "look", "spot", ip, id, value)
    BY <1>1, <1>2, <2>2, BeginInv
  <2>3. CASE Begin(w, "serve", "spot", ip, id, 0)
    BY <1>1, <1>2, <2>3, BeginInv
  <2> QED
    BY <2>1, <2>2, <2>3
<1>5. CASE AnswerJigsaw(w)
  <2>1. PICK ip \in Ip, id \in DOMAIN ledger \cup {NoId} :
           \/ \E value \in Clicks : Begin(w, "attempt", "jigsaw", ip, id, value)
           \/ Begin(w, "serve", "jigsaw", ip, id, 0)
    BY <1>5 DEF AnswerJigsaw
  <2>2. CASE \E value \in Clicks : Begin(w, "attempt", "jigsaw", ip, id, value)
    BY <1>1, <1>2, <2>2, BeginInv
  <2>3. CASE Begin(w, "serve", "jigsaw", ip, id, 0)
    BY <1>1, <1>2, <2>3, BeginInv
  <2> QED
    BY <2>1, <2>2, <2>3
<1>6. CASE AskWait(w)
  <2>1. PICK ip \in Ip, id \in DOMAIN ledger \cup {NoId},
             place \in {"gate", "refresh"} : Begin(w, place, "timed", ip, id, 0)
    BY <1>6 DEF AskWait
  <2> QED
    BY <1>1, <1>2, <2>1, BeginInv
<1> QED
  BY <1>3, <1>4, <1>5, <1>6 DEF Arrive

\* retryChallenge and the other ways of answering without a pass.
LEMMA RefusedInv ==
    ASSUME IndInv, NEW w \in Worker, work[w].pc # "idle",
           Finish(w) \/ ToServe(w), AttemptsOK(attempts'),
           UNCHANGED <<now, challenges, ledger>>
    PROVE  IndInv'
<1>1. Drops(w)
  BY FinishDrops, ToServeDrops
<1>2. UNCHANGED passes
  BY DEF Finish, ToServe
<1> QED
  BY <1>1, <1>2, DropsInv

LEMMA GotoInv ==
    ASSUME IndInv, NEW w \in Worker, work[w].pc # "idle",
           NEW place \in Place, Goto(w, place), AttemptsOK(attempts'),
           LocalInv(Local(place, work[w].asks, work[w].ip, work[w].id,
                          work[w].value)),
           UNCHANGED <<now, challenges, ledger>>
    PROVE  IndInv'
<1>1. work[w] \in Work /\ LocalInv(work[w])
  BY DEF IndInv, TypeOK
<1>2. work[w].asks \in Kind /\ work[w].value \in Int
  BY <1>1 DEF LocalInv, Work
<1>3. work' = [work EXCEPT ![w] = Local(place, work[w].asks, work[w].ip,
                                       work[w].id, work[w].value)]
  BY DEF Goto
<1>4. Drops(w)
  BY <1>2, <1>3, LocalDrops
<1>5. UNCHANGED passes
  BY DEF Goto
<1> QED
  BY <1>4, <1>5, DropsInv

\* The checks before a challenge is touched, and the page served next.
LEMMA CheckInv ==
    ASSUME IndInv, NEW w \in Worker,
           LookSpot(w) \/ Gate(w) \/ DenyWait(w) \/ Refresh(w) \/ Serve(w)
    PROVE  IndInv'
<1>1. /\ AttemptsOK(attempts') /\ work[w].pc # "idle"
      /\ UNCHANGED <<now, challenges, attempts, ledger>>
  BY DEF AttemptsOK, IndInv, TypeOK, LookSpot, Gate, DenyWait, Refresh, Serve
<1>2. /\ work[w] \in Work /\ LocalInv(work[w])
      /\ work[w].asks \in Kind /\ work[w].ip \in Ip
  BY <1>1 DEF IndInv, TypeOK, LocalInv
<1>3. "attempt" \in Place /\ "issue" \in Place /\ "serve" \in Place
      /\ Puzzle \subseteq Kind
  BY DEF Place, Puzzle, Kind
<1>4. \A place \in {"attempt", "issue"} :
         LocalInv(Local(place, work[w].asks, work[w].ip, work[w].id,
                        work[w].value))
  BY <1>2 DEF LocalInv, Local
<1>5. CASE Finish(w) \/ ToServe(w)
  BY <1>1, <1>5, RefusedInv
<1>6. CASE Goto(w, "attempt") \/ Goto(w, "issue")
  BY <1>1, <1>3, <1>4, <1>6, GotoInv
<1>7. ASSUME NEW kind \in Puzzle, UNCHANGED passes,
             work' = [work EXCEPT ![w] = Local("serve", kind, work[w].ip,
                                               work[w].id, 0)]
      PROVE  IndInv'
  <2>1. LocalInv(Local("serve", kind, work[w].ip, work[w].id, 0))
    BY <1>2, <1>3 DEF LocalInv, Local
  <2>2. kind \in Kind /\ 0 \in Int
    BY <1>3
  <2>3. Drops(w)
    BY <1>1, <1>3, <1>7, <2>1, <2>2, LocalDrops
  <2> QED
    BY <1>1, <1>7, <2>3, DropsInv
<1> QED
  BY <1>5, <1>6, <1>7
  DEF LookSpot, Gate, DenyWait, Refresh, Serve, Penalised

LEMMA AttemptInv ==
    ASSUME IndInv, NEW w \in Worker, Attempt(w)
    PROVE  IndInv'
<1>1. work[w].pc = "attempt" /\ UNCHANGED <<now, challenges, ledger>>
  BY DEF Attempt
<1>2. /\ work[w] \in Work /\ LocalInv(work[w])
      /\ work[w].asks \in Kind /\ work[w].ip \in Ip
  BY <1>1 DEF IndInv, TypeOK, LocalInv
<1>3. CountedAttempt(work[w].ip) \in [count : Nat, expires : Int]
  BY TimesAssumption, <1>2 DEF CountedAttempt, IndInv, TypeOK
<1>4. AttemptsOK(attempts')
  BY <1>2, <1>3 DEF Attempt, AttemptsOK, IndInv, TypeOK
<1>5. CASE ToServe(w)
  BY <1>1, <1>4, <1>5, RefusedInv
<1>6. CASE Goto(w, "poll") /\ work[w].asks = "timed"
  <2>1. LocalInv(Local("poll", work[w].asks, work[w].ip, work[w].id,
                       work[w].value))
    BY <1>2, <1>6 DEF LocalInv, Local
  <2> QED
    BY <1>1, <1>4, <1>6, <2>1, GotoInv DEF Place
<1>7. CASE Goto(w, "take") /\ work[w].asks # "timed"
  <2>1. LocalInv(Local("take", work[w].asks, work[w].ip, work[w].id,
                       work[w].value))
    BY <1>2, <1>7 DEF LocalInv, Local, Kind, Puzzle
  <2> QED
    BY <1>1, <1>4, <1>7, <2>1, GotoInv DEF Place
<1> QED
  BY <1>5, <1>6, <1>7 DEF Attempt

-----------------------------------------------------------------------------
(* Steps that redeem a challenge.                                          *)

\* What a worker's record becomes when it keeps a copy and a verdict.
LEMMA KeepWork ==
    ASSUME IndInv, NEW w \in Worker, work[w].pc # "idle",
           NEW place \in {"judge", "record"},
           NEW took \in Challenge \cup {NoChallenge},
           NEW verdict \in {"none", "passed", "failed", "automated"},
           Keep(w, place, took, verdict)
    PROVE  /\ work' \in [Worker -> Work]
           /\ \A v \in Worker \ {w} : work'[v] = work[v]
           /\ work'[w].pc = place /\ work'[w].asks = work[w].asks
           /\ work'[w].ip = work[w].ip /\ work'[w].id = work[w].id
           /\ work'[w].took = took /\ work'[w].verdict = verdict
<1>1. work \in [Worker -> Work] /\ work[w] \in Work
  BY DEF IndInv, TypeOK
<1>2. place \in Place
  BY DEF Place
<1> DEFINE k == [pc |-> place, asks |-> work[w].asks, ip |-> work[w].ip,
                 id |-> work[w].id, value |-> work[w].value,
                 took |-> took, verdict |-> verdict]
<1>3. k \in Work
  BY <1>1, <1>2 DEF Work
<1>4. work' = [work EXCEPT ![w] = k]
  BY DEF Keep
<1> QED
  BY <1>1, <1>3, <1>4

LEMMA TakeInv ==
    ASSUME IndInv, NEW w \in Worker, Take(w)
    PROVE  IndInv'
<1> DEFINE copy == IF Takes(w) = {} THEN NoChallenge ELSE challenges[work[w].id]
<1>1. /\ work[w].pc = "take" /\ work[w] \in Work /\ LocalInv(work[w])
      /\ UNCHANGED <<now, attempts, ledger, passes>>
      /\ Keep(w, "judge", copy, "none")
  BY DEF Take, Keep, IndInv, TypeOK
<1>2. /\ Takes(w) \subseteq DOMAIN challenges
      /\ Takes(w) # {} => Takes(w) = {work[w].id}
  BY DEF Takes
<1>3. copy \in Challenge \cup {NoChallenge}
  BY <1>2 DEF IndInv, TypeOK
<1>4. /\ work' \in [Worker -> Work]
      /\ \A v \in Worker \ {w} : work'[v] = work[v]
      /\ work'[w].pc = "judge" /\ work'[w].asks = work[w].asks
      /\ work'[w].ip = work[w].ip /\ work'[w].id = work[w].id
      /\ work'[w].took = copy /\ work'[w].verdict = "none"
  BY <1>1, <1>3, KeepWork
<1>5. /\ DOMAIN challenges' = DOMAIN challenges \ Takes(w)
      /\ \A id \in DOMAIN challenges' : challenges'[id] = challenges[id]
  BY DEF Take, Remove
<1>6. TypeOK'
  BY <1>1, <1>4, <1>5 DEF IndInv, TypeOK
<1>7. \A v \in Worker : LocalInv(work'[v])
  BY <1>1, <1>4 DEF IndInv, LocalInv
<1>8. PendingInv'
  BY <1>1, <1>5 DEF IndInv, PendingInv
<1>9. copy # NoChallenge =>
         /\ work[w].id \in DOMAIN challenges
         /\ work[w].id \notin DOMAIN challenges'
         /\ copy = challenges[work[w].id]
  BY <1>2, <1>5
<1>10. HoldingInv'
  BY <1>1, <1>4, <1>5, <1>9 DEF IndInv, HoldingInv, Holding, PendingInv
<1>11. \A v \in Worker \ {w} : Holding(v) => work[v].id \notin DOMAIN challenges
  BY DEF IndInv, HoldingInv
<1>12. ExclusiveInv'
  BY <1>4, <1>9, <1>11 DEF IndInv, ExclusiveInv, Holding
<1> QED
  BY <1>1, <1>6, <1>7, <1>8, <1>10, <1>12 DEF IndInv, LedgerInv, OneRedemption

\* Judging says passed only of a true copy of the handler's own kind.
LEMMA JudgedType ==
    ASSUME IndInv, NEW w \in Worker, work[w].pc = "judge"
    PROVE  /\ Judged(w) \in {"passed", "failed", "automated"}
           /\ Judged(w) = "passed" =>
                 /\ Holding(w)
                 /\ work[w].took.kind = work[w].asks
                 /\ ~Expired(work[w].took) /\ ~TooFast(work[w].took)
                 /\ Hit(work[w].took, work[w].value)
<1>1. work[w].asks \in Puzzle /\ "none" \notin Puzzle
  BY DEF IndInv, LocalInv, Puzzle
<1>2. Judged(w) = "passed" =>
         /\ work[w].took.kind = work[w].asks
         /\ ~Expired(work[w].took) /\ ~TooFast(work[w].took)
         /\ Hit(work[w].took, work[w].value)
  BY DEF Judged
<1>3. Judged(w) = "passed" => Holding(w)
  BY <1>1, <1>2 DEF Holding, NoChallenge
<1> QED
  BY <1>2, <1>3 DEF Judged

LEMMA JudgeSpotInv ==
    ASSUME IndInv, NEW w \in Worker, JudgeSpot(w)
    PROVE  IndInv'
<1>1. /\ work[w].pc = "judge" /\ work[w].asks = "spot"
      /\ work[w] \in Work /\ LocalInv(work[w])
      /\ UNCHANGED <<now, challenges, attempts, ledger, passes>>
      /\ Keep(w, "record", work[w].took, Judged(w))
  BY DEF JudgeSpot, Keep, IndInv, TypeOK
<1>2. work[w].took \in Challenge \cup {NoChallenge}
  BY <1>1 DEF Work
<1>3. /\ Judged(w) \in {"none", "passed", "failed", "automated"}
      /\ Judged(w) = "passed" => work[w].took # NoChallenge
  BY <1>1, JudgedType DEF Holding
<1>4. /\ work' \in [Worker -> Work]
      /\ \A v \in Worker \ {w} : work'[v] = work[v]
      /\ work'[w].pc = "record" /\ work'[w].asks = work[w].asks
      /\ work'[w].ip = work[w].ip /\ work'[w].id = work[w].id
      /\ work'[w].took = work[w].took /\ work'[w].verdict = Judged(w)
  BY <1>1, <1>2, <1>3, KeepWork
<1>5. TypeOK'
  BY <1>1, <1>4 DEF IndInv, TypeOK
<1>6. \A v \in Worker : LocalInv(work'[v])
  BY <1>1, <1>3, <1>4 DEF IndInv, LocalInv
<1>7. \A v \in Worker : work'[v].took = work[v].took /\ work'[v].id = work[v].id
  BY <1>4
<1>8. HoldingInv' /\ ExclusiveInv'
  BY <1>1, <1>7 DEF IndInv, HoldingInv, ExclusiveInv, Holding
<1> QED
  BY <1>1, <1>5, <1>6, <1>8
  DEF IndInv, PendingInv, LedgerInv, OneRedemption

\* Passing with a challenge that is issued, never redeemed, and in nobody
\* else's hands nor in the table afterwards.
LEMMA PassInv ==
    ASSUME IndInv, NEW w \in Worker, Pass(w),
           UNCHANGED <<now, attempts, ledger>>,
           NEW id \in DOMAIN ledger, work[w].id = id, passes[id] = 0,
           DOMAIN challenges' = DOMAIN challenges \ {id},
           \A i \in DOMAIN challenges' : challenges'[i] = challenges[i],
           \A v \in Worker \ {w} : Holding(v) => work[v].id # id
    PROVE  IndInv'
<1>1. /\ work \in [Worker -> Work] /\ passes \in [Id -> Nat]
      /\ DOMAIN ledger \subseteq Id /\ id \in Id
  BY DEF IndInv, TypeOK
<1>2. /\ work' = [work EXCEPT ![w] = Idle]
      /\ passes' = [passes EXCEPT ![id] = 1]
  BY <1>1 DEF Pass
<1>3. /\ work' \in [Worker -> Work]
      /\ \A v \in Worker : work'[v] = IF v = w THEN Idle ELSE work[v]
  BY <1>1, <1>2, IdleWork
<1>4. /\ passes' \in [Id -> Nat]
      /\ \A i \in Id : passes'[i] = IF i = id THEN 1 ELSE passes[i]
  BY <1>1, <1>2
<1>5. TypeOK'
  BY <1>3, <1>4 DEF IndInv, TypeOK
<1>6. \A v \in Worker : LocalInv(work'[v])
  BY <1>3, IdleWork DEF IndInv
<1>7. \A v \in Worker : Holding(v)' =>
         v # w /\ Holding(v) /\ work'[v] = work[v] /\ work[v].id # id
  BY <1>3, IdleWork DEF Holding
<1>8. HoldingInv' /\ ExclusiveInv'
  BY <1>1, <1>4, <1>7 DEF IndInv, HoldingInv, ExclusiveInv, TypeOK
<1>9. PendingInv'
  BY <1>1, <1>4 DEF IndInv, PendingInv, TypeOK
<1>10. LedgerInv' /\ OneRedemption'
  BY <1>4 DEF IndInv, LedgerInv, OneRedemption
<1> QED
  BY <1>5, <1>6, <1>8, <1>9, <1>10 DEF IndInv

\* A pass from a copy: JudgeJigsaw and Record.
LEMMA CopyPassInv ==
    ASSUME IndInv, NEW w \in Worker, Pass(w), Holding(w),
           UNCHANGED <<now, challenges, attempts, ledger>>
    PROVE  IndInv'
<1>1. /\ work[w].id \in DOMAIN ledger \ DOMAIN challenges
      /\ passes[work[w].id] = 0
  BY DEF IndInv, HoldingInv
<1>2. \A v \in Worker \ {w} : Holding(v) => work[v].id # work[w].id
  BY DEF IndInv, ExclusiveInv
<1>3. /\ DOMAIN challenges' = DOMAIN challenges \ {work[w].id}
      /\ \A i \in DOMAIN challenges' : challenges'[i] = challenges[i]
  BY <1>1
<1> QED
  BY <1>1, <1>2, <1>3, PassInv

LEMMA RedeemInv ==
    ASSUME IndInv, NEW w \in Worker,
           JudgeJigsaw(w) \/ Record(w) \/ Poll(w)
    PROVE  IndInv'
<1>1. /\ work[w].pc # "idle" /\ AttemptsOK(attempts')
      /\ UNCHANGED <<now, attempts, ledger>>
  BY DEF JudgeJigsaw, Record, Poll, AttemptsOK, IndInv, TypeOK
<1>2. CASE (Finish(w) \/ ToServe(w)) /\ UNCHANGED challenges
  BY <1>1, <1>2, RefusedInv
<1>3. CASE JudgeJigsaw(w) /\ Pass(w)
  <2>1. work[w].pc = "judge" /\ UNCHANGED challenges
    BY <1>3 DEF JudgeJigsaw
  <2>2. CASE Judged(w) = "passed"
    BY <1>1, <1>3, <2>1, <2>2, JudgedType, CopyPassInv
  <2>3. CASE Judged(w) # "passed"
    BY <1>1, <1>3, <2>1, <2>3, RefusedInv DEF JudgeJigsaw, Penalised
  <2> QED
    BY <2>2, <2>3
<1>4. CASE work[w].verdict = "passed" /\ Pass(w) /\ UNCHANGED challenges
  <2>1. Holding(w)
    BY <1>4 DEF IndInv, LocalInv, Holding
  <2> QED
    BY <1>1, <1>4, <2>1, CopyPassInv
<1>5. CASE /\ Live(work[w].id, "timed") /\ Pass(w)
           /\ challenges' = Remove({work[w].id})
  <2>1. work[w].id \in DOMAIN ledger /\ passes[work[w].id] = 0
    BY <1>5 DEF Live, IndInv, PendingInv
  <2>2. \A v \in Worker \ {w} : Holding(v) => work[v].id # work[w].id
    BY <1>5 DEF Live, IndInv, HoldingInv
  <2>3. /\ DOMAIN challenges' = DOMAIN challenges \ {work[w].id}
        /\ \A i \in DOMAIN challenges' : challenges'[i] = challenges[i]
    BY <1>5 DEF Remove
  <2> QED
    BY <1>1, <1>5, <2>1, <2>2, <2>3, PassInv
<1> QED
  BY <1>2, <1>3, <1>4, <1>5 DEF JudgeJigsaw, Record, Poll, Penalised

-----------------------------------------------------------------------------
(* Steps that issue and expire challenges.                                 *)

\* Dropping entries of the table, nothing else changing but attempts.
LEMMA RemoveInv ==
    ASSUME IndInv, NEW table,
           DOMAIN table \subseteq DOMAIN challenges,
           \A id \in DOMAIN table : table[id] = challenges[id],
           challenges' = table, AttemptsOK(attempts'),
           UNCHANGED <<now, work, ledger, passes>>
    PROVE  IndInv'
<1>1. TypeOK'
  BY DEF IndInv, TypeOK, AttemptsOK
<1>2. PendingInv' /\ HoldingInv' /\ ExclusiveInv'
  BY DEF IndInv, PendingInv, HoldingInv, ExclusiveInv, Holding
<1>3. \A w \in Worker : LocalInv(work'[w])
  BY DEF IndInv
<1> QED
  BY <1>1, <1>2, <1>3 DEF IndInv, LedgerInv, OneRedemption

\* Purging keeps entries as they are.
LEMMA PurgedTable ==
    /\ DOMAIN Purged \subseteq DOMAIN challenges
    /\ \A id \in DOMAIN Purged : Purged[id] = challenges[id]
BY DEF Purged, Remove

\* A drawn id is new everywhere: in the table, in the ledger, in every
\* handler's hands.
LEMMA StoreInv ==
    ASSUME IndInv, NEW w \in Worker, Finish(w), work[w].asks \in Kind,
           NEW id \in Id \ DOMAIN ledger,
           NEW c \in NewChallenges(work[w].asks),
           challenges' = Store(Purged, id, c), ledger' = Store(ledger, id, c),
           UNCHANGED <<now, attempts>>
    PROVE  IndInv'
<1>1. c \in Challenge /\ c.issued = now
  BY NewChallengesType DEF IndInv, TypeOK
<1>2. /\ DOMAIN challenges' = DOMAIN Purged \cup {id}
      /\ \A i \in DOMAIN challenges' :
            challenges'[i] = IF i = id THEN c ELSE challenges[i]
  BY PurgedTable DEF Store
<1>3. /\ DOMAIN ledger' = DOMAIN ledger \cup {id}
      /\ \A i \in DOMAIN ledger' : ledger'[i] = IF i = id THEN c ELSE ledger[i]
  BY DEF Store
<1>4. work \in [Worker -> Work] /\ work' = [work EXCEPT ![w] = Idle]
  BY DEF Finish, IndInv, TypeOK
<1>5. /\ work' \in [Worker -> Work]
      /\ \A v \in Worker : work'[v] = IF v = w THEN Idle ELSE work[v]
  BY <1>4, IdleWork
<1>6. UNCHANGED <<now, attempts, passes>>
  BY DEF Finish
<1>7. TypeOK'
  BY <1>1, <1>2, <1>3, <1>5, <1>6, PurgedTable DEF IndInv, TypeOK
<1>8. \A v \in Worker : LocalInv(work'[v])
  BY <1>5, IdleWork DEF IndInv
<1>9. passes[id] = 0
  BY DEF IndInv, LedgerInv
<1>10. PendingInv'
  BY <1>2, <1>3, <1>6, <1>9, PurgedTable DEF IndInv, PendingInv
<1>11. \A v \in Worker : Holding(v)' =>
         Holding(v) /\ work'[v] = work[v] /\ work[v].id # id
  BY <1>5, IdleWork DEF Holding, IndInv, HoldingInv
<1>12. HoldingInv' /\ ExclusiveInv'
  <2>1. ASSUME NEW v \in Worker, Holding(v)'
        PROVE  /\ work'[v].id \in DOMAIN ledger' \ DOMAIN challenges'
               /\ work'[v].took = ledger'[work'[v].id]
               /\ passes'[work'[v].id] = 0
    <3>1. /\ work[v].id \in DOMAIN ledger \ DOMAIN challenges
          /\ work[v].took = ledger[work[v].id] /\ passes[work[v].id] = 0
      BY <1>11, <2>1 DEF IndInv, HoldingInv
    <3>2. work'[v] = work[v] /\ work[v].id # id
      BY <1>11, <2>1
    <3> QED
      BY <1>2, <1>3, <1>6, <3>1, <3>2, PurgedTable
  <2>2. HoldingInv'
    BY <2>1 DEF HoldingInv
  <2>3. ExclusiveInv'
    BY <1>11 DEF IndInv, ExclusiveInv
  <2> QED
    BY <2>2, <2>3
<1>13. LedgerInv' /\ OneRedemption'
  BY <1>1, <1>3, <1>6 DEF IndInv, TypeOK, LedgerInv, OneRedemption
<1> QED
  BY <1>7, <1>8, <1>10, <1>12, <1>13 DEF IndInv

LEMMA IssueInv ==
    ASSUME IndInv, NEW w \in Worker, Issue(w)
    PROVE  IndInv'
<1>1. /\ work[w].pc = "issue" /\ work[w].asks \in Kind
      /\ Finish(w) /\ UNCHANGED <<now, attempts>>
  BY DEF Issue, IndInv, LocalInv
<1>2. AttemptsOK(attempts')
  BY <1>1 DEF AttemptsOK, IndInv, TypeOK
<1>3. CASE \E id \in Id \ DOMAIN ledger, c \in NewChallenges(work[w].asks) :
              /\ challenges' = Store(Purged, id, c)
              /\ ledger' = Store(ledger, id, c)
  BY <1>1, <1>3, StoreInv
<1>4. CASE challenges' = Purged /\ UNCHANGED ledger
  <2>1. Drops(w) /\ UNCHANGED passes
    BY <1>1, FinishDrops DEF Finish
  <2>2. /\ DOMAIN challenges' \subseteq DOMAIN challenges
        /\ \A id \in DOMAIN challenges' : challenges'[id] = challenges[id]
    BY <1>4, PurgedTable
  <2>3. work \in [Worker -> Work] /\ work' = [work EXCEPT ![w] = Idle]
    BY <1>1 DEF Finish, IndInv, TypeOK
  <2>4. /\ work' \in [Worker -> Work]
        /\ \A v \in Worker : work'[v] = IF v = w THEN Idle ELSE work[v]
    BY <2>3, IdleWork
  <2>5. TypeOK'
    BY <1>1, <1>4, <2>1, <2>2, <2>4 DEF IndInv, TypeOK
  <2>6. \A v \in Worker : LocalInv(work'[v])
    BY <2>4, IdleWork DEF IndInv
  <2>7. \A v \in Worker : Holding(v)' => Holding(v) /\ work'[v] = work[v]
    BY <2>4, IdleWork DEF Holding
  <2>8. HoldingInv' /\ ExclusiveInv'
    BY <1>4, <2>1, <2>2, <2>7 DEF IndInv, HoldingInv, ExclusiveInv
  <2>9. PendingInv' /\ LedgerInv' /\ OneRedemption'
    BY <1>1, <1>4, <2>1, <2>2 DEF IndInv, PendingInv, LedgerInv, OneRedemption
  <2> QED
    BY <2>5, <2>6, <2>8, <2>9 DEF IndInv
<1>5. CASE UNCHANGED <<challenges, ledger>>
  BY <1>1, <1>2, <1>5, RefusedInv
<1> QED
  BY <1>3, <1>4, <1>5 DEF Issue

LEMMA SweepInv ==
    ASSUME IndInv, Sweep
    PROVE  IndInv'
<1>1. AttemptsOK(attempts')
  BY DEF Sweep, AttemptsOK, IndInv, TypeOK
<1>2. /\ DOMAIN challenges' \subseteq DOMAIN challenges
      /\ \A id \in DOMAIN challenges' : challenges'[id] = challenges[id]
  BY DEF Sweep, Remove
<1> QED
  BY <1>1, <1>2, RemoveInv DEF Sweep

LEMMA TickInv ==
    ASSUME IndInv, Tick
    PROVE  IndInv'
<1>1. now' \in Nat /\ now <= now'
  BY DEF Tick, IndInv, TypeOK
<1>2. UNCHANGED <<challenges, attempts, work, ledger, passes>>
  BY DEF Tick
<1>3. TypeOK'
  BY <1>1, <1>2 DEF IndInv, TypeOK
<1>4. LedgerInv'
  BY <1>1, <1>2 DEF IndInv, LedgerInv, TypeOK, Challenge
<1> QED
  BY <1>2, <1>3, <1>4
  DEF IndInv, PendingInv, HoldingInv, ExclusiveInv, Holding, OneRedemption

-----------------------------------------------------------------------------
(* The inductive invariant, and what it gives.                             *)

LEMMA InitInv == Init => IndInv
<1> SUFFICES ASSUME Init PROVE IndInv
  OBVIOUS
<1>1. \A w \in Worker : work[w] = Idle
  BY DEF Init
<1>2. TypeOK
  BY IdleWork DEF Init, TypeOK
<1>3. \A w \in Worker : LocalInv(work[w]) /\ ~Holding(w)
  BY <1>1, IdleWork DEF Holding
<1> QED
  BY <1>2, <1>3
  DEF Init, IndInv, PendingInv, HoldingInv, ExclusiveInv, LedgerInv, OneRedemption

LEMMA StutterInv ==
    ASSUME IndInv, UNCHANGED vars
    PROVE  IndInv'
<1>1. UNCHANGED <<now, challenges, attempts, work, ledger, passes>>
  BY DEF vars
<1>2. TypeOK' /\ PendingInv' /\ LedgerInv' /\ OneRedemption'
  BY <1>1 DEF IndInv, TypeOK, PendingInv, LedgerInv, OneRedemption
<1>3. HoldingInv' /\ ExclusiveInv'
  BY <1>1 DEF IndInv, HoldingInv, ExclusiveInv, Holding
<1> QED
  BY <1>1, <1>2, <1>3 DEF IndInv

LEMMA NextInv == IndInv /\ [Next]_vars => IndInv'
<1> SUFFICES ASSUME IndInv, [Next]_vars PROVE IndInv'
  OBVIOUS
<1>1. ASSUME NEW w \in Worker, Arrive(w) PROVE IndInv'
  BY <1>1, ArriveInv
<1>2. ASSUME NEW w \in Worker, Handler(w) PROVE IndInv'
  <2>1. CASE LookSpot(w) \/ Gate(w) \/ DenyWait(w) \/ Refresh(w) \/ Serve(w)
    BY <2>1, CheckInv
  <2>2. CASE Attempt(w)
    BY <2>2, AttemptInv
  <2>3. CASE Take(w)
    BY <2>3, TakeInv
  <2>4. CASE JudgeSpot(w)
    BY <2>4, JudgeSpotInv
  <2>5. CASE JudgeJigsaw(w) \/ Record(w) \/ Poll(w)
    BY <2>5, RedeemInv
  <2>6. CASE Issue(w)
    BY <2>6, IssueInv
  <2> QED
    BY <1>2, <2>1, <2>2, <2>3, <2>4, <2>5, <2>6 DEF Handler
<1>3. CASE Sweep
  BY <1>3, SweepInv
<1>4. CASE Tick
  BY <1>4, TickInv
<1>5. CASE UNCHANGED vars
  BY <1>5, StutterInv
<1> QED
  BY <1>1, <1>2, <1>3, <1>4, <1>5 DEF Next

\* The inductive invariant holds in every reachable state.
THEOREM Invariance == Spec => []IndInv
BY InitInv, NextInv, PTL DEF Spec

\* Type correctness of the challenge table, the handlers' locals and the
\* histories (sliderChallengeStore and the verify handlers).
THEOREM TypeCorrect == Spec => []TypeOK
<1>1. IndInv => TypeOK
  BY DEF IndInv
<1> QED
  BY <1>1, Invariance, PTL

\* One solved challenge buys at most one cookie, for any number of requests
\* racing on any number of ids (consume, consumeJigsaw, consumeTimed).
THEOREM RedeemedOnce == Spec => []OneRedemption
<1>1. IndInv => OneRedemption
  BY DEF IndInv
<1> QED
  BY <1>1, Invariance, PTL

-----------------------------------------------------------------------------
(* Honest passes.                                                          *)

\* A step of the system is a step of one worker, or no worker moves.
LEMMA OneMoves ==
    ASSUME IndInv, [Next]_vars
    PROVE  \/ UNCHANGED <<work, passes>>
           \/ \E w \in Worker :
                 /\ Arrive(w) \/ Handler(w)
                 /\ \A v \in Worker \ {w} : work'[v] = work[v]
<1>0. work \in [Worker -> Work]
  BY DEF IndInv, TypeOK
<1>1. ASSUME NEW w \in Worker, NEW k, work' = [work EXCEPT ![w] = k]
      PROVE  \A v \in Worker \ {w} : work'[v] = work[v]
  BY <1>0, <1>1
<1>2. ASSUME NEW w \in Worker,
             Finish(w) \/ ToServe(w) \/ Pass(w) \/ (\E p \in Place : Goto(w, p))
      PROVE  \A v \in Worker \ {w} : work'[v] = work[v]
  BY <1>1, <1>2 DEF Finish, ToServe, Pass, Goto
<1>3. ASSUME NEW w \in Worker, Handler(w)
      PROVE  \A v \in Worker \ {w} : work'[v] = work[v]
  <2>1. {"attempt", "poll", "take", "issue"} \subseteq Place
    BY DEF Place
  <2>2. CASE LookSpot(w) \/ Gate(w) \/ Refresh(w) \/ Serve(w) \/ Attempt(w)
             \/ JudgeJigsaw(w) \/ Record(w) \/ Poll(w) \/ Issue(w)
    BY <1>2, <2>1, <2>2
    DEF LookSpot, Gate, Refresh, Serve, Attempt, JudgeJigsaw, Record, Poll,
        Issue, Penalised
  <2>3. CASE DenyWait(w)
    BY <1>1, <1>2, <2>3 DEF DenyWait
  <2>4. CASE Take(w) \/ JudgeSpot(w)
    BY <1>1, <2>4 DEF Take, JudgeSpot, Keep
  <2> QED
    BY <1>3, <2>2, <2>3, <2>4 DEF Handler
<1>4. ASSUME NEW w \in Worker, Arrive(w)
      PROVE  \A v \in Worker \ {w} : work'[v] = work[v]
  BY <1>1, <1>4 DEF Arrive, Visit, AnswerSpot, AnswerJigsaw, AskWait, Begin
<1> QED
  BY <1>3, <1>4 DEF Next, Sweep, Tick, vars

\* A handler that judges a copy passed judges it honestly.
LEMMA JudgedHonest ==
    ASSUME IndInv, NEW w \in Worker, work[w].pc = "judge",
           Judged(w) = "passed", UNCHANGED challenges
    PROVE  Honest(w)
<1>1. /\ Holding(w) /\ work[w].took.kind = work[w].asks
      /\ ~Expired(work[w].took) /\ ~TooFast(work[w].took)
      /\ Hit(work[w].took, work[w].value)
  BY JudgedType
<1>2. /\ work[w].id \in DOMAIN ledger \ DOMAIN challenges
      /\ work[w].took = ledger[work[w].id]
  BY <1>1 DEF IndInv, HoldingInv
<1> DEFINE c == ledger[work[w].id]
<1>3. c \in Challenge /\ c.issued <= now /\ now \in Nat
  BY <1>2 DEF IndInv, TypeOK, LedgerInv
<1>4. c.issued \in Int /\ c.expires \in Int
  BY <1>3 DEF Challenge
<1>5. now <= c.expires
  BY <1>1, <1>2, <1>3, <1>4 DEF Expired
<1>6. now - c.issued >= MinSolve
  BY <1>1, <1>2, <1>3, <1>4, TimesAssumption DEF TooFast
<1>7. c.kind # "timed"
  BY <1>1, <1>2 DEF IndInv, LocalInv, Puzzle
<1> QED
  BY <1>1, <1>2, <1>5, <1>6, <1>7 DEF Honest

LEMMA PolledHonest ==
    ASSUME IndInv, NEW w \in Worker, Poll(w), Pass(w)
    PROVE  Honest(w)
<1>1. work[w].pc = "poll" /\ work[w].asks = "timed"
  BY DEF Poll, IndInv, LocalInv
<1>2. ~ToServe(w)
  <2>1. work' = [work EXCEPT ![w] = Idle] /\ work \in [Worker -> Work]
    BY DEF Pass, IndInv, TypeOK
  <2>2. work'[w] = Idle
    BY <2>1
  <2>3. ToServe(w) => work'[w] = Local("serve", work[w].asks, work[w].ip,
                                       work[w].id, 0)
    BY <2>1 DEF ToServe
  <2> QED
    BY <2>2, <2>3 DEF Idle, Local
<1>3. /\ Live(work[w].id, "timed")
      /\ Remaining(challenges[work[w].id]) <= 0
      /\ challenges' = Remove({work[w].id})
  BY <1>2 DEF Poll
<1> DEFINE c == ledger[work[w].id]
<1>4. /\ work[w].id \in DOMAIN ledger /\ challenges[work[w].id] = c
      /\ c \in Challenge /\ now \in Nat
  BY <1>3 DEF Live, IndInv, PendingInv, TypeOK
<1>5. c.issued \in Int /\ c.expires \in Int
  BY <1>4 DEF Challenge
<1>6. c.kind = "timed" /\ now <= c.expires
  BY <1>3, <1>4, <1>5 DEF Live, Expired
<1>7. now - c.issued >= Wait
  BY <1>3, <1>4, <1>5, TimesAssumption DEF Remaining
<1>8. work[w].id \notin DOMAIN challenges'
  BY <1>3 DEF Remove
<1> QED
  BY <1>1, <1>4, <1>6, <1>7, <1>8 DEF Honest

\* Only the judging of a spot puzzle leaves a verdict of passed behind.
LEMMA VerdictStep ==
    ASSUME IndInv, NEW w \in Worker, Handler(w), work[w].pc = "judge",
           work'[w].verdict = "passed"
    PROVE  JudgeSpot(w) /\ Judged(w) = "passed"
<1>1. work \in [Worker -> Work]
  BY DEF IndInv, TypeOK
<1>2. JudgeSpot(w) \/ JudgeJigsaw(w)
  BY DEF Handler, LookSpot, Gate, DenyWait, Refresh, Attempt, Take, Record,
         Poll, Serve, Issue
<1>3. ~JudgeJigsaw(w)
  <2>1. Pass(w) \/ Finish(w) \/ ToServe(w) => work'[w].verdict = "none"
    BY <1>1 DEF Pass, Finish, ToServe, Idle, Local
  <2> QED
    BY <2>1 DEF JudgeJigsaw, Penalised
<1>4. JudgeSpot(w) => work'[w].verdict = Judged(w)
  BY <1>1 DEF JudgeSpot, Keep
<1> QED
  BY <1>2, <1>3, <1>4

\* Only a redeeming step adds a pass.
LEMMA PassStep ==
    ASSUME IndInv, NEW w \in Worker, Arrive(w) \/ Handler(w),
           passes' # passes
    PROVE  Pass(w) /\ (JudgeJigsaw(w) \/ Record(w) \/ Poll(w))
<1>1. ~Arrive(w)
  BY DEF Arrive, Visit, AnswerSpot, AnswerJigsaw, AskWait, Begin
<1>2. ~Finish(w) /\ ~ToServe(w) /\ \A p : ~Goto(w, p)
  BY DEF Finish, ToServe, Goto
<1>3. ~(LookSpot(w) \/ Gate(w) \/ Refresh(w) \/ Serve(w) \/ Attempt(w))
  BY <1>2 DEF LookSpot, Gate, Refresh, Serve, Attempt, Penalised
<1>4. ~(DenyWait(w) \/ Take(w) \/ JudgeSpot(w) \/ Issue(w))
  BY <1>2 DEF DenyWait, Take, JudgeSpot, Keep, Issue
<1>5. JudgeJigsaw(w) \/ Record(w) \/ Poll(w)
  BY <1>1, <1>3, <1>4 DEF Handler
<1> QED
  BY <1>2, <1>5 DEF JudgeJigsaw, Record, Poll, Penalised

LEMMA GrantsHonest ==
    ASSUME IndInv, [Next]_vars, NEW w \in Worker, Grants(w)
    PROVE  Honest(w)
<1>1. work[w].pc = "judge" => work[w].verdict = "none"
  BY DEF IndInv, LocalInv
<1>2. ~UNCHANGED <<work, passes>> /\ work'[w] # work[w]
  BY <1>1 DEF Grants
<1>3. Arrive(w) \/ Handler(w)
  BY <1>2, OneMoves
<1>4. CASE work[w].pc = "judge" /\ work'[w].verdict = "passed"
  <2>1. Handler(w)
    BY <1>3, <1>4 DEF Arrive, Visit, AnswerSpot, AnswerJigsaw, AskWait, Begin
  <2>2. JudgeSpot(w) /\ Judged(w) = "passed"
    BY <1>4, <2>1, VerdictStep
  <2> QED
    BY <1>4, <2>2, JudgedHonest DEF JudgeSpot
<1>5. CASE work[w].asks # "spot" /\ passes' # passes
  <2>1. Pass(w) /\ (JudgeJigsaw(w) \/ Record(w) \/ Poll(w))
    BY <1>3, <1>5, PassStep
  <2>2. CASE Poll(w)
    BY <2>1, <2>2, PolledHonest
  <2>3. CASE JudgeJigsaw(w)
    <3>1. work[w].pc = "judge" /\ UNCHANGED challenges
      BY <2>3 DEF JudgeJigsaw
    <3>2. ~Finish(w) /\ ~ToServe(w)
      BY <1>5 DEF Finish, ToServe
    <3>3. Judged(w) = "passed"
      BY <2>3, <3>2 DEF JudgeJigsaw, Penalised
    <3> QED
      BY <3>1, <3>3, JudgedHonest
  <2>4. ~Record(w)
    BY <1>5 DEF Record, IndInv, LocalInv
  <2> QED
    BY <2>1, <2>2, <2>3, <2>4
<1> QED
  BY <1>4, <1>5 DEF Grants

\* A pass is honest and timely in every step of every behaviour: the handler
\* judges a copy it took earlier, by a clock it reads later, and is still
\* right about what was issued (consume, consumeJigsaw, consumeTimed).
THEOREM PassedHonestly == Spec => HonestPass
<1>1. IndInv /\ [Next]_vars => \A w \in Worker : Grants(w) => Honest(w)
  BY GrantsHonest
<1>2. IndInv /\ [Next]_vars => [\A w \in Worker : Grants(w) => Honest(w)]_vars
  BY <1>1
<1> QED
  BY <1>2, Invariance, PTL DEF Spec, HonestPass

-----------------------------------------------------------------------------
(* The implementation of one-shot tickets.                                 *)

Shown(id) == id \in DOMAIN challenges \/ Held(id)

\* What is shown was issued and never redeemed.
LEMMA ShownPending ==
    ASSUME IndInv, NEW id \in Id, Shown(id)
    PROVE  TicketStatus[id] = "pending" /\ id \in DOMAIN ledger
<1>1. id \in DOMAIN ledger /\ passes[id] = 0
  BY DEF Shown, Held, IndInv, PendingInv, HoldingInv
<1> QED
  BY <1>1 DEF TicketStatus, Shown

\* A step that redeems and issues nothing, and shows nothing new, voids the
\* tickets it stops showing, if any.
LEMMA QuietStep ==
    ASSUME IndInv, UNCHANGED <<passes, ledger>>,
           \A id \in Id : Shown(id)' => Shown(id)
    PROVE  Tickets!Next
<1> DEFINE dropped == {id \in Id : Shown(id) /\ ~Shown(id)'}
<1>1. dropped \subseteq Tickets!Pending
  BY ShownPending DEF Tickets!Pending
<1>2. ASSUME NEW id \in Id
      PROVE  TicketStatus'[id] = IF id \in dropped THEN "void"
                                 ELSE TicketStatus[id]
  <2>1. CASE Shown(id)
    <3>1. /\ TicketStatus[id] = "pending" /\ id \in DOMAIN ledger
          /\ passes[id] = 0
      BY <2>1, ShownPending DEF TicketStatus, IndInv, TypeOK
    <3> QED
      BY <2>1, <3>1 DEF TicketStatus, Shown
  <2>2. CASE ~Shown(id)
    <3>1. ~Shown(id)'
      BY <2>2
    <3> QED
      BY <2>2, <3>1 DEF TicketStatus, Shown
  <2> QED
    BY <2>1, <2>2
<1>3. TicketStatus' = [id \in Id |-> IF id \in dropped THEN "void"
                                     ELSE TicketStatus[id]]
  <2>1. TicketStatus' = [id \in Id |-> TicketStatus'[id]]
    BY DEF TicketStatus
  <2> QED
    BY <1>2, <2>1
<1>4. Tickets!Void(dropped)
  BY <1>1, <1>3 DEF Tickets!Void
<1> QED
  BY <1>1, <1>4 DEF Tickets!Next

\* A worker that passes redeems a ticket that was shown.
LEMMA RedeemStep ==
    ASSUME IndInv, IndInv', NEW w \in Worker, Pass(w), UNCHANGED ledger,
           work[w].id \in Id, Shown(work[w].id),
           \A id \in Id \ {work[w].id} : Shown(id)' <=> Shown(id)
    PROVE  Tickets!Next
<1> DEFINE t == work[w].id
<1>1. TicketStatus[t] = "pending"
  BY ShownPending
<1>2. passes \in [Id -> Nat] /\ passes' = [passes EXCEPT ![t] = @ + 1]
  BY DEF Pass, IndInv, TypeOK
<1>3. passes'[t] > 0 /\ \A id \in Id \ {t} : passes'[id] = passes[id]
  BY <1>2
<1>4. TicketStatus' = [TicketStatus EXCEPT ![t] = "redeemed"]
  <2>1. ASSUME NEW id \in Id
        PROVE  TicketStatus'[id] = IF id = t THEN "redeemed" ELSE TicketStatus[id]
    BY <1>3 DEF TicketStatus, Shown
  <2>2. TicketStatus' = [id \in Id |-> TicketStatus'[id]]
    BY DEF TicketStatus
  <2>3. TicketStatus = [id \in Id |-> TicketStatus[id]]
    BY DEF TicketStatus
  <2> QED
    BY <2>1, <2>2, <2>3
<1> QED
  BY <1>1, <1>2, <1>4 DEF Tickets!Next, Tickets!Redeem

\* A worker that draws a challenge issues its ticket, voiding what it purges.
LEMMA IssueStep ==
    ASSUME IndInv, UNCHANGED passes, NEW t \in Id \ DOMAIN ledger,
           DOMAIN ledger' = DOMAIN ledger \cup {t}, Shown(t)',
           \A id \in Id \ {t} : Shown(id)' => Shown(id)
    PROVE  Tickets!Next
<1> DEFINE dropped == {id \in Id \ {t} : Shown(id) /\ ~Shown(id)'}
<1>1. dropped \subseteq Tickets!Pending /\ dropped \in SUBSET Tickets!Pending
  BY ShownPending DEF Tickets!Pending
<1>2. ~Shown(t) /\ passes[t] = 0
  BY ShownPending DEF IndInv, LedgerInv
<1>3. TicketStatus[t] = "unissued"
  BY <1>2 DEF TicketStatus, Shown
<1>4. TicketStatus'[t] = "pending"
  BY <1>2 DEF TicketStatus, Shown
<1>5. ASSUME NEW id \in Id \ {t}
      PROVE  TicketStatus'[id] = IF id \in dropped THEN "void"
                                 ELSE TicketStatus[id]
  <2>1. CASE Shown(id)
    <3>1. /\ TicketStatus[id] = "pending" /\ id \in DOMAIN ledger
          /\ passes[id] = 0
      BY <2>1, ShownPending DEF TicketStatus, IndInv, TypeOK
    <3> QED
      BY <2>1, <3>1 DEF TicketStatus, Shown
  <2>2. CASE ~Shown(id)
    <3>1. ~Shown(id)'
      BY <2>2
    <3> QED
      BY <2>2, <3>1 DEF TicketStatus, Shown
  <2> QED
    BY <2>1, <2>2
<1>6. TicketStatus' = [id \in Id |-> IF id = t THEN "pending"
                                     ELSE IF id \in dropped THEN "void"
                                     ELSE TicketStatus[id]]
  <2>1. TicketStatus' = [id \in Id |-> TicketStatus'[id]]
    BY DEF TicketStatus
  <2> QED
    BY <1>4, <1>5, <2>1
<1>7. Tickets!Issue(t, dropped)
  BY <1>1, <1>3, <1>6 DEF Tickets!Issue
<1> QED
  BY <1>1, <1>7 DEF Tickets!Next

\* What the worker that moves holds afterwards: nothing, what it held before,
\* or what it takes from the table.
LEMMA TookStep ==
    ASSUME IndInv, NEW w \in Worker, Arrive(w) \/ Handler(w), Holding(w)'
    PROVE  \/ Holding(w) /\ work'[w].id = work[w].id
           \/ work'[w].id \in DOMAIN challenges
<1>0. work \in [Worker -> Work]
  BY DEF IndInv, TypeOK
<1>1. ASSUME NEW place, NEW kind, NEW ip, NEW id, NEW value
      PROVE  work' # [work EXCEPT ![w] = Local(place, kind, ip, id, value)]
  BY <1>0 DEF Holding, Local
<1>2. ~Finish(w) /\ ~ToServe(w) /\ ~Pass(w) /\ \A p : ~Goto(w, p)
  BY <1>1 DEF Finish, ToServe, Pass, Goto, Idle
<1>3. ~Arrive(w)
  BY <1>1 DEF Arrive, Visit, AnswerSpot, AnswerJigsaw, AskWait, Begin
<1>4. ~(LookSpot(w) \/ Gate(w) \/ Refresh(w) \/ Serve(w) \/ Attempt(w)
        \/ JudgeJigsaw(w) \/ Record(w) \/ Poll(w) \/ Issue(w))
  BY <1>2 DEF LookSpot, Gate, Refresh, Serve, Attempt, JudgeJigsaw, Record,
              Poll, Issue, Penalised
<1>5. ~DenyWait(w)
  BY <1>1, <1>2 DEF DenyWait
<1>6. CASE Take(w)
  <2>1. /\ work'[w].id = work[w].id
        /\ work'[w].took = IF Takes(w) = {} THEN NoChallenge
                           ELSE challenges[work[w].id]
    BY <1>0, <1>6 DEF Take, Keep
  <2> QED
    BY <2>1 DEF Holding, Takes
<1>7. CASE JudgeSpot(w)
  BY <1>0, <1>7 DEF JudgeSpot, Keep, Holding
<1> QED
  BY <1>3, <1>4, <1>5, <1>6, <1>7 DEF Handler

\* Only the sweep, a handler's own take and the purge touch the table, and
\* without a new ledger entry it only shrinks.
LEMMA TableShrinks ==
    ASSUME [Next]_vars, ledger' = ledger
    PROVE  DOMAIN challenges' \subseteq DOMAIN challenges
<1>1. ASSUME NEW w \in Worker, Issue(w)
      PROVE  DOMAIN challenges' \subseteq DOMAIN challenges
  <2>1. ASSUME NEW id \in Id \ DOMAIN ledger, NEW c
        PROVE  ledger' # Store(ledger, id, c)
    BY DEF Store
  <2> QED
    BY <1>1, <2>1, PurgedTable DEF Issue
<1>2. ASSUME NEW w \in Worker, Handler(w), ~Issue(w)
      PROVE  DOMAIN challenges' \subseteq DOMAIN challenges
  BY <1>2 DEF Handler, LookSpot, Gate, DenyWait, Refresh, Attempt, Take,
              JudgeSpot, JudgeJigsaw, Record, Poll, Serve, Remove
<1>3. ASSUME NEW w \in Worker, Arrive(w)
      PROVE  DOMAIN challenges' \subseteq DOMAIN challenges
  BY <1>3 DEF Arrive, Visit, AnswerSpot, AnswerJigsaw, AskWait, Begin
<1> QED
  BY <1>1, <1>2, <1>3 DEF Next, Sweep, Tick, Remove, vars

LEMMA TicketStep ==
    ASSUME IndInv, IndInv', [Next]_vars
    PROVE  [Tickets!Next]_<<TicketStatus, passes>>
<1>1. CASE UNCHANGED <<work, passes>>
  <2>0. ASSUME NEW w \in Worker, Issue(w)
        PROVE  FALSE
    <3>1. work[w].pc = "issue" /\ work' = [work EXCEPT ![w] = Idle]
      BY <2>0 DEF Issue, Finish
    <3>2. work'[w].pc = "idle"
      BY <3>1 DEF IndInv, TypeOK, Idle, Local
    <3> QED
      BY <1>1, <3>1, <3>2
  <2>1. UNCHANGED ledger
    BY <2>0, ZenonT(30) DEF Next, Arrive, Visit, AnswerSpot, AnswerJigsaw, AskWait, Begin,
       Handler, LookSpot, Gate, DenyWait, Refresh, Attempt, Take, JudgeSpot,
       JudgeJigsaw, Record, Poll, Serve, Sweep, Tick, vars
  <2>2. \A id \in Id : Shown(id)' => Shown(id)
    BY <1>1, <2>1, TableShrinks DEF Shown, Held, Holding
  <2> QED
    BY <1>1, <2>1, <2>2, QuietStep
<1>2. ASSUME NEW w \in Worker, Arrive(w) \/ Handler(w),
             \A v \in Worker \ {w} : work'[v] = work[v]
      PROVE  Tickets!Next
  <2>1. ASSUME NEW id \in Id, Held(id)'
        PROVE  Shown(id)
    BY <1>2, <2>1, TookStep DEF Held, Holding, Shown
  <2>2. CASE passes' # passes
    <3>1. Pass(w) /\ (JudgeJigsaw(w) \/ Record(w) \/ Poll(w))
      BY <1>2, <2>2, PassStep
    <3>2. UNCHANGED ledger
      BY <3>1 DEF JudgeJigsaw, Record, Poll
    <3>3. /\ \/ DOMAIN challenges' = DOMAIN challenges
             \/ DOMAIN challenges' = DOMAIN challenges \ {work[w].id}
      BY <3>1 DEF JudgeJigsaw, Record, Poll, Remove
    <3>4. work[w].id \in Id /\ Shown(work[w].id)
      <4>1. ~Finish(w) /\ ~ToServe(w)
        BY <2>2 DEF Finish, ToServe
      <4>2. CASE Poll(w)
        BY <4>1, <4>2 DEF Poll, Live, Shown, IndInv, TypeOK
      <4>3. CASE JudgeJigsaw(w)
        <5>1. Holding(w)
          BY <4>1, <4>3, JudgedType DEF JudgeJigsaw, Penalised
        <5> QED
          BY <5>1 DEF Shown, Held, IndInv, HoldingInv, TypeOK
      <4>4. CASE Record(w)
        <5>1. Holding(w)
          BY <4>1, <4>4 DEF Record, Penalised, IndInv, LocalInv, Holding
        <5> QED
          BY <5>1 DEF Shown, Held, IndInv, HoldingInv, TypeOK
      <4> QED
        BY <3>1, <4>2, <4>3, <4>4
    <3>5. ASSUME NEW id \in Id \ {work[w].id}
          PROVE  Shown(id)' <=> Shown(id)
      <4>1. Shown(id)' => Shown(id)
        BY <2>1, <3>3 DEF Shown
      <4>2. Held(id) => Held(id)'
        BY <1>2 DEF Held, Holding
      <4> QED
        BY <3>3, <4>1, <4>2 DEF Shown
    <3> QED
      BY <3>1, <3>2, <3>4, <3>5, RedeemStep
  <2>3. CASE passes' = passes /\ ledger' = ledger
    <3>1. DOMAIN challenges' \subseteq DOMAIN challenges
      BY <2>3, TableShrinks
    <3>2. \A id \in Id : Shown(id)' => Shown(id)
      BY <2>1, <3>1 DEF Shown
    <3> QED
      BY <2>3, <3>2, QuietStep
  <2>4. CASE passes' = passes /\ ledger' # ledger
    <3>1. Issue(w)
      BY <1>2, <2>4 DEF Arrive, Visit, AnswerSpot, AnswerJigsaw, AskWait, Begin,
         Handler, LookSpot, Gate, DenyWait, Refresh, Attempt, Take, JudgeSpot,
         JudgeJigsaw, Record, Poll, Serve
    <3>2. PICK t \in Id \ DOMAIN ledger, c \in NewChallenges(work[w].asks) :
             /\ challenges' = Store(Purged, t, c)
             /\ ledger' = Store(ledger, t, c)
      BY <2>4, <3>1 DEF Issue
    <3>3. DOMAIN ledger' = DOMAIN ledger \cup {t} /\ Shown(t)'
      BY <3>2 DEF Store, Shown
    <3>4. \A id \in Id \ {t} : Shown(id)' => Shown(id)
      BY <2>1, <3>2, PurgedTable DEF Store, Shown
    <3> QED
      BY <2>4, <3>3, <3>4, IssueStep
  <2> QED
    BY <2>2, <2>3, <2>4
<1> QED
  BY <1>1, <1>2, OneMoves

\* The table with its handlers, sweep and purge implements one-shot tickets:
\* every id goes once from unissued to pending to redeemed or void, and buys a
\* cookie in the step in which it is redeemed and in no other, whatever number
\* of handlers race on it.
THEOREM Implementation == Spec => ImplementsTickets
<1>1. Init => Tickets!Init
  <2> SUFFICES ASSUME Init PROVE Tickets!Init
    OBVIOUS
  <2>1. \A id \in Id : ~Held(id)
    BY IdleWork DEF Init, Held, Holding
  <2>2. \A id \in Id : TicketStatus[id] = "unissued"
    BY <2>1 DEF Init, TicketStatus
  <2>3. passes = [id \in Id |-> 0]
    BY DEF Init
  <2> QED
    BY <2>2, <2>3 DEF Tickets!Init, TicketStatus
<1>2. IndInv /\ IndInv' /\ [Next]_vars => [Tickets!Next]_<<TicketStatus, passes>>
  BY TicketStep
<1> QED
  BY <1>1, <1>2, Invariance, PTL DEF Spec, ImplementsTickets, Tickets!Spec

-----------------------------------------------------------------------------
(* The bound of the table.                                                 *)

FiniteTable == IsFiniteSet(DOMAIN challenges)

\* A drawn challenge goes to a table that has room for it.
LEMMA StoreBounded ==
    ASSUME FiniteTable, Bounded, HasRoom(Purged), NEW id, NEW c,
           challenges' = Store(Purged, id, c)
    PROVE  FiniteTable' /\ Bounded'
<1>1. DOMAIN Purged \in SUBSET DOMAIN challenges
  BY PurgedTable
<1>2. IsFiniteSet(DOMAIN Purged)
  BY <1>1, FS_Subset DEF FiniteTable
<1>3. Cardinality(DOMAIN Purged) \in Nat
  BY <1>2, FS_CardinalityType
<1>4. Cardinality(DOMAIN Purged) < MaxChallenges
  BY DEF HasRoom
<1>5. DOMAIN challenges' = DOMAIN Purged \cup {id}
  BY DEF Store
<1>6. /\ IsFiniteSet(DOMAIN Purged \cup {id})
      /\ \/ Cardinality(DOMAIN Purged \cup {id}) = Cardinality(DOMAIN Purged)
         \/ Cardinality(DOMAIN Purged \cup {id}) = Cardinality(DOMAIN Purged) + 1
  BY <1>2, FS_AddElement
<1>7. Cardinality(DOMAIN Purged \cup {id}) <= MaxChallenges
  BY <1>3, <1>4, <1>6, LimitsAssumption
<1> QED
  BY <1>5, <1>6, <1>7 DEF FiniteTable, Bounded

\* A table that only loses entries stays within the bound.
LEMMA ShrunkBounded ==
    ASSUME FiniteTable, Bounded, DOMAIN challenges' \subseteq DOMAIN challenges
    PROVE  FiniteTable' /\ Bounded'
<1>1. DOMAIN challenges' \in SUBSET DOMAIN challenges
  OBVIOUS
<1>2. /\ IsFiniteSet(DOMAIN challenges')
      /\ Cardinality(DOMAIN challenges') <= Cardinality(DOMAIN challenges)
  BY <1>1, FS_Subset DEF FiniteTable
<1>3. /\ Cardinality(DOMAIN challenges') \in Nat
      /\ Cardinality(DOMAIN challenges) \in Nat
  BY <1>2, FS_CardinalityType DEF FiniteTable
<1> QED
  BY <1>2, <1>3, LimitsAssumption DEF FiniteTable, Bounded

LEMMA TableInvariance == Spec => [](FiniteTable /\ Bounded)
<1>1. Init => FiniteTable /\ Bounded
  <2> SUFFICES ASSUME Init PROVE FiniteTable /\ Bounded
    OBVIOUS
  <2>1. DOMAIN challenges = {}
    BY DEF Init
  <2> QED
    BY <2>1, FS_EmptySet, LimitsAssumption DEF FiniteTable, Bounded
<1>2. FiniteTable /\ Bounded /\ [Next]_vars => (FiniteTable /\ Bounded)'
  <2> SUFFICES ASSUME FiniteTable, Bounded, [Next]_vars
               PROVE  FiniteTable' /\ Bounded'
    OBVIOUS
  <2>1. CASE ledger' = ledger
    BY <2>1, TableShrinks, ShrunkBounded
  <2>2. CASE ledger' # ledger
    <3>1. PICK w \in Worker : Issue(w)
      BY <2>2, ZenonT(30) DEF Next, Arrive, Visit, AnswerSpot, AnswerJigsaw, AskWait,
         Begin, Handler, LookSpot, Gate, DenyWait, Refresh, Attempt, Take,
         JudgeSpot, JudgeJigsaw, Record, Poll, Serve, Sweep, Tick, vars
    <3>2. PICK id \in Id \ DOMAIN ledger, c \in NewChallenges(work[w].asks) :
             HasRoom(Purged) /\ challenges' = Store(Purged, id, c)
      BY <2>2, <3>1 DEF Issue
    <3> QED
      BY <3>2, StoreBounded
  <2> QED
    BY <2>1, <2>2
<1> QED
  BY <1>1, <1>2, PTL DEF Spec

\* The table never outgrows MaxChallenges, however many requests draw at
\* once: room is looked for in the critical section that adds (add).
THEOREM TableBounded == Spec => []Bounded
BY TableInvariance, PTL


-----------------------------------------------------------------------------
(* Who may take an entry out of the table.                                 *)

\* A handler of the slider that has looked its id up is after a slider puzzle:
\* consume itself does not ask for the kind.
SeenSpot(k) ==
    k.pc \in {"attempt", "take"} /\ k.asks = "spot" =>
        k.id \in DOMAIN ledger /\ ledger[k.id].kind = "spot"

SeenInv == \A w \in Worker : SeenSpot(work[w])

\* The ledger forgets nothing.
LEMMA LedgerGrows ==
    ASSUME [Next]_vars, NEW id \in DOMAIN ledger
    PROVE  id \in DOMAIN ledger' /\ ledger'[id] = ledger[id]
<1>1. CASE ledger' = ledger
  BY <1>1
<1>2. CASE ledger' # ledger
  <2>1. PICK w \in Worker : Issue(w)
    BY <1>2, ZenonT(30) DEF Next, Arrive, Visit, AnswerSpot, AnswerJigsaw, AskWait,
         Begin, Handler, LookSpot, Gate, DenyWait, Refresh, Attempt, Take,
         JudgeSpot, JudgeJigsaw, Record, Poll, Serve, Sweep, Tick, vars
  <2>2. PICK new \in Id \ DOMAIN ledger, c \in NewChallenges(work[w].asks) :
           ledger' = Store(ledger, new, c)
    BY <1>2, <2>1 DEF Issue
  <2> QED
    BY <2>2 DEF Store
<1> QED
  BY <1>1, <1>2

\* The step of a worker leaves it at a harmless place, or after a puzzle that it
\* has seen.
LEMMA SeenStep ==
    ASSUME IndInv, SeenInv, NEW w \in Worker, Arrive(w) \/ Handler(w),
           work'[w].pc \in {"attempt", "take"}, work'[w].asks = "spot"
    PROVE  work'[w].id \in DOMAIN ledger /\ ledger[work'[w].id].kind = "spot"
<1>0. work \in [Worker -> Work]
  BY DEF IndInv, TypeOK
<1>1. ASSUME NEW place, NEW kind, NEW ip, NEW id, NEW value,
             work' = [work EXCEPT ![w] = Local(place, kind, ip, id, value)]
      PROVE  /\ place \in {"attempt", "take"} /\ kind = "spot" /\ work'[w].id = id
  BY <1>0, <1>1 DEF Local
<1>2. ~Finish(w) /\ ~ToServe(w) /\ ~Pass(w)
  BY <1>1 DEF Finish, ToServe, Pass, Idle
<1>3. ASSUME NEW place, Goto(w, place)
      PROVE  /\ place \in {"attempt", "take"} /\ work[w].asks = "spot"
             /\ work'[w].id = work[w].id
  <2>1. work' = [work EXCEPT ![w] = Local(place, work[w].asks, work[w].ip,
                                         work[w].id, work[w].value)]
    BY <1>3 DEF Goto
  <2> QED
    BY <1>0, <2>1 DEF Local
<1>4. ~Arrive(w)
  <2>1. ~Visit(w) /\ ~AskWait(w)
    BY <1>1 DEF Visit, AskWait, Begin
  <2>2. ~AnswerSpot(w) /\ ~AnswerJigsaw(w)
    BY <1>1 DEF AnswerSpot, AnswerJigsaw, Begin
  <2> QED
    BY <2>1, <2>2 DEF Arrive
<1>5. CASE LookSpot(w)
  <2>1. Live(work[w].id, "spot") /\ Goto(w, "attempt")
    BY <1>2, <1>5 DEF LookSpot, Penalised
  <2>2. work[w].id \in DOMAIN challenges /\ challenges[work[w].id].kind = "spot"
    BY <2>1 DEF Live
  <2> QED
    BY <1>3, <2>1, <2>2 DEF IndInv, PendingInv
<1>6. CASE Attempt(w)
  <2>1. /\ work[w].pc = "attempt"
        /\ Goto(w, IF work[w].asks = "timed" THEN "poll" ELSE "take")
    BY <1>2, <1>6 DEF Attempt
  <2>2. work[w].asks = "spot" /\ work'[w].id = work[w].id
    BY <1>3, <2>1
  <2> QED
    BY <2>1, <2>2 DEF SeenInv, SeenSpot
<1>7. ~Gate(w) /\ ~Refresh(w)
  <2>1. work[w].pc \in {"gate", "refresh"} => work[w].asks = "timed"
    BY DEF IndInv, LocalInv
  <2>2. ~Goto(w, "attempt") \/ work[w].asks = "spot"
    BY <1>3
  <2> QED
    BY <1>2, <2>1, <2>2 DEF Gate, Refresh
<1>8. ~DenyWait(w)
  BY <1>1, <1>2 DEF DenyWait
<1>9. ~Take(w) /\ ~JudgeSpot(w)
  BY <1>0 DEF Take, JudgeSpot, Keep
<1>10. ~Goto(w, "issue")
  BY <1>3
<1>11. ~(JudgeJigsaw(w) \/ Record(w) \/ Poll(w) \/ Serve(w) \/ Issue(w))
  BY <1>2, <1>10 DEF JudgeJigsaw, Record, Poll, Serve, Issue, Penalised
<1> QED
  BY <1>4, <1>5, <1>6, <1>7, <1>8, <1>9, <1>11 DEF Handler

LEMMA SeenKeeps ==
    ASSUME IndInv, SeenInv, [Next]_vars
    PROVE  SeenInv'
<1> SUFFICES ASSUME NEW w \in Worker,
                    work'[w].pc \in {"attempt", "take"}, work'[w].asks = "spot"
             PROVE  work'[w].id \in DOMAIN ledger' /\ ledger'[work'[w].id].kind = "spot"
  BY DEF SeenInv, SeenSpot
<1>1. work'[w].id \in DOMAIN ledger /\ ledger[work'[w].id].kind = "spot"
  <2>1. CASE work'[w] = work[w]
    BY <2>1 DEF SeenInv, SeenSpot
  <2>2. CASE Arrive(w) \/ Handler(w)
    BY <2>2, SeenStep
  <2> QED
    BY <2>1, <2>2, OneMoves
<1> QED
  BY <1>1, LedgerGrows

\* The entry of a taking or polling handler leaves the table.
LEMMA LostToHandler ==
    ASSUME IndInv, SeenInv, NEW w \in Worker, Take(w) \/ Poll(w),
           NEW id \in DOMAIN challenges \ DOMAIN challenges'
    PROVE  /\ work[w].pc \in {"take", "poll"} /\ work[w].id = id
           /\ work[w].asks = challenges[id].kind /\ work'[w] # work[w]
           /\ challenges[id].kind = "timed" => passes'[id] > passes[id]
<1>0. work \in [Worker -> Work] /\ passes \in [Id -> Nat] /\ id \in Id
  BY DEF IndInv, TypeOK
<1>1. CASE Take(w)
  <2>1. /\ work[w].pc = "take" /\ work'[w].pc = "judge" /\ id \in Takes(w)
    BY <1>0, <1>1 DEF Take, Keep, Remove
  <2>2. /\ work[w].id = id /\ work[w].asks \in Puzzle
        /\ work[w].asks = "jigsaw" => challenges[id].kind = "jigsaw"
    BY <2>1 DEF Takes, IndInv, LocalInv
  <2>3. work[w].asks = "spot" => challenges[id].kind = "spot"
    BY <2>1, <2>2 DEF SeenInv, SeenSpot, IndInv, PendingInv
  <2> QED
    BY <2>1, <2>2, <2>3 DEF Puzzle
<1>2. CASE Poll(w)
  <2>1. /\ Live(work[w].id, "timed") /\ Pass(w) /\ challenges' = Remove({work[w].id})
    BY <1>2 DEF Poll
  <2>2. work[w].pc = "poll" /\ work[w].id = id /\ work[w].asks = "timed"
    BY <1>2, <2>1 DEF Poll, Remove, IndInv, LocalInv
  <2>3. work'[w].pc = "idle" /\ passes'[id] = passes[id] + 1 /\ passes[id] \in Nat
    BY <1>0, <2>1, <2>2 DEF Pass, Idle, Local
  <2> QED
    BY <2>1, <2>2, <2>3 DEF Live
<1> QED
  BY <1>1, <1>2

\* An entry that has not expired leaves the table only by its own kind of
\* handler, and a wait only by passing: consume deletes whatever it is asked
\* for, but only after spotWidth has found a slider puzzle there.
THEOREM NothingIsLost == Spec => NothingLost
<1> DEFINE Leaves(id) ==
             \/ Expired(challenges[id])
             \/ \E w \in Worker :
                   /\ work[w].pc \in {"take", "poll"}
                   /\ work[w].id = id
                   /\ work[w].asks = challenges[id].kind
                   /\ work'[w] # work[w]
                   /\ challenges[id].kind = "timed" => passes'[id] > passes[id]
<1>1. Init => SeenInv
  <2> SUFFICES ASSUME Init, NEW w \in Worker PROVE SeenSpot(work[w])
    BY DEF SeenInv
  <2>1. work[w].pc = "idle"
    BY DEF Init, Idle, Local
  <2> QED
    BY <2>1 DEF SeenSpot
<1>2. Spec => []SeenInv
  BY <1>1, SeenKeeps, Invariance, PTL DEF Spec
<1>3. ASSUME IndInv, SeenInv, [Next]_vars, NEW id \in DOMAIN challenges \ DOMAIN challenges'
      PROVE  Leaves(id)
  <2>1. CASE Sweep
    BY <1>3, <2>1 DEF Sweep, Remove
  <2>2. CASE \E w \in Worker : Take(w) \/ Poll(w)
    BY <1>3, <2>2, LostToHandler
  <2>3. ASSUME NEW w \in Worker, Issue(w) PROVE Expired(challenges[id])
    <3>1. DOMAIN Purged \subseteq DOMAIN challenges'
      BY <1>3, <2>3 DEF Issue, Store, Purged
    <3> QED
      BY <1>3, <2>3, <3>1 DEF Issue, Purged, Remove
  <2>4. CASE UNCHANGED challenges
    BY <1>3, <2>4
  <2>5. \/ Sweep \/ UNCHANGED challenges
        \/ \E w \in Worker : Take(w) \/ Poll(w) \/ Issue(w)
    BY <1>3, ZenonT(30) DEF Next, Arrive, Visit, AnswerSpot, AnswerJigsaw, AskWait,
         Begin, Handler, LookSpot, Gate, DenyWait, Refresh, Attempt,
         JudgeSpot, JudgeJigsaw, Record, Serve, Tick, vars
  <2> QED
    BY <2>1, <2>2, <2>3, <2>4, <2>5
<1>4. IndInv /\ SeenInv /\ [Next]_vars =>
        [\A id \in DOMAIN challenges \ DOMAIN challenges' : Leaves(id)]_vars
  BY <1>3
<1> QED
  BY <1>2, <1>4, Invariance, PTL DEF Spec, NothingLost

-----------------------------------------------------------------------------
(* When the table refuses.                                                 *)

\* A purge that makes no room has nothing to purge.
LEMMA FullOfLive ==
    ASSUME FiniteTable, Bounded, ~HasRoom(Purged)
    PROVE  /\ Cardinality(DOMAIN challenges) = MaxChallenges
           /\ \A id \in DOMAIN challenges : ~Expired(challenges[id])
<1>1. DOMAIN Purged \in SUBSET DOMAIN challenges
  BY PurgedTable
<1>2. /\ Cardinality(DOMAIN challenges) \in Nat
      /\ Cardinality(DOMAIN Purged) \in Nat
      /\ Cardinality(DOMAIN Purged) <= Cardinality(DOMAIN challenges)
      /\ Cardinality(DOMAIN challenges) = Cardinality(DOMAIN Purged)
            => DOMAIN challenges = DOMAIN Purged
  BY <1>1, FS_Subset, FS_CardinalityType DEF FiniteTable
<1>3. /\ Cardinality(DOMAIN challenges) = MaxChallenges
      /\ DOMAIN challenges = DOMAIN Purged
  BY <1>2, LimitsAssumption DEF HasRoom, Bounded
<1>4. Purged = Remove({id \in DOMAIN challenges : Expired(challenges[id])})
  BY <1>3, LimitsAssumption DEF Purged
<1> QED
  BY <1>3, <1>4 DEF Remove

\* A client goes without a puzzle only if the table is full of challenges that
\* have not expired, or no id can be drawn: what has expired is purged in the
\* critical section that looks for room (add).
THEOREM RefusedOnlyIfFull == Spec => RefusedOnlyWhenFull
<1> DEFINE Refused(w) == work[w].pc = "issue" /\ work'[w].pc = "idle" /\ ledger' = ledger
           Full == \/ Id \subseteq DOMAIN ledger
                   \/ /\ Cardinality(DOMAIN challenges) = MaxChallenges
                      /\ \A id \in DOMAIN challenges : ~Expired(challenges[id])
<1>1. ASSUME IndInv, FiniteTable, Bounded, [Next]_vars, NEW w \in Worker, Refused(w)
      PROVE  Full
  <2>1. Arrive(w) \/ Handler(w)
    BY <1>1, OneMoves
  <2>2. Issue(w)
    BY <1>1, <2>1 DEF Arrive, Visit, AnswerSpot, AnswerJigsaw, AskWait, Begin, Handler,
         LookSpot, Gate, DenyWait, Refresh, Attempt, Take, JudgeSpot, JudgeJigsaw, Record,
         Poll, Serve
  <2>3. ASSUME NEW id \in Id \ DOMAIN ledger, NEW c
        PROVE  ledger' # Store(ledger, id, c)
    BY <1>1 DEF Store
  <2>4. ~HasRoom(Purged) \/ Id \subseteq DOMAIN ledger
    BY <2>2, <2>3 DEF Issue
  <2> QED
    BY <1>1, <2>4, FullOfLive
<1>2. IndInv /\ FiniteTable /\ Bounded /\ [Next]_vars =>
        [\A w \in Worker : Refused(w) => Full]_vars
  BY <1>1
<1> QED
  BY <1>2, TableInvariance, Invariance, PTL DEF Spec, RefusedOnlyWhenFull

=============================================================================
