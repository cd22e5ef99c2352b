-------------------------- MODULE PassiveModeProofs --------------------------
(***************************************************************************)
(* Proofs about PassiveMode, for any clients, workers, windows and budgets:*)
(* the memory store serves the first requests of a window (FirstServed),   *)
(* and neither store passes more than its budget (BudgetKept). What is     *)
(* known of a counter is said of the history of its key alone, so that one *)
(* key can be followed at a time.                                          *)
(***************************************************************************)
EXTENDS PassiveMode, FiniteSetTheorems, TLAPS

CallRecord == [key : Key, at : Nat, pass : BOOLEAN, answered : BOOLEAN]

\* The calls for a key in a stretch of time, and those passed and answered.
In(calls, key, from, to) ==
    {i \in DOMAIN calls : calls[i].key = key /\ calls[i].at \in from..to}

Passed(calls, key, from, to) ==
    {i \in In(calls, key, from, to) : calls[i].pass /\ calls[i].answered}

LogOk(calls, time) ==
    calls \in Seq(CallRecord) /\ \A i \in DOMAIN calls : calls[i].at <= time

EntryOk(entry) == entry \in [n : 0..(MaxRequests + 1), ends : Nat]

Live(entry, time) == entry.n > 0 /\ time <= entry.ends

\* A counter in memory knows no call after its end, and at least as many calls
\* as it counts since its window began. Of those it passed as many as it counts
\* and no more than the budget, the first of them as the window began; and in a
\* window's length before, which is too short to hold the first request of
\* another window, it passed one less than the budget.
MemoryOk(calls, key, entry, time) ==
    LET start == entry.ends - RequestWindow IN
    /\ entry.n = 0 => In(calls, key, 0, time) = {}
    /\ entry.n > 0 =>
         /\ start \in 0..time
         /\ \A i \in DOMAIN calls : calls[i].key = key => calls[i].at <= entry.ends
         /\ entry.n <= Cardinality(In(calls, key, start, time))
         /\ Cardinality(Passed(calls, key, start, time)) <= entry.n
         /\ Cardinality(Passed(calls, key, start, time)) <= MaxRequests
         /\ Cardinality(Passed(calls, key, start + 1, time)) <= entry.n - 1
         /\ Cardinality(Passed(calls, key, start + 1, time)) <= MaxRequests - 1
         /\ \A t \in Nat : t <= start /\ start <= t + RequestWindow =>
              Cardinality(Passed(calls, key, t, start - 1)) <= MaxRequests - 1

\* A counter in Redis outlives every call it answered by a window, and counts
\* what passed in any window's length up to now.
RedisOk(calls, key, entry, time) ==
    /\ \A i \in DOMAIN calls : calls[i].key = key /\ calls[i].answered =>
         entry.n > 0 /\ entry.ends >= calls[i].at + RequestWindow
    /\ \A t \in Nat : time <= t + RequestWindow =>
         /\ Cardinality(Passed(calls, key, t, time)) <= entry.n
         /\ Cardinality(Passed(calls, key, t, time)) <= MaxRequests

BudgetOk(calls, key, budget) ==
    \A t \in Nat : Cardinality(Passed(calls, key, t, t + RequestWindow)) <= budget

\* A counter after one more request.
NextCount(entry, time, kind) ==
    [n |-> IF ~Live(entry, time) THEN 1
           ELSE IF entry.n <= MaxRequests THEN entry.n + 1 ELSE MaxRequests + 1,
     ends |-> IF Live(entry, time) /\ kind = "memory" THEN entry.ends ELSE time + RequestWindow]

-----------------------------------------------------------------------------
(* Sets of calls.                                                          *)

LEMMA Small ==
    ASSUME NEW n \in Nat, NEW S \in SUBSET (1..n)
    PROVE  /\ IsFiniteSet(S) /\ Cardinality(S) \in Nat
           /\ \A T \in SUBSET S : Cardinality(T) <= Cardinality(S)
           /\ Cardinality(S) = 0 <=> S = {}
<1>1. IsFiniteSet(1..n)
  BY FS_Interval
<1>2. IsFiniteSet(S)
  BY <1>1, FS_Subset
<1> QED
  BY <1>2, FS_Subset, FS_CardinalityType, FS_EmptySet

LEMMA OneMore ==
    ASSUME NEW n \in Nat, NEW S \in SUBSET (1..n), n + 1 \notin S
    PROVE  Cardinality(S \cup {n + 1}) = Cardinality(S) + 1
  BY Small, FS_AddElement

LEMMA Together ==
    ASSUME NEW n \in Nat, NEW S \in SUBSET (1..n), NEW T \in SUBSET (1..n)
    PROVE  Cardinality(S \cup T) <= Cardinality(S) + Cardinality(T)
<1>1. IsFiniteSet(S) /\ IsFiniteSet(T) /\ Cardinality(S) \in Nat /\ Cardinality(T) \in Nat
  BY Small
<1>2. S \cap T \in SUBSET (1..n)
  OBVIOUS
<1>3. Cardinality(S \cap T) \in Nat
  BY <1>2, Small
<1>4. Cardinality(S \cup T) = Cardinality(S) + Cardinality(T) - Cardinality(S \cap T)
  BY <1>1, FS_Union
<1> QED
  BY <1>1, <1>3, <1>4

LEMMA InShape ==
    ASSUME NEW time \in Nat, NEW calls, LogOk(calls, time), NEW key, NEW from \in Int, NEW to \in Int
    PROVE  /\ Len(calls) \in Nat /\ DOMAIN calls = 1..Len(calls)
           /\ In(calls, key, from, to) \subseteq 1..Len(calls)
           /\ Passed(calls, key, from, to) \subseteq In(calls, key, from, to)
           /\ Cardinality(In(calls, key, from, to)) \in Nat
           /\ Cardinality(Passed(calls, key, from, to)) \in Nat
<1>1. Len(calls) \in Nat /\ DOMAIN calls = 1..Len(calls)
  BY DEF LogOk
<1>2. /\ In(calls, key, from, to) \subseteq 1..Len(calls)
      /\ Passed(calls, key, from, to) \subseteq In(calls, key, from, to)
  BY <1>1 DEF In, Passed
<1> QED
  BY <1>1, <1>2, Small

\* One more call at the present time.
LEMMA LogGrows ==
    ASSUME NEW time \in Nat, NEW calls, LogOk(calls, time),
           NEW call \in CallRecord, call.at = time
    PROVE  LET after == Append(calls, call)
           IN  LogOk(after, time) /\ Len(after) \in Nat /\ Len(after) = Len(calls) + 1
<1> DEFINE after == Append(calls, call)
<1>1. calls \in Seq(CallRecord) /\ \A i \in DOMAIN calls : calls[i].at <= time
  BY DEF LogOk
<1>2. /\ after \in Seq(CallRecord) /\ Len(after) \in Nat /\ Len(after) = Len(calls) + 1
      /\ \A i \in DOMAIN after : (i \in DOMAIN calls /\ after[i] = calls[i]) \/ after[i] = call
  BY <1>1
<1> HIDE DEF after
<1>3. LogOk(after, time)
  BY <1>1, <1>2 DEF LogOk
<1> QED
  BY <1>2, <1>3 DEF after

\* The calls after one more.
LEMMA InAfter ==
    ASSUME NEW time \in Nat, NEW calls, LogOk(calls, time),
           NEW call \in CallRecord, call.at = time,
           NEW key, NEW from \in Int, NEW to \in Int
    PROVE  LET after == Append(calls, call)
               last == Len(calls) + 1
               new == key = call.key /\ time \in from..to
           IN  /\ LogOk(after, time) /\ Len(after) = last /\ DOMAIN after = 1..last
               /\ after[last] = call /\ \A i \in DOMAIN calls : after[i] = calls[i]
               /\ last \notin In(calls, key, from, to)
               /\ In(after, key, from, to)
                    = IF new THEN In(calls, key, from, to) \cup {last} ELSE In(calls, key, from, to)
               /\ Passed(after, key, from, to)
                    = IF new /\ call.pass /\ call.answered
                      THEN Passed(calls, key, from, to) \cup {last}
                      ELSE Passed(calls, key, from, to)
<1> DEFINE after == Append(calls, call)
           last == Len(calls) + 1
<1>1. calls \in Seq(CallRecord) /\ \A i \in DOMAIN calls : calls[i].at <= time
  BY DEF LogOk
<1>2. /\ last \in Nat \ {0} /\ DOMAIN calls = 1..last - 1
      /\ after \in Seq(CallRecord) /\ Len(after) = last /\ DOMAIN after = 1..last
      /\ after[last] = call /\ \A i \in DOMAIN calls : after[i] = calls[i]
  BY <1>1
<1> HIDE DEF after, last
<1>3. \A i : i \in DOMAIN after <=> i \in DOMAIN calls \/ i = last
  BY <1>2
<1>4. last \notin DOMAIN calls
  BY <1>2
<1>5. LogOk(after, time)
  BY <1>1, <1>2, <1>3 DEF LogOk
<1>6. In(after, key, from, to)
        = IF key = call.key /\ time \in from..to THEN In(calls, key, from, to) \cup {last}
          ELSE In(calls, key, from, to)
  BY <1>2, <1>3 DEF In
<1>7. last \notin In(calls, key, from, to)
  BY <1>4 DEF In
<1>8. \A i \in In(calls, key, from, to) : after[i] = calls[i]
  BY <1>2 DEF In
<1>9. Passed(after, key, from, to)
        = IF key = call.key /\ time \in from..to /\ call.pass /\ call.answered
          THEN Passed(calls, key, from, to) \cup {last} ELSE Passed(calls, key, from, to)
  BY <1>2, <1>6, <1>8 DEF Passed
<1> QED
  BY <1>2, <1>5, <1>6, <1>7, <1>9 DEF after, last

\* One more call that is answered, in a stretch of time.
LEMMA CountAfter ==
    ASSUME NEW time \in Nat, NEW calls, LogOk(calls, time), NEW key,
           NEW call \in CallRecord, call.key = key, call.at = time, call.answered,
           NEW from \in Int, NEW to \in Int
    PROVE  LET after == Append(calls, call)
           IN  /\ time \in from..to =>
                    /\ Cardinality(In(after, key, from, to)) = Cardinality(In(calls, key, from, to)) + 1
                    /\ call.pass => Cardinality(Passed(after, key, from, to))
                                      = Cardinality(Passed(calls, key, from, to)) + 1
                    /\ ~call.pass => Passed(after, key, from, to) = Passed(calls, key, from, to)
               /\ ~(time \in from..to) => Passed(after, key, from, to) = Passed(calls, key, from, to)
<1> DEFINE after == Append(calls, call)
           last == Len(calls) + 1
<1>1. Len(calls) \in Nat
  BY DEF LogOk
<1>2. /\ In(calls, key, from, to) \in SUBSET (1..Len(calls))
      /\ Passed(calls, key, from, to) \in SUBSET (1..Len(calls))
      /\ Passed(calls, key, from, to) \subseteq In(calls, key, from, to)
  BY InShape
<1>3. /\ last \notin In(calls, key, from, to)
      /\ In(after, key, from, to)
           = IF time \in from..to THEN In(calls, key, from, to) \cup {last} ELSE In(calls, key, from, to)
      /\ Passed(after, key, from, to)
           = IF time \in from..to /\ call.pass
             THEN Passed(calls, key, from, to) \cup {last} ELSE Passed(calls, key, from, to)
  BY InAfter
<1> HIDE DEF after
<1>4. last \notin Passed(calls, key, from, to)
  BY <1>2, <1>3
<1>5. /\ Cardinality(In(calls, key, from, to) \cup {last}) = Cardinality(In(calls, key, from, to)) + 1
      /\ Cardinality(Passed(calls, key, from, to) \cup {last})
           = Cardinality(Passed(calls, key, from, to)) + 1
  BY <1>1, <1>2, <1>3, <1>4, OneMore
<1> HIDE DEF last
<1> QED
  BY <1>3, <1>5 DEF after

-----------------------------------------------------------------------------
(* A counter in memory.                                                    *)

\* One more request is counted.
LEMMA MemoryCount ==
    ASSUME NEW time \in Nat, NEW calls, LogOk(calls, time), NEW key \in Key,
           NEW entry, EntryOk(entry), MemoryOk(calls, key, entry, time),
           BudgetOk(calls, key, 2 * MaxRequests - 1),
           NEW new, new = NextCount(entry, time, "memory"),
           NEW call \in CallRecord, call.key = key, call.at = time, call.answered,
           call.pass <=> new.n <= MaxRequests
    PROVE  /\ EntryOk(new) /\ MemoryOk(Append(calls, call), key, new, time)
           /\ BudgetOk(Append(calls, call), key, 2 * MaxRequests - 1)
           /\ ~call.pass =>
                Cardinality(In(Append(calls, call), key, time - RequestWindow, time)) > MaxRequests
<1> DEFINE after == Append(calls, call)
           last == Len(calls) + 1
           live == Live(entry, time)
           start == entry.ends - RequestWindow
           begin == new.ends - RequestWindow
<1>1. MaxRequests \in Nat \ {0} /\ RequestWindow \in Nat \ {0}
  BY PassiveAssumption
<1>2. entry.n \in 0..MaxRequests + 1 /\ entry.ends \in Nat
  BY DEF EntryOk
<1>3. /\ live => /\ new.ends = entry.ends
                 /\ entry.n <= MaxRequests => new.n = entry.n + 1
                 /\ ~(entry.n <= MaxRequests) => new.n = MaxRequests + 1
      /\ ~live => new.n = 1 /\ new.ends = time + RequestWindow
      /\ new = [n |-> new.n, ends |-> new.ends]
  BY DEF NextCount, Live
<1>4. new.n \in 1..MaxRequests + 1 /\ new.ends \in Nat => EntryOk(new)
  <2> SUFFICES ASSUME new.n \in 1..MaxRequests + 1, new.ends \in Nat
               PROVE  new \in [n : 0..(MaxRequests + 1), ends : Nat]
    BY DEF EntryOk
  <2>1. new.n \in 0..(MaxRequests + 1)
    BY <1>1
  <2> QED
    BY <1>3, <2>1
<1>6. Len(calls) \in Nat
  BY DEF LogOk
<1>11. \A from, to \in Int :
         /\ In(calls, key, from, to) \subseteq 1..Len(calls)
         /\ Passed(calls, key, from, to) \subseteq In(calls, key, from, to)
         /\ Cardinality(In(calls, key, from, to)) \in Nat
         /\ Cardinality(Passed(calls, key, from, to)) \in Nat
  BY InShape
<1> HIDE DEF after, live
<1>7. \A from, to \in Int :
        time \in from..to =>
          /\ Cardinality(In(after, key, from, to)) = Cardinality(In(calls, key, from, to)) + 1
          /\ call.pass => Cardinality(Passed(after, key, from, to))
                            = Cardinality(Passed(calls, key, from, to)) + 1
          /\ ~call.pass => Passed(after, key, from, to) = Passed(calls, key, from, to)
  BY CountAfter DEF after
<1>8. \A from, to \in Int : ~(time \in from..to) => Passed(after, key, from, to) = Passed(calls, key, from, to)
  BY CountAfter DEF after
<1>9. CASE live
  <2>1. entry.n > 0 /\ time <= entry.ends /\ start \in 0..time
    BY <1>2, <1>9 DEF live, Live, MemoryOk
  <2>11. /\ new.ends = entry.ends
         /\ entry.n <= MaxRequests => new.n = entry.n + 1
         /\ ~(entry.n <= MaxRequests) => new.n = MaxRequests + 1
    BY <1>3, <1>9, Zenon
  <2>12. new.n \in 1..MaxRequests + 1 /\ new.ends \in Nat
    BY <1>1, <1>2, <2>11
  <2>2. /\ entry.n <= Cardinality(In(calls, key, start, time))
        /\ Cardinality(Passed(calls, key, start, time)) <= entry.n
        /\ Cardinality(Passed(calls, key, start, time)) <= MaxRequests
        /\ Cardinality(Passed(calls, key, start + 1, time)) <= entry.n - 1
        /\ Cardinality(Passed(calls, key, start + 1, time)) <= MaxRequests - 1
        /\ \A t \in Nat : t <= start /\ start <= t + RequestWindow =>
             Cardinality(Passed(calls, key, t, start - 1)) <= MaxRequests - 1
    BY <2>1 DEF MemoryOk
  <2>3. begin = start /\ start \in Int /\ start \in Nat /\ time \in start..time
    BY <1>1, <1>2, <2>1, <2>11
  <2> HIDE DEF start, begin
  <2>4. new.n <= Cardinality(In(after, key, start, time))
    <3>1. Cardinality(In(calls, key, start, time)) \in Nat
      <4>1. start \in Int /\ time \in Int
        BY <2>3
      <4> QED
        BY <1>11, <4>1, Zenon
    <3>2. Cardinality(In(after, key, start, time)) = Cardinality(In(calls, key, start, time)) + 1
      BY <1>7, <2>3
    <3> QED
      BY <1>1, <1>2, <2>2, <2>11, <3>1, <3>2
  <2>5. /\ Cardinality(Passed(after, key, start, time)) <= new.n
        /\ Cardinality(Passed(after, key, start, time)) <= MaxRequests
    <3>1. Cardinality(Passed(calls, key, start, time)) \in Nat
      <4>1. start \in Int /\ time \in Int
        BY <2>3
      <4> QED
        BY <1>11, <4>1, Zenon
    <3>2. CASE call.pass
      <4>1. Cardinality(Passed(after, key, start, time))
              = Cardinality(Passed(calls, key, start, time)) + 1
        BY <1>7, <2>3, <3>2
      <4>2. new.n <= MaxRequests
        BY <3>2
      <4> QED
        BY <1>1, <1>2, <2>2, <2>11, <2>12, <3>1, <4>1, <4>2
    <3>3. CASE ~call.pass
      <4>1. Passed(after, key, start, time) = Passed(calls, key, start, time)
        BY <1>7, <2>3, <3>3
      <4>2. ~(new.n <= MaxRequests)
        BY <3>3
      <4> QED
        BY <1>1, <1>2, <2>2, <2>11, <2>12, <3>1, <4>1, <4>2
    <3> QED
      BY <3>2, <3>3
  <2>13. /\ Cardinality(Passed(after, key, start + 1, time)) <= new.n - 1
         /\ Cardinality(Passed(after, key, start + 1, time)) <= MaxRequests - 1
    <3>0. start + 1 \in Int /\ time \in Int
      BY <2>3
    <3>1. Cardinality(Passed(calls, key, start + 1, time)) \in Nat
      BY <1>11, <3>0, Zenon
    <3>2. new.n >= entry.n \/ new.n >= MaxRequests
      BY <1>1, <1>2, <2>11
    <3>3. CASE call.pass /\ time \in start + 1..time
      <4>1. Cardinality(Passed(after, key, start + 1, time))
              = Cardinality(Passed(calls, key, start + 1, time)) + 1
        BY <1>7, <3>0, <3>3
      <4>2. new.n <= MaxRequests
        BY <3>3
      <4>3. new.n = entry.n + 1
        BY <1>1, <1>2, <2>11, <4>2
      <4> QED
        BY <1>1, <1>2, <2>2, <3>1, <4>1, <4>2, <4>3
    <3>4. CASE ~(call.pass /\ time \in start + 1..time)
      <4>1. Passed(after, key, start + 1, time) = Passed(calls, key, start + 1, time)
        BY <1>7, <1>8, <3>0, <3>4
      <4> QED
        BY <1>1, <1>2, <2>2, <2>12, <3>1, <3>2, <4>1
    <3> QED
      BY <3>3, <3>4
  <2>6. ASSUME NEW t \in Nat, t <= start, start <= t + RequestWindow
        PROVE  Cardinality(Passed(after, key, t, start - 1)) <= MaxRequests - 1
    <3>1. ~(time \in t..start - 1) /\ start - 1 \in Int /\ t \in Int
      BY <2>3
    <3> QED
      BY <1>8, <2>2, <2>6, <3>1
  <2>7. new.n > 0 /\ new.n # 0
    BY <1>1, <2>12
  <2>8. MemoryOk(after, key, new, time)
    <3>1. begin \in 0..time
      BY <2>1, <2>3
    <3>2. \A i \in DOMAIN after : after[i].key = key => after[i].at <= entry.ends
      <4>1. \A i \in DOMAIN calls : calls[i].key = key => calls[i].at <= entry.ends
        BY <2>1 DEF MemoryOk
      <4>2. /\ DOMAIN calls = 1..last - 1 /\ DOMAIN after = 1..last /\ last \in Nat \ {0}
            /\ after[last] = call /\ \A i \in DOMAIN calls : after[i] = calls[i]
        BY <1>6, InAfter, InShape DEF after
      <4>3. \A i \in 1..last : i = last \/ i \in 1..last - 1
        BY <4>2
      <4> QED
        BY <2>1, <4>1, <4>2, <4>3
    <3> QED
      BY <2>3, <2>4, <2>5, <2>6, <2>7, <2>11, <2>13, <3>1, <3>2 DEF MemoryOk, begin
  <2>9. ASSUME ~call.pass
        PROVE  Cardinality(In(after, key, time - RequestWindow, time)) > MaxRequests
    <3>1. new.n > MaxRequests
      BY <1>1, <2>9, <2>12
    <3>2. time - RequestWindow \in Int /\ time - RequestWindow <= start
      BY <1>1, <1>2, <2>1, <2>3 DEF start
    <3>3. In(after, key, start, time) \subseteq In(after, key, time - RequestWindow, time)
      <4>1. \A x \in start..time : x \in time - RequestWindow..time
        BY <1>1, <2>3, <3>2
      <4> QED
        BY <4>1 DEF In
    <3>4. /\ LogOk(after, time) /\ Len(after) \in Nat
      BY <1>6, LogGrows DEF after
    <3>5. /\ In(after, key, time - RequestWindow, time) \in SUBSET (1..Len(after))
          /\ Cardinality(In(after, key, time - RequestWindow, time)) \in Nat
          /\ Cardinality(In(after, key, start, time)) \in Nat
      BY <2>3, <3>2, <3>4, InShape
    <3>6. Cardinality(In(after, key, start, time))
            <= Cardinality(In(after, key, time - RequestWindow, time))
      BY <3>3, <3>4, <3>5, Small
    <3> QED
      BY <1>1, <2>4, <2>12, <3>1, <3>5, <3>6
  <2>10. ASSUME NEW t \in Nat
         PROVE  Cardinality(Passed(after, key, t, t + RequestWindow)) <= 2 * MaxRequests - 1
    <3>1. t + RequestWindow \in Int /\ t \in Int
      BY <1>1
    <3>2. CASE ~(time \in t..t + RequestWindow)
      BY <1>8, <3>1, <3>2 DEF BudgetOk
    <3>3. CASE time \in t..t + RequestWindow
      <4> DEFINE S == Passed(after, key, start, time)
                 T == Passed(after, key, t, start - 1)
                 P == Passed(after, key, t, t + RequestWindow)
      <4>1. LogOk(after, time) /\ Len(after) \in Nat
        BY <1>6, LogGrows DEF after
      <4>2. /\ S \in SUBSET (1..Len(after)) /\ T \in SUBSET (1..Len(after))
            /\ P \in SUBSET (1..Len(after)) /\ Cardinality(S) \in Nat
            /\ Cardinality(T) \in Nat /\ Cardinality(P) \in Nat
        BY <2>3, <3>1, <4>1, InShape
      <4>3. P \subseteq S \cup T
        <5>1. \A i \in DOMAIN after : after[i].at \in Nat /\ after[i].at <= time
          <6>1. \A i \in DOMAIN after : after[i] \in CallRecord /\ after[i].at <= time
            BY <4>1 DEF LogOk
          <6> QED
            BY <6>1 DEF CallRecord
        <5> QED
          BY <1>1, <2>3, <5>1 DEF In, Passed
      <4>4. CASE t <= start
        <5>1. Cardinality(T) <= MaxRequests - 1
          BY <1>1, <2>3, <2>6, <3>3, <4>4
        <5>2. Cardinality(S) <= MaxRequests
          BY <2>5
        <5> HIDE DEF S, T, P
        <5>3. Cardinality(S \cup T) <= Cardinality(S) + Cardinality(T)
          BY <4>1, <4>2, Together
        <5>4. S \cup T \in SUBSET (1..Len(after))
          BY <4>2
        <5>5. Cardinality(P) <= Cardinality(S \cup T) /\ Cardinality(S \cup T) \in Nat
          BY <4>1, <4>3, <5>4, Small
        <5>6. Cardinality(P) <= 2 * MaxRequests - 1
          BY <1>1, <4>2, <5>1, <5>2, <5>3, <5>5
        <5> QED
          BY <5>6 DEF P
      <4>5. CASE t > start
        <5>1. T = {}
          BY <2>3, <4>5 DEF In, Passed
        <5>2. Cardinality(P) <= Cardinality(S)
          BY <4>1, <4>2, <4>3, <5>1, Small
        <5> QED
          BY <1>1, <2>5, <4>2, <5>2
      <4> QED
        BY <2>3, <4>4, <4>5
    <3> QED
      BY <3>2, <3>3
  <2> QED
    BY <1>4, <2>8, <2>9, <2>10, <2>12 DEF BudgetOk, after
<1>10. CASE ~live
  <2>1. \A i \in DOMAIN calls : calls[i].at \in Nat /\ calls[i].at <= time
    <3>1. \A i \in DOMAIN calls : calls[i] \in CallRecord /\ calls[i].at <= time
      BY DEF LogOk
    <3> QED
      BY <3>1 DEF CallRecord
  <2>11. new.n = 1 /\ new.ends = time + RequestWindow
    BY <1>3, <1>10, Zenon
  <2>2. /\ new.n = 1 /\ new.ends = time + RequestWindow /\ begin = time /\ call.pass
        /\ new.n \in 1..MaxRequests + 1 /\ new.ends \in Nat
    BY <1>1, <2>11
  <2>3. entry.n = 0 \/ (entry.n > 0 /\ time > entry.ends)
    BY <1>2, <1>10 DEF live, Live
  <2>4. In(calls, key, time, time) = {}
    <3>1. CASE entry.n = 0
      <4>1. In(calls, key, 0, time) = {}
        BY <3>1 DEF MemoryOk
      <4> QED
        BY <4>1, time \in Nat DEF In
    <3>2. CASE entry.n > 0 /\ time > entry.ends
      <4>1. \A i \in DOMAIN calls : calls[i].key = key => calls[i].at <= entry.ends
        BY <3>2 DEF MemoryOk
      <4>2. \A i \in DOMAIN calls : calls[i].key = key => calls[i].at < time
        BY <1>2, <2>1, <3>2, <4>1
      <4> QED
        BY <2>1, <4>2 DEF In
    <3> QED
      BY <2>3, <3>1, <3>2
  <2>5. ASSUME NEW t \in Nat, NEW to \in Int, time <= t + RequestWindow
        PROVE  Cardinality(Passed(calls, key, t, to)) <= MaxRequests - 1
    <3>1. CASE entry.n = 0
      <4>1. In(calls, key, 0, time) = {}
        BY <3>1 DEF MemoryOk
      <4>2. Passed(calls, key, t, to) = {}
        BY <2>1, <4>1 DEF In, Passed
      <4> QED
        BY <1>1, <4>2, FS_EmptySet
    <3>2. CASE entry.n > 0 /\ time > entry.ends
      <4>1. start \in 0..time /\ Cardinality(Passed(calls, key, start + 1, time)) <= MaxRequests - 1
        BY <3>2 DEF MemoryOk
      <4>2. start < t
        BY <1>1, <1>2, <2>5, <3>2
      <4> HIDE DEF start
      <4>3. Passed(calls, key, t, to) \subseteq Passed(calls, key, start + 1, time)
        BY <2>1, <4>1, <4>2 DEF In, Passed
      <4>4. /\ Passed(calls, key, start + 1, time) \in SUBSET (1..Len(calls))
            /\ Cardinality(Passed(calls, key, start + 1, time)) \in Nat
            /\ Cardinality(Passed(calls, key, t, to)) \in Nat
        <5>1. start + 1 \in Int /\ time \in Int /\ t \in Int /\ to \in Int
          BY <4>1
        <5> QED
          BY <1>11, <5>1, Zenon
      <4>5. Cardinality(Passed(calls, key, t, to)) <= Cardinality(Passed(calls, key, start + 1, time))
        BY <1>6, <4>3, <4>4, Small
      <4> QED
        BY <1>1, <4>1, <4>4, <4>5
    <3> QED
      BY <2>3, <3>1, <3>2
  <2> HIDE DEF begin
  <2>6. MemoryOk(after, key, new, time)
    <3>1. /\ Cardinality(In(calls, key, time, time)) = 0
          /\ Cardinality(Passed(calls, key, time, time)) = 0
      BY <2>4, FS_EmptySet DEF Passed
    <3>2. time \in time..time /\ time \in Int
      OBVIOUS
    <3>3. /\ Cardinality(In(after, key, time, time)) = 1
          /\ Cardinality(Passed(after, key, time, time)) = 1
      BY <1>7, <2>2, <3>1, <3>2
    <3>4. ASSUME NEW t \in Nat, t <= time, time <= t + RequestWindow
          PROVE  Cardinality(Passed(after, key, t, time - 1)) <= MaxRequests - 1
      <4>1. ~(time \in t..time - 1) /\ time - 1 \in Int /\ t \in Int
        OBVIOUS
      <4> QED
        BY <1>8, <2>5, <3>4, <4>1
    <3>5. \A i \in DOMAIN after : after[i].at <= new.ends
      <4>1. LogOk(after, time)
        BY LogGrows DEF after
      <4>2. \A i \in DOMAIN after : after[i] \in CallRecord /\ after[i].at <= time
        BY <4>1 DEF LogOk
      <4>3. \A i \in DOMAIN after : after[i].at \in Nat /\ after[i].at <= time
        BY <4>2 DEF CallRecord
      <4> QED
        BY <1>1, <2>2, <4>3
    <3>6. begin \in 0..time /\ begin = time /\ new.n = 1
      BY <2>2
    <3>7. Cardinality(Passed(after, key, time + 1, time)) = 0
      <4>1. Passed(after, key, time + 1, time) = {}
        BY DEF In, Passed
      <4> QED
        BY <4>1, FS_EmptySet
    <3> QED
      BY <1>1, <3>3, <3>4, <3>5, <3>6, <3>7 DEF MemoryOk, begin
  <2>7. ASSUME NEW t \in Nat
        PROVE  Cardinality(Passed(after, key, t, t + RequestWindow)) <= 2 * MaxRequests - 1
    <3>1. t + RequestWindow \in Int /\ t \in Int
      BY <1>1
    <3>2. CASE ~(time \in t..t + RequestWindow)
      BY <1>8, <3>1, <3>2 DEF BudgetOk
    <3>3. CASE time \in t..t + RequestWindow
      <4>1. Cardinality(Passed(calls, key, t, t + RequestWindow)) <= MaxRequests - 1
        BY <2>5, <3>1, <3>3
      <4>2. Cardinality(Passed(calls, key, t, t + RequestWindow)) \in Nat
        BY <1>11, <3>1
      <4>3. Cardinality(Passed(after, key, t, t + RequestWindow))
              = Cardinality(Passed(calls, key, t, t + RequestWindow)) + 1
        BY <1>7, <2>2, <3>1, <3>3
      <4> QED
        BY <1>1, <4>1, <4>2, <4>3
    <3> QED
      BY <3>2, <3>3
  <2> QED
    BY <1>4, <2>2, <2>6, <2>7 DEF BudgetOk, after
<1> QED
  BY <1>9, <1>10

\* Time passes.
LEMMA TimePasses ==
    ASSUME NEW time \in Nat, NEW calls, LogOk(calls, time), NEW key
    PROVE  /\ LogOk(calls, time + 1)
           /\ \A from \in Int : /\ In(calls, key, from, time + 1) = In(calls, key, from, time)
                                /\ Passed(calls, key, from, time + 1) = Passed(calls, key, from, time)
<1>1. calls \in Seq(CallRecord) /\ \A i \in DOMAIN calls : calls[i] \in CallRecord /\ calls[i].at <= time
  BY DEF LogOk
<1>2. \A i \in DOMAIN calls : calls[i].at \in Nat /\ calls[i].at <= time
  BY <1>1 DEF CallRecord
<1>3. LogOk(calls, time + 1)
  BY <1>1, <1>2 DEF LogOk
<1>4. \A from \in Int : In(calls, key, from, time + 1) = In(calls, key, from, time)
  BY <1>2 DEF In
<1>5. \A from \in Int : Passed(calls, key, from, time + 1) = Passed(calls, key, from, time)
  BY <1>4 DEF Passed
<1> QED
  BY <1>3, <1>4, <1>5

LEMMA MemoryTick ==
    ASSUME NEW time \in Nat, NEW calls, LogOk(calls, time), NEW key,
           NEW entry, EntryOk(entry), MemoryOk(calls, key, entry, time)
    PROVE  MemoryOk(calls, key, entry, time + 1)
<1> DEFINE start == entry.ends - RequestWindow
<1>1. start \in Int /\ start + 1 \in Int /\ entry.n \in Nat
  BY PassiveAssumption DEF EntryOk
<1>2. /\ In(calls, key, 0, time + 1) = In(calls, key, 0, time)
      /\ In(calls, key, start, time + 1) = In(calls, key, start, time)
      /\ Passed(calls, key, start, time + 1) = Passed(calls, key, start, time)
      /\ Passed(calls, key, start + 1, time + 1) = Passed(calls, key, start + 1, time)
  BY <1>1, TimePasses
<1>3. start \in 0..time => start \in 0..time + 1
  BY <1>1
<1> QED
  BY <1>2, <1>3 DEF MemoryOk

\* Another key's counter is not concerned.
LEMMA OtherKey ==
    ASSUME NEW time \in Nat, NEW calls, LogOk(calls, time), NEW key,
           NEW call \in CallRecord, call.at = time, call.key # key, NEW entry, EntryOk(entry)
    PROVE  LET after == Append(calls, call)
           IN  /\ MemoryOk(calls, key, entry, time) => MemoryOk(after, key, entry, time)
               /\ RedisOk(calls, key, entry, time) => RedisOk(after, key, entry, time)
               /\ \A budget : BudgetOk(calls, key, budget) => BudgetOk(after, key, budget)
<1> DEFINE after == Append(calls, call)
           start == entry.ends - RequestWindow
<1>1. \A from, to \in Int :
        /\ In(after, key, from, to) = In(calls, key, from, to)
        /\ Passed(after, key, from, to) = Passed(calls, key, from, to)
  BY InAfter
<1>2. /\ start \in Int /\ start - 1 \in Int /\ start + 1 \in Int /\ RequestWindow \in Nat
      /\ \A t \in Nat : t \in Int /\ t + RequestWindow \in Int
  BY PassiveAssumption DEF EntryOk
<1>3. \A i \in DOMAIN after :
        after[i].key = key => i \in DOMAIN calls /\ after[i] = calls[i]
  <2>1. /\ Len(calls) \in Nat /\ DOMAIN calls = 1..Len(calls)
        /\ DOMAIN after = 1..Len(calls) + 1 /\ after[Len(calls) + 1] = call
        /\ \A i \in DOMAIN calls : after[i] = calls[i]
    BY InAfter, InShape
  <2> HIDE DEF after
  <2>2. \A i \in DOMAIN after : i = Len(calls) + 1 \/ i \in DOMAIN calls
    BY <2>1
  <2> QED
    BY <2>1, <2>2
<1> HIDE DEF after
<1>4. MemoryOk(calls, key, entry, time) => MemoryOk(after, key, entry, time)
  BY <1>1, <1>2, <1>3 DEF MemoryOk
<1>5. RedisOk(calls, key, entry, time) => RedisOk(after, key, entry, time)
  BY <1>1, <1>2, <1>3 DEF RedisOk
<1>6. \A budget : BudgetOk(calls, key, budget) => BudgetOk(after, key, budget)
  BY <1>1, <1>2 DEF BudgetOk
<1> QED
  BY <1>4, <1>5, <1>6 DEF after

-----------------------------------------------------------------------------
(* A counter in Redis.                                                     *)

\* What the counter says of the window's length up to now, when it is over.
LEMMA RedisOver ==
    ASSUME NEW time \in Nat, NEW calls, LogOk(calls, time), NEW key,
           NEW entry, EntryOk(entry), RedisOk(calls, key, entry, time), ~Live(entry, time),
           NEW t \in Nat, time <= t + RequestWindow
    PROVE  Cardinality(Passed(calls, key, t, time)) = 0
<1>1. \A i \in DOMAIN calls : calls[i].at \in Nat
  <2>1. \A i \in DOMAIN calls : calls[i] \in CallRecord
    BY DEF LogOk
  <2> QED
    BY <2>1 DEF CallRecord
<1>2. RequestWindow \in Nat /\ entry.ends \in Nat /\ entry.n \in Nat
  BY PassiveAssumption DEF EntryOk
<1>3. ASSUME NEW i \in Passed(calls, key, t, time)
      PROVE  FALSE
  <2>1. i \in DOMAIN calls /\ calls[i].key = key /\ calls[i].answered /\ calls[i].at \in t..time
    BY <1>3 DEF Passed, In
  <2>2. entry.n > 0 /\ entry.ends >= calls[i].at + RequestWindow
    BY <2>1 DEF RedisOk
  <2>3. calls[i].at >= t
    BY <2>1
  <2>4. time <= entry.ends
    BY <1>1, <1>2, <2>1, <2>2, <2>3
  <2> QED
    BY <2>2, <2>4 DEF Live
<1> QED
  BY <1>3, FS_EmptySet

\* The counter is not behind what it was, or what it was is over.
LEMMA RedisNew ==
    ASSUME NEW time \in Nat, NEW entry, EntryOk(entry), NEW new, new = NextCount(entry, time, "redis")
    PROVE  /\ EntryOk(new) /\ new.n > 0 /\ new.ends = time + RequestWindow
           /\ Live(entry, time) => /\ entry.n <= new.n
                                   /\ new.n <= MaxRequests => new.n = entry.n + 1
<1>1. MaxRequests \in Nat \ {0} /\ RequestWindow \in Nat \ {0}
  BY PassiveAssumption
<1>2. entry.n \in 0..(MaxRequests + 1)
  BY DEF EntryOk
<1>3. /\ new = [n |-> new.n, ends |-> new.ends] /\ new.ends = time + RequestWindow
      /\ ~Live(entry, time) => new.n = 1
      /\ Live(entry, time) => /\ entry.n <= MaxRequests => new.n = entry.n + 1
                              /\ ~(entry.n <= MaxRequests) => new.n = MaxRequests + 1
  BY DEF NextCount
<1>4. CASE Live(entry, time)
  <2>1. /\ entry.n <= MaxRequests => new.n = entry.n + 1
        /\ ~(entry.n <= MaxRequests) => new.n = MaxRequests + 1
    BY <1>3, <1>4, Zenon
  <2>2. /\ new.n \in 0..(MaxRequests + 1) /\ new.n > 0 /\ entry.n <= new.n
        /\ new.n <= MaxRequests => new.n = entry.n + 1
    BY <1>1, <1>2, <2>1
  <2> QED
    BY <1>1, <1>3, <2>2 DEF EntryOk
<1>5. CASE ~Live(entry, time)
  <2>1. new.n = 1
    BY <1>3, <1>5, Zenon
  <2>2. new.n \in 0..(MaxRequests + 1) /\ new.n > 0
    BY <1>1, <2>1
  <2> QED
    BY <1>1, <1>3, <1>5, <2>2 DEF EntryOk
<1> QED
  BY <1>4, <1>5

\* A request is counted and its answer lost.
LEMMA RedisLost ==
    ASSUME NEW time \in Nat, NEW calls, LogOk(calls, time), NEW key,
           NEW entry, EntryOk(entry), RedisOk(calls, key, entry, time),
           NEW new, new = NextCount(entry, time, "redis")
    PROVE  EntryOk(new) /\ RedisOk(calls, key, new, time)
<1>1. /\ EntryOk(new) /\ new.n > 0 /\ new.ends = time + RequestWindow
      /\ Live(entry, time) => entry.n <= new.n
  BY RedisNew
<1>2. /\ RequestWindow \in Nat /\ MaxRequests \in Nat /\ new.n \in Nat /\ entry.n \in Nat
  BY <1>1, PassiveAssumption DEF EntryOk
<1>3. \A i \in DOMAIN calls : calls[i].at \in Nat /\ calls[i].at <= time
  <2>1. \A i \in DOMAIN calls : calls[i] \in CallRecord /\ calls[i].at <= time
    BY DEF LogOk
  <2> QED
    BY <2>1 DEF CallRecord
<1>4. ASSUME NEW i \in DOMAIN calls
      PROVE  new.ends >= calls[i].at + RequestWindow
  BY <1>1, <1>2, <1>3
<1>5. ASSUME NEW t \in Nat, time <= t + RequestWindow
      PROVE  /\ Cardinality(Passed(calls, key, t, time)) <= new.n
             /\ Cardinality(Passed(calls, key, t, time)) <= MaxRequests
  <2>1. Cardinality(Passed(calls, key, t, time)) \in Nat
    BY InShape
  <2>2. /\ Cardinality(Passed(calls, key, t, time)) <= entry.n
        /\ Cardinality(Passed(calls, key, t, time)) <= MaxRequests
    BY <1>5 DEF RedisOk
  <2>3. CASE Live(entry, time)
    <3>1. entry.n <= new.n
      BY <1>1, <2>3
    <3> QED
      BY <1>2, <2>1, <2>2, <3>1
  <2>4. CASE ~Live(entry, time)
    <3>1. Cardinality(Passed(calls, key, t, time)) = 0
      BY <1>5, <2>4, RedisOver
    <3> QED
      BY <1>1, <1>2, <3>1
  <2> QED
    BY <2>3, <2>4
<1> QED
  BY <1>1, <1>4, <1>5 DEF RedisOk

\* One more request is counted and answered: as if its answer were lost first.
LEMMA RedisCount ==
    ASSUME NEW time \in Nat, NEW calls, LogOk(calls, time), NEW key \in Key,
           NEW entry, EntryOk(entry), RedisOk(calls, key, entry, time),
           BudgetOk(calls, key, MaxRequests),
           NEW new, new = NextCount(entry, time, "redis"),
           NEW call \in CallRecord, call.key = key, call.at = time, call.answered,
           call.pass <=> new.n <= MaxRequests
    PROVE  /\ EntryOk(new) /\ RedisOk(Append(calls, call), key, new, time)
           /\ BudgetOk(Append(calls, call), key, MaxRequests)
<1> DEFINE after == Append(calls, call)
           last == Len(calls) + 1
<1>1. /\ EntryOk(new) /\ new.n > 0 /\ new.ends = time + RequestWindow
      /\ Live(entry, time) => /\ entry.n <= new.n
                              /\ new.n <= MaxRequests => new.n = entry.n + 1
      /\ RedisOk(calls, key, new, time)
  BY RedisNew, RedisLost
<1>2. RequestWindow \in Nat /\ MaxRequests \in Nat \ {0} /\ new.n \in Nat /\ entry.n \in Nat
  BY <1>1, PassiveAssumption DEF EntryOk
<1>3. \A from, to \in Int :
        /\ time \in from..to =>
             /\ call.pass => Cardinality(Passed(after, key, from, to))
                               = Cardinality(Passed(calls, key, from, to)) + 1
             /\ ~call.pass => Passed(after, key, from, to) = Passed(calls, key, from, to)
        /\ ~(time \in from..to) => Passed(after, key, from, to) = Passed(calls, key, from, to)
  BY CountAfter DEF after
<1>4. LogOk(after, time)
  BY LogGrows
<1> HIDE DEF after
<1>5. \A i \in DOMAIN after : after[i].at \in Nat /\ after[i].at <= time
  <2>1. \A i \in DOMAIN after : after[i] \in CallRecord /\ after[i].at <= time
    BY <1>4 DEF LogOk
  <2> QED
    BY <2>1 DEF CallRecord
<1>6. ASSUME NEW i \in DOMAIN after
      PROVE  new.ends >= after[i].at + RequestWindow
  BY <1>1, <1>2, <1>5
<1>7. ASSUME NEW t \in Nat, time <= t + RequestWindow
      PROVE  /\ Cardinality(Passed(after, key, t, time)) <= new.n
             /\ Cardinality(Passed(after, key, t, time)) <= MaxRequests
  <2> DEFINE before == Cardinality(Passed(calls, key, t, time))
             size == Cardinality(Passed(after, key, t, time))
  <2>1. before \in Nat
    BY InShape
  <2>2. before <= entry.n /\ before <= MaxRequests /\ before <= new.n
    BY <1>1, <1>7 DEF RedisOk
  <2>3. CASE call.pass /\ time \in t..time
    <3>1. size = before + 1
      BY <1>3, <2>3
    <3>2. new.n <= MaxRequests
      BY <2>3
    <3>3. before + 1 <= new.n
      <4>1. CASE Live(entry, time)
        <5>1. new.n = entry.n + 1
          BY <1>1, <3>2, <4>1
        <5> QED
          BY <1>2, <2>1, <2>2, <5>1
      <4>2. CASE ~Live(entry, time)
        <5>1. before = 0
          BY <1>7, <4>2, RedisOver
        <5> QED
          BY <1>1, <1>2, <5>1
      <4> QED
        BY <4>1, <4>2
    <3> HIDE DEF before, size
    <3>4. size <= new.n /\ size <= MaxRequests
      BY <1>2, <2>1, <3>1, <3>2, <3>3
    <3> QED
      BY <3>4 DEF size
  <2>4. CASE ~(call.pass /\ time \in t..time)
    <3>1. Passed(after, key, t, time) = Passed(calls, key, t, time)
      BY <1>3, <2>4
    <3> QED
      BY <2>2, <3>1
  <2> QED
    BY <2>3, <2>4
<1>8. RedisOk(after, key, new, time)
  BY <1>1, <1>6, <1>7 DEF RedisOk
<1>9. ASSUME NEW t \in Nat
      PROVE  Cardinality(Passed(after, key, t, t + RequestWindow)) <= MaxRequests
  <2>1. t + RequestWindow \in Int /\ t \in Int /\ time \in Int
    BY <1>2
  <2>2. CASE time \in t..t + RequestWindow
    <3>1. time <= t + RequestWindow
      BY <1>2, <2>2
    <3>2. Passed(after, key, t, t + RequestWindow) = Passed(after, key, t, time)
      BY <1>2, <1>5, <3>1 DEF Passed, In
    <3> QED
      BY <1>7, <3>1, <3>2
  <2>3. CASE ~(time \in t..t + RequestWindow)
    <3>1. Passed(after, key, t, t + RequestWindow) = Passed(calls, key, t, t + RequestWindow)
      BY <1>3, <2>1, <2>3
    <3> QED
      BY <3>1 DEF BudgetOk
  <2> QED
    BY <2>2, <2>3
<1> QED
  BY <1>1, <1>8, <1>9 DEF BudgetOk, after

\* A request that is not answered: the counter does not know.
LEMMA RedisUnanswered ==
    ASSUME NEW time \in Nat, NEW calls, LogOk(calls, time), NEW key \in Key,
           NEW entry, RedisOk(calls, key, entry, time), BudgetOk(calls, key, MaxRequests),
           NEW call \in CallRecord, call.key = key, call.at = time, ~call.answered
    PROVE  /\ RedisOk(Append(calls, call), key, entry, time)
           /\ BudgetOk(Append(calls, call), key, MaxRequests)
<1> DEFINE after == Append(calls, call)
<1>1. \A from, to \in Int : Passed(after, key, from, to) = Passed(calls, key, from, to)
  BY InAfter
<1>2. \A i \in DOMAIN after :
        after[i].answered => i \in DOMAIN calls /\ after[i] = calls[i]
  <2>1. /\ Len(calls) \in Nat /\ DOMAIN calls = 1..Len(calls)
        /\ DOMAIN after = 1..Len(calls) + 1 /\ after[Len(calls) + 1] = call
        /\ \A i \in DOMAIN calls : after[i] = calls[i]
    BY InAfter, InShape
  <2> HIDE DEF after
  <2>2. \A i \in DOMAIN after : i = Len(calls) + 1 \/ i \in DOMAIN calls
    BY <2>1
  <2> QED
    BY <2>1, <2>2
<1> HIDE DEF after
<1>3. \A t \in Nat : t \in Int /\ t + RequestWindow \in Int
  BY PassiveAssumption
<1> QED
  BY <1>1, <1>2, <1>3 DEF RedisOk, BudgetOk, after

LEMMA RedisTick ==
    ASSUME NEW time \in Nat, NEW calls, LogOk(calls, time), NEW key,
           NEW entry, RedisOk(calls, key, entry, time)
    PROVE  RedisOk(calls, key, entry, time + 1)
<1>1. RequestWindow \in Nat
  BY PassiveAssumption
<1>2. ASSUME NEW t \in Nat, time + 1 <= t + RequestWindow
      PROVE  /\ Cardinality(Passed(calls, key, t, time + 1)) <= entry.n
             /\ Cardinality(Passed(calls, key, t, time + 1)) <= MaxRequests
  <2>1. time <= t + RequestWindow /\ t \in Int
    BY <1>1, <1>2
  <2>2. Passed(calls, key, t, time + 1) = Passed(calls, key, t, time)
    BY <2>1, TimePasses
  <2> QED
    BY <2>1, <2>2 DEF RedisOk
<1> QED
  BY <1>2 DEF RedisOk

-----------------------------------------------------------------------------
(* All the counters.                                                       *)

KeyOk(kind, calls, key, entry, time) ==
    /\ EntryOk(entry)
    /\ kind = "memory" => /\ MemoryOk(calls, key, entry, time)
                          /\ BudgetOk(calls, key, 2 * MaxRequests - 1)
    /\ kind = "redis" => /\ RedisOk(calls, key, entry, time)
                         /\ BudgetOk(calls, key, MaxRequests)

\* A call that did not pass had as many before it as the budget allows.
FirstOk(calls, i) ==
    ~calls[i].pass =>
        Cardinality({j \in In(calls, calls[i].key, calls[i].at - RequestWindow, calls[i].at) :
                        j <= i}) > MaxRequests

DataInv ==
    /\ now \in Nat
    /\ store \in Stores
    /\ DOMAIN passiveCnt = Key
    /\ LogOk(log, now)
    /\ \A key \in Key : KeyOk(store, log, key, passiveCnt[key], now)
    /\ store = "memory" => \A i \in DOMAIN log : FirstOk(log, i)

\* A worker that counts has a key, of a cookie or of a network.
Place == [pc : {"idle", "judge", "count", "serve"},
          client : Client \cup {Idle.client}, cookie : Cookies \cup {NoCookie},
          key : Key \cup {NoKey}, answered : BOOLEAN]

WorkInv ==
    /\ work \in [Worker -> Place]
    /\ \A w \in Worker : /\ work[w].pc # "idle" => work[w].client \in Client
                         /\ work[w].pc \in {"count", "serve"} => work[w].key \in Key
    /\ now \in 0..MaxTime
    /\ jar \in [Client -> Cookies \cup {NoCookie}]

IndInv == DataInv /\ WorkInv

\* A key's counter goes on, and the others rest.
LEMMA KeysAfter ==
    ASSUME DataInv, now' = now, store' = store, NEW key \in Key, NEW new,
           passiveCnt' = [passiveCnt EXCEPT ![key] = new], NEW calls,
           KeyOk(store, calls, key, new, now),
           \A other \in Key \ {key} : KeyOk(store, calls, other, passiveCnt[other], now),
           log' = calls
    PROVE  DOMAIN passiveCnt' = Key /\ \A k \in Key : KeyOk(store, log', k, passiveCnt'[k], now)
  BY DEF DataInv

\* What did not pass before stays as it was.
LEMMA FirstStays ==
    ASSUME NEW time \in Nat, NEW calls, LogOk(calls, time), NEW call \in CallRecord,
           call.at = time, NEW i \in DOMAIN calls, FirstOk(calls, i)
    PROVE  FirstOk(Append(calls, call), i)
<1> DEFINE after == Append(calls, call)
           last == Len(calls) + 1
           from == calls[i].at - RequestWindow
           to == calls[i].at
<1>1. to \in Nat /\ to \in Int /\ from \in Int
  <2>1. calls[i] \in CallRecord
    BY DEF LogOk
  <2> QED
    BY <2>1, PassiveAssumption DEF CallRecord
<1>2. /\ Len(calls) \in Nat /\ DOMAIN calls = 1..Len(calls) /\ after[i] = calls[i]
  BY InAfter, InShape
<1> HIDE DEF from, to
<1>3. In(after, calls[i].key, from, to) = In(calls, calls[i].key, from, to)
      \/ In(after, calls[i].key, from, to) = In(calls, calls[i].key, from, to) \cup {last}
  BY <1>1, InAfter
<1> USE DEF from, to
<1> HIDE DEF after
<1>4. ~(last <= i)
  BY <1>2
<1>5. {j \in In(after, calls[i].key, from, to) : j <= i}
        = {j \in In(calls, calls[i].key, from, to) : j <= i}
  BY <1>3, <1>4
<1> HIDE DEF last
<1> QED
  BY <1>2, <1>5 DEF FirstOk, after

\* IncrPassiveCount counts and answers.
LEMMA AnsweredKeeps ==
    ASSUME DataInv, now' = now, store' = store, NEW key \in Key,
           NEW pass \in BOOLEAN, pass <=> Counted(key).n <= MaxRequests,
           passiveCnt' = [passiveCnt EXCEPT ![key] = Counted(key)], Called(key, pass, TRUE)
    PROVE  DataInv'
<1> DEFINE call == [key |-> key, at |-> now, pass |-> pass, answered |-> TRUE]
           entry == passiveCnt[key]
           new == Counted(key)
           after == Append(log, call)
<1>1. /\ now \in Nat /\ store \in {"memory", "redis"} /\ LogOk(log, now)
      /\ KeyOk(store, log, key, entry, now) /\ EntryOk(entry)
  BY PassiveAssumption DEF DataInv, KeyOk
<1>2. new = NextCount(entry, now, store)
  BY DEF Counted, NextCount, Alive, Live
<1>3. log' = after
  BY DEF Called
<1>4. call \in CallRecord
  BY <1>1 DEF CallRecord
<1>5. call.key = key /\ call.at = now /\ call.answered /\ (call.pass <=> new.n <= MaxRequests)
  OBVIOUS
<1> HIDE DEF call, new, entry
<1>6. LogOk(after, now)
  BY <1>1, <1>4, <1>5, InAfter
<1>7. /\ KeyOk(store, after, key, new, now)
      /\ store = "memory" => FirstOk(after, Len(log) + 1)
  <2>1. CASE store = "memory"
    <3>1. MemoryOk(log, key, entry, now) /\ BudgetOk(log, key, 2 * MaxRequests - 1)
      BY <1>1, <2>1 DEF KeyOk
    <3>2. /\ EntryOk(new) /\ MemoryOk(after, key, new, now)
          /\ BudgetOk(after, key, 2 * MaxRequests - 1)
          /\ ~call.pass =>
               Cardinality(In(after, key, now - RequestWindow, now)) > MaxRequests
      BY <1>1, <1>2, <1>4, <1>5, <2>1, <3>1, MemoryCount
    <3>3. after[Len(log) + 1] = call /\ Len(after) = Len(log) + 1 /\ Len(after) \in Nat
      BY <1>1, <1>4, <1>5, InAfter, InShape
    <3>4. now - RequestWindow \in Int /\ now \in Int
      BY <1>1, PassiveAssumption
    <3> HIDE DEF after
    <3>5. In(after, key, now - RequestWindow, now) \subseteq 1..Len(after)
      BY <1>1, <1>6, <3>4, InShape
    <3>6. {j \in In(after, key, now - RequestWindow, now) : j <= Len(log) + 1}
            = In(after, key, now - RequestWindow, now)
      BY <3>3, <3>5
    <3>7. FirstOk(after, Len(log) + 1)
      BY <1>5, <3>2, <3>3, <3>6 DEF FirstOk
    <3> QED
      BY <2>1, <3>2, <3>7 DEF KeyOk, after
  <2>2. CASE store = "redis"
    <3>1. RedisOk(log, key, entry, now) /\ BudgetOk(log, key, MaxRequests)
      BY <1>1, <2>2 DEF KeyOk
    <3>2. /\ EntryOk(new) /\ RedisOk(after, key, new, now)
          /\ BudgetOk(after, key, MaxRequests)
      BY <1>1, <1>2, <1>4, <1>5, <2>2, <3>1, RedisCount
    <3> QED
      BY <2>2, <3>2 DEF KeyOk
  <2> QED
    BY <1>1, <2>1, <2>2
<1>8. \A other \in Key \ {key} : KeyOk(store, after, other, passiveCnt[other], now)
  <2> SUFFICES ASSUME NEW other \in Key \ {key}
               PROVE  KeyOk(store, after, other, passiveCnt[other], now)
    OBVIOUS
  <2>1. KeyOk(store, log, other, passiveCnt[other], now) /\ EntryOk(passiveCnt[other])
    BY DEF DataInv, KeyOk
  <2>2. call.key # other
    BY <1>5
  <2> QED
    BY <1>1, <1>4, <1>5, <2>1, <2>2, OtherKey DEF KeyOk
<1>9. DOMAIN passiveCnt' = Key /\ \A k \in Key : KeyOk(store, log', k, passiveCnt'[k], now)
  BY <1>3, <1>7, <1>8, KeysAfter DEF new
<1>10. ASSUME store = "memory", NEW i \in DOMAIN after
       PROVE  FirstOk(after, i)
  <2>1. /\ Len(log) \in Nat /\ DOMAIN log = 1..Len(log) /\ DOMAIN after = 1..Len(log) + 1
    BY <1>1, <1>4, <1>5, InAfter, InShape
  <2> HIDE DEF after
  <2>2. CASE i = Len(log) + 1
    BY <1>7, <1>10, <2>2
  <2>3. CASE i # Len(log) + 1
    <3>1. i \in DOMAIN log
      BY <1>10, <2>1, <2>3
    <3>2. FirstOk(log, i)
      BY <1>10, <3>1 DEF DataInv
    <3> QED
      BY <1>1, <1>4, <1>5, <3>1, <3>2, FirstStays DEF after
  <2> QED
    BY <2>2, <2>3
<1> HIDE DEF after
<1>11. now' \in Nat /\ store' \in Stores /\ LogOk(log', now')
  BY <1>1, <1>3, <1>6 DEF DataInv
<1>12. \A k \in Key : KeyOk(store', log', k, passiveCnt'[k], now')
  BY <1>9
<1>13. store' = "memory" => \A i \in DOMAIN log' : FirstOk(log', i)
  BY <1>3, <1>10
<1> QED
  BY <1>9, <1>11, <1>12, <1>13 DEF DataInv, KeyOk, EntryOk, MemoryOk, RedisOk, BudgetOk, FirstOk,
       LogOk, In, Passed

\* It counts, and its answer is lost; before Redis only.
LEMMA LostKeeps ==
    ASSUME DataInv, now' = now, store' = store, log' = log, store = "redis", NEW key \in Key,
           passiveCnt' = [passiveCnt EXCEPT ![key] = Counted(key)]
    PROVE  DataInv'
<1> DEFINE new == Counted(key)
           entry == passiveCnt[key]
<1>1. now \in Nat /\ LogOk(log, now) /\ KeyOk(store, log, key, entry, now)
  BY DEF DataInv
<1>2. new = NextCount(entry, now, "redis")
  BY DEF Counted, NextCount, Alive, Live
<1> HIDE DEF new, entry
<1>3. EntryOk(entry) /\ RedisOk(log, key, entry, now) /\ BudgetOk(log, key, MaxRequests)
  BY <1>1 DEF KeyOk
<1>4. EntryOk(new) /\ RedisOk(log, key, new, now)
  BY <1>1, <1>2, <1>3, RedisLost
<1>5. KeyOk(store, log, key, new, now)
  BY <1>3, <1>4 DEF KeyOk
<1>6. DOMAIN passiveCnt' = Key /\ \A k \in Key : KeyOk(store, log', k, passiveCnt'[k], now)
  <2>1. \A other \in Key \ {key} : KeyOk(store, log, other, passiveCnt[other], now)
    BY DEF DataInv
  <2> QED
    BY <1>5, <2>1, KeysAfter DEF new
<1>7. /\ now' \in Nat /\ store' \in Stores /\ LogOk(log', now') /\ store' # "memory"
      /\ \A k \in Key : KeyOk(store', log', k, passiveCnt'[k], now')
  BY <1>1, <1>6 DEF DataInv
<1> QED
  BY <1>6, <1>7 DEF DataInv, KeyOk, EntryOk, MemoryOk, RedisOk, BudgetOk, FirstOk, LogOk, In, Passed

\* Redis gives no answer.
LEMMA UnansweredKeeps ==
    ASSUME DataInv, now' = now, store' = store, passiveCnt' = passiveCnt, store = "redis",
           NEW key \in Key, Called(key, TRUE, FALSE)
    PROVE  DataInv'
<1> DEFINE call == [key |-> key, at |-> now, pass |-> TRUE, answered |-> FALSE]
           after == Append(log, call)
<1>1. /\ now \in Nat /\ LogOk(log, now) /\ log' = after
      /\ \A k \in Key : KeyOk(store, log, k, passiveCnt[k], now)
  BY DEF DataInv, Called
<1>2. call \in CallRecord /\ call.key = key /\ call.at = now /\ ~call.answered
  BY <1>1 DEF CallRecord
<1> HIDE DEF call
<1>3. LogOk(after, now)
  BY <1>1, <1>2, InAfter
<1>4. ASSUME NEW k \in Key
      PROVE  KeyOk(store, after, k, passiveCnt[k], now)
  <2>1. EntryOk(passiveCnt[k]) /\ RedisOk(log, k, passiveCnt[k], now) /\ BudgetOk(log, k, MaxRequests)
    BY <1>1 DEF KeyOk
  <2>2. RedisOk(after, k, passiveCnt[k], now) /\ BudgetOk(after, k, MaxRequests)
    <3>1. CASE k = key
      BY <1>1, <1>2, <2>1, <3>1, RedisUnanswered
    <3>2. CASE k # key
      BY <1>1, <1>2, <2>1, <3>2, OtherKey
    <3> QED
      BY <3>1, <3>2
  <2> QED
    BY <2>1, <2>2 DEF KeyOk
<1> HIDE DEF after
<1>5. /\ now' \in Nat /\ store' \in Stores /\ LogOk(log', now') /\ store' # "memory"
      /\ DOMAIN passiveCnt' = Key
      /\ \A k \in Key : KeyOk(store', log', k, passiveCnt'[k], now')
  BY <1>1, <1>3, <1>4 DEF DataInv
<1> QED
  BY <1>5 DEF DataInv, KeyOk, EntryOk, MemoryOk, RedisOk, BudgetOk, FirstOk, LogOk, In, Passed

\* Time passes.
LEMMA TickKeeps ==
    ASSUME DataInv, now' = now + 1, UNCHANGED <<store, passiveCnt, log>>
    PROVE  DataInv'
<1>1. /\ now \in Nat /\ LogOk(log, now)
      /\ \A k \in Key : KeyOk(store, log, k, passiveCnt[k], now)
  BY DEF DataInv
<1>2. LogOk(log, now + 1)
  BY <1>1, TimePasses
<1>3. ASSUME NEW k \in Key
      PROVE  KeyOk(store, log, k, passiveCnt[k], now + 1)
  BY <1>1, MemoryTick, RedisTick DEF KeyOk
<1>4. /\ now' \in Nat /\ store' \in Stores /\ LogOk(log', now')
      /\ DOMAIN passiveCnt' = Key
      /\ \A k \in Key : KeyOk(store', log', k, passiveCnt'[k], now')
      /\ store' = "memory" => \A i \in DOMAIN log' : FirstOk(log', i)
  BY <1>1, <1>2, <1>3 DEF DataInv
<1> QED
  BY <1>4 DEF DataInv, KeyOk, EntryOk, MemoryOk, RedisOk, BudgetOk, FirstOk, LogOk, In, Passed

\* The other steps leave the counters alone.
LEMMA RestKeeps ==
    ASSUME DataInv, UNCHANGED <<now, store, passiveCnt, log>>
    PROVE  DataInv'
<1>1. now' = now /\ store' = store /\ passiveCnt' = passiveCnt /\ log' = log
  OBVIOUS
<1>2. /\ now' \in Nat /\ store' \in Stores /\ LogOk(log', now')
      /\ DOMAIN passiveCnt' = Key
      /\ \A k \in Key : KeyOk(store', log', k, passiveCnt'[k], now')
      /\ store' = "memory" => \A i \in DOMAIN log' : FirstOk(log', i)
  BY <1>1 DEF DataInv
<1> QED
  BY <1>2 DEF DataInv, KeyOk, EntryOk, MemoryOk, RedisOk, BudgetOk, FirstOk, LogOk, In, Passed

-----------------------------------------------------------------------------
(* The requests.                                                           *)

LEMMA AskKeeps ==
    ASSUME IndInv, NEW w \in Worker, NEW client \in Client, NEW cookie \in Presented,
           Ask(w, client, cookie)
    PROVE  IndInv'
<1>1. DataInv'
  BY RestKeeps DEF IndInv, Ask
<1>2. cookie \in Cookies \cup {NoCookie}
  <2>1. ASSUME NEW d \in Client, jar[d] # NoCookie, NEW spelling \in Spelling
        PROVE  [jar[d] EXCEPT !.spelling = spelling] \in Cookies
    <3>1. jar[d] \in Cookies
      BY <2>1 DEF IndInv, WorkInv
    <3> QED
      BY <3>1 DEF Cookies
  <2> QED
    BY <2>1 DEF Presented
<1>3. Request("judge", client, cookie, NoKey, TRUE) \in Place
  BY <1>2 DEF Request, Place
<1>4. /\ Request("judge", client, cookie, NoKey, TRUE).pc = "judge"
      /\ Request("judge", client, cookie, NoKey, TRUE).client = client
  BY DEF Request
<1>5. WorkInv'
  BY <1>3, <1>4 DEF IndInv, WorkInv, Ask
<1> QED
  BY <1>1, <1>5 DEF IndInv

LEMMA IdleShape == Idle \in Place /\ Idle.pc = "idle"
  BY DEF Idle, Request, Place

LEMMA JudgeKeeps == ASSUME IndInv, NEW w \in Worker, Judge(w) PROVE IndInv'
<1>1. DataInv'
  BY RestKeeps DEF IndInv, Judge
<1>2. CASE Challenge(w)
  BY <1>1, <1>2, IdleShape DEF IndInv, WorkInv, Judge, Challenge
<1>3. CASE ~Challenge(w)
  <2> DEFINE key == IF Valid(work[w].cookie, work[w].client) THEN work[w].cookie
                    ELSE NetworkOf[work[w].client]
             new == [work[w] EXCEPT !.pc = "count", !.key = key]
  <2>1. /\ work' = [work EXCEPT ![w].pc = "count", ![w].key = key] /\ work[w].pc = "judge"
        /\ UNCHANGED <<now, jar>>
    BY <1>3 DEF Judge
  <2>2. work[w] \in Place /\ work[w].client \in Client
    BY <2>1 DEF IndInv, WorkInv
  <2>3. key \in Key
    BY <2>2, PassiveAssumption DEF Valid, Key, Place
  <2> HIDE DEF key
  <2>4. new \in Place /\ new.pc = "count" /\ new.client = work[w].client /\ new.key = key
    BY <2>2, <2>3 DEF Place
  <2> HIDE DEF new
  <2>5. work' = [work EXCEPT ![w] = new]
    BY <2>1 DEF new, IndInv, WorkInv
  <2>6. WorkInv'
    BY <2>1, <2>2, <2>3, <2>4, <2>5 DEF IndInv, WorkInv
  <2> QED
    BY <1>1, <2>6 DEF IndInv
<1> QED
  BY <1>2, <1>3

LEMMA CountKeeps == ASSUME IndInv, NEW w \in Worker, Count(w) PROVE IndInv'
<1> DEFINE key == work[w].key
           pass == Counted(key).n <= MaxRequests
<1>1. /\ work[w].pc = "count" /\ UNCHANGED <<now, store, jar>>
      /\ passiveCnt' = [passiveCnt EXCEPT ![key] = Counted(key)]
      /\ Called(key, pass, TRUE)
      /\ \/ work' = [work EXCEPT ![w].pc = "serve"]
         \/ work' = [work EXCEPT ![w] = Idle]
  BY DEF Count, Challenge
<1>2. key \in Key /\ work[w] \in Place /\ work[w].client \in Client
  BY <1>1 DEF IndInv, WorkInv
<1>3. DataInv'
  <2>1. pass \in BOOLEAN /\ (pass <=> Counted(key).n <= MaxRequests)
    OBVIOUS
  <2> HIDE DEF pass, key
  <2> QED
    BY <1>1, <1>2, <2>1, AnsweredKeeps DEF IndInv
<1> DEFINE new == [work[w] EXCEPT !.pc = "serve"]
<1>4. new \in Place /\ new.pc = "serve" /\ new.client \in Client /\ new.key \in Key
  BY <1>2 DEF Place
<1>5. work' = [work EXCEPT ![w] = new] \/ work' = [work EXCEPT ![w] = Idle]
  BY <1>1 DEF IndInv, WorkInv
<1> HIDE DEF new, pass, key
<1>6. WorkInv'
  BY <1>1, <1>4, <1>5, IdleShape DEF IndInv, WorkInv
<1> QED
  BY <1>3, <1>6 DEF IndInv

LEMMA CountLostKeeps == ASSUME IndInv, NEW w \in Worker, CountLost(w) PROVE IndInv'
<1>1. work[w].key \in Key
  BY DEF IndInv, WorkInv, CountLost
<1>2. DataInv'
  BY <1>1, LostKeeps DEF IndInv, CountLost
<1>3. WorkInv'
  BY DEF IndInv, WorkInv, CountLost
<1> QED
  BY <1>2, <1>3 DEF IndInv

LEMMA CountUnansweredKeeps == ASSUME IndInv, NEW w \in Worker, CountUnanswered(w) PROVE IndInv'
<1> DEFINE new == [work[w] EXCEPT !.pc = "serve", !.answered = FALSE]
<1>1. /\ work[w].pc = "count" /\ Called(work[w].key, TRUE, FALSE) /\ store = "redis"
      /\ work' = [work EXCEPT ![w].pc = "serve", ![w].answered = FALSE]
      /\ UNCHANGED <<now, store, passiveCnt, jar>>
  BY DEF CountUnanswered
<1>2. work[w].key \in Key /\ work[w] \in Place /\ work[w].client \in Client
  BY <1>1 DEF IndInv, WorkInv
<1>3. DataInv'
  BY <1>1, <1>2, UnansweredKeeps DEF IndInv
<1>4. new \in Place /\ new.pc = "serve" /\ new.client \in Client /\ new.key \in Key
  BY <1>2 DEF Place
<1>5. work' = [work EXCEPT ![w] = new]
  BY <1>1 DEF IndInv, WorkInv
<1> HIDE DEF new
<1>6. WorkInv'
  BY <1>1, <1>4, <1>5 DEF IndInv, WorkInv
<1> QED
  BY <1>3, <1>6 DEF IndInv

LEMMA ServeKeeps == ASSUME IndInv, NEW w \in Worker, Serve(w) PROVE IndInv'
<1>1. DataInv'
  BY RestKeeps DEF IndInv, Serve
<1>2. /\ work[w].client \in Client /\ now \in 0..MaxTime /\ work' = [work EXCEPT ![w] = Idle]
      /\ UNCHANGED now
      /\ \/ jar' = [jar EXCEPT ![work[w].client] = Issued(work[w].client)]
         \/ jar' = jar
  BY DEF IndInv, WorkInv, Serve
<1>3. Issued(work[w].client) \in Cookies
  <2>1. /\ BrowserOf[work[w].client] \in Browser /\ PassiveTTL \in Nat /\ MaxTime \in Nat
        /\ Lower \in Spelling
    BY <1>2, PassiveAssumption
  <2>2. now + PassiveTTL \in PassiveTTL..(MaxTime + PassiveTTL)
    BY <1>2, <2>1
  <2> QED
    BY <2>1, <2>2 DEF Issued, Cookies
<1>4. jar' \in [Client -> Cookies \cup {NoCookie}]
  BY <1>2, <1>3 DEF IndInv, WorkInv
<1>5. WorkInv'
  BY <1>2, <1>4, IdleShape DEF IndInv, WorkInv
<1> QED
  BY <1>1, <1>5 DEF IndInv

LEMMA InitHolds == ASSUME Init PROVE IndInv
<1>1. now = 0 /\ store \in Stores /\ log = <<>> /\ LogOk(log, now)
  BY DEF Init, LogOk
<1>2. MaxRequests \in Nat \ {0} /\ RequestWindow \in Nat \ {0} /\ MaxTime \in Nat
  BY PassiveAssumption
<1>3. \A key, from, to : In(log, key, from, to) = {} /\ Passed(log, key, from, to) = {}
  BY <1>1 DEF In, Passed
<1>4. \A key, from, to : Cardinality(Passed(log, key, from, to)) = 0
  BY <1>3, FS_EmptySet
<1>5. ASSUME NEW key \in Key
      PROVE  KeyOk(store, log, key, passiveCnt[key], now)
  <2>1. passiveCnt[key].n = 0 /\ passiveCnt[key].ends = 0 /\ EntryOk(passiveCnt[key])
    BY <1>2 DEF Init, EntryOk
  <2>2. MemoryOk(log, key, passiveCnt[key], now)
    BY <1>3, <2>1 DEF MemoryOk
  <2>3. \A budget \in Nat : BudgetOk(log, key, budget)
    BY <1>4 DEF BudgetOk
  <2>4. RedisOk(log, key, passiveCnt[key], now)
    BY <1>1, <1>2, <1>4, <2>1 DEF RedisOk
  <2> QED
    BY <1>2, <2>1, <2>2, <2>3, <2>4 DEF KeyOk
<1>6. DataInv
  BY <1>1, <1>5 DEF DataInv, Init
<1>7. WorkInv
  BY <1>1, <1>2, IdleShape DEF WorkInv, Init
<1> QED
  BY <1>6, <1>7 DEF IndInv

LEMMA NextHolds == ASSUME IndInv, [Next]_vars PROVE IndInv'
<1>1. CASE \E w \in Worker, client \in Client, cookie \in Presented : Ask(w, client, cookie)
  BY <1>1, AskKeeps
<1>2. CASE \E w \in Worker : Judge(w)
  BY <1>2, JudgeKeeps
<1>3. CASE \E w \in Worker : Count(w)
  BY <1>3, CountKeeps
<1>4. CASE \E w \in Worker : CountLost(w)
  BY <1>4, CountLostKeeps
<1>5. CASE \E w \in Worker : CountUnanswered(w)
  BY <1>5, CountUnansweredKeeps
<1>6. CASE \E w \in Worker : Serve(w)
  BY <1>6, ServeKeeps
<1>7. CASE \E client \in Client : Drop(client)
  <2>1. DataInv'
    BY <1>7, RestKeeps DEF IndInv, Drop
  <2>2. WorkInv'
    BY <1>7 DEF IndInv, WorkInv, Drop
  <2> QED
    BY <2>1, <2>2 DEF IndInv
<1>8. CASE Tick
  <2>1. DataInv'
    BY <1>8, TickKeeps DEF IndInv, Tick
  <2>2. WorkInv'
    BY <1>8, PassiveAssumption DEF IndInv, WorkInv, Tick
  <2> QED
    BY <2>1, <2>2 DEF IndInv
<1>9. CASE UNCHANGED vars
  <2>1. DataInv'
    BY <1>9, RestKeeps DEF IndInv, vars
  <2>2. WorkInv'
    BY <1>9 DEF IndInv, WorkInv, vars
  <2> QED
    BY <2>1, <2>2 DEF IndInv
<1> QED
  BY <1>1, <1>2, <1>3, <1>4, <1>5, <1>6, <1>7, <1>8, <1>9 DEF Next

-----------------------------------------------------------------------------

\* What is known of every counter and of the calls answered by it.
THEOREM Invariance == Spec => []IndInv
<1>1. Init => IndInv
  BY InitHolds
<1>2. IndInv /\ [Next]_vars => IndInv'
  BY NextHolds
<1> QED
  BY <1>1, <1>2, PTL DEF Spec

\* In memory a request that is challenged had MaxRequests others before it for
\* the value of its cookie or from its network within the window: the counter
\* begins again only when its window is over, and counts no request twice.
THEOREM ServedFirst == Spec => []FirstServed
<1>1. IndInv => FirstServed
  BY DEF IndInv, DataInv, FirstOk, FirstServed, Calls, In
<1> QED
  BY <1>1, Invariance, PTL

\* However its requests are spread over time and over workers, and whatever
\* answers are lost, a value of the cookie, in one spelling, or a network passes
\* no more than its budget of requests that were answered in a window's length,
\* or in memory one less than twice that.
THEOREM WithinBudget == Spec => []BudgetKept
<1>1. IndInv => BudgetKept
  <2> SUFFICES ASSUME IndInv, NEW i \in DOMAIN log
               PROVE  Cardinality(Passed(log, log[i].key, log[i].at,
                                         log[i].at + RequestWindow)) <= Budget
    BY DEF BudgetKept, Calls, Served, Passed, In
  <2>1. log[i].key \in Key /\ log[i].at \in Nat
    <3>1. log[i] \in CallRecord
      BY DEF IndInv, DataInv, LogOk
    <3> QED
      BY <3>1 DEF CallRecord
  <2>2. KeyOk(store, log, log[i].key, passiveCnt[log[i].key], now) /\ store \in {"memory", "redis"}
    BY <2>1, PassiveAssumption DEF IndInv, DataInv
  <2>3. BudgetOk(log, log[i].key, Budget)
    BY <2>2 DEF KeyOk, Budget
  <2> QED
    BY <2>1, <2>3 DEF BudgetOk
<1> QED
  BY <1>1, Invariance, PTL

-----------------------------------------------------------------------------
(* The shape of the variables.                                             *)

Counting == {v \in Worker : work[v].pc = "count"}

\* A counter ends within a window of the last tick; who counts has a call left.
ShapeInv ==
    /\ passiveCnt \in [Key -> Counters]
    /\ Len(log) + Cardinality(Counting) <= MaxCalls

LEMMA CountingSize == IsFiniteSet(Counting) /\ Cardinality(Counting) \in Nat
<1>1. IsFiniteSet(Counting)
  BY PassiveAssumption, FS_Subset DEF Counting
<1> QED
  BY <1>1, FS_CardinalityType

\* Fewer workers count, and the log is as long as it was.
LEMMA FewerCount ==
    ASSUME IndInv, ShapeInv, UNCHANGED <<passiveCnt, log>>, Counting' \subseteq Counting
    PROVE  ShapeInv'
<1>1. Len(log) \in Nat /\ MaxCalls \in Nat
  BY PassiveAssumption DEF IndInv, DataInv, LogOk
<1>2. Cardinality(Counting') <= Cardinality(Counting) /\ Cardinality(Counting') \in Nat
  <2>1. IsFiniteSet(Counting') /\ Cardinality(Counting') <= Cardinality(Counting)
    BY CountingSize, FS_Subset
  <2> QED
    BY <2>1, FS_CardinalityType
<1>3. Len(log') + Cardinality(Counting') <= MaxCalls
  BY <1>1, <1>2, CountingSize DEF ShapeInv
<1> QED
  BY <1>3 DEF ShapeInv

\* A worker's step to another place.
LEMMA CountingAfter ==
    ASSUME IndInv, NEW w \in Worker, NEW new, work' = [work EXCEPT ![w] = new]
    PROVE  /\ new.pc = "count" => Counting' = Counting \cup {w}
           /\ new.pc # "count" => Counting' = Counting \ {w}
  BY DEF IndInv, WorkInv, Counting

LEMMA JudgeShape == ASSUME IndInv, ShapeInv, NEW w \in Worker, Judge(w) PROVE ShapeInv'
<1>1. work[w].pc = "judge" /\ UNCHANGED <<passiveCnt, log>>
  BY DEF Judge
<1>2. CASE Challenge(w)
  <2>1. Counting' \subseteq Counting
    BY <1>2, IdleShape, CountingAfter DEF Challenge
  <2> QED
    BY <1>1, <2>1, FewerCount
<1>3. CASE ~Challenge(w)
  <2> DEFINE key == IF Valid(work[w].cookie, work[w].client) THEN work[w].cookie
                    ELSE NetworkOf[work[w].client]
             new == [work[w] EXCEPT !.pc = "count", !.key = key]
  <2>1. /\ work' = [work EXCEPT ![w].pc = "count", ![w].key = key]
        /\ Len(log) + Cardinality(Counting) < MaxCalls
    BY <1>3 DEF Judge, Counting
  <2> HIDE DEF key
  <2>2. work' = [work EXCEPT ![w] = new] /\ new.pc = "count"
    BY <2>1 DEF IndInv, WorkInv, Place
  <2> HIDE DEF new
  <2>3. Counting' = Counting \cup {w} /\ w \notin Counting
    BY <1>1, <2>2, CountingAfter DEF Counting
  <2>4. Cardinality(Counting') = Cardinality(Counting) + 1
    BY <2>3, CountingSize, FS_AddElement
  <2>5. Len(log) \in Nat /\ MaxCalls \in Nat
    BY PassiveAssumption DEF IndInv, DataInv, LogOk
  <2>6. Len(log') + Cardinality(Counting') <= MaxCalls
    BY <1>1, <2>1, <2>4, <2>5, CountingSize
  <2> QED
    BY <1>1, <2>6 DEF ShapeInv
<1> QED
  BY <1>2, <1>3

\* A counter after one more request ends within a window of now.
LEMMA CountedShape ==
    ASSUME IndInv, ShapeInv, NEW key \in Key PROVE Counted(key) \in Counters
<1>1. /\ now \in 0..MaxTime /\ MaxTime \in Nat /\ RequestWindow \in Nat /\ MaxRequests \in Nat
      /\ passiveCnt[key].n \in 0..(MaxRequests + 1)
      /\ passiveCnt[key].ends \in 0..(MaxTime + RequestWindow)
  BY PassiveAssumption DEF IndInv, WorkInv, ShapeInv, Counters
<1>2. Counted(key).n \in 0..(MaxRequests + 1)
  BY <1>1 DEF Counted
<1>3. Counted(key).ends \in 0..(MaxTime + RequestWindow)
  BY <1>1 DEF Counted
<1> QED
  BY <1>2, <1>3 DEF Counted, Counters

\* A call is logged as its worker leaves the count.
LEMMA CalledShape ==
    ASSUME IndInv, ShapeInv, NEW w \in Worker, work[w].pc = "count", NEW call,
           log' = Append(log, call), NEW new, work' = [work EXCEPT ![w] = new],
           new.pc # "count"
    PROVE  Len(log') + Cardinality(Counting') <= MaxCalls
<1>1. Len(log) \in Nat /\ MaxCalls \in Nat /\ Len(log') = Len(log) + 1
  BY PassiveAssumption DEF IndInv, DataInv, LogOk
<1>2. Counting' = Counting \ {w} /\ w \in Counting
  BY CountingAfter DEF Counting
<1>3. Cardinality(Counting') = Cardinality(Counting) - 1
  BY <1>2, CountingSize, FS_RemoveElement
<1> QED
  BY <1>1, <1>3, CountingSize DEF ShapeInv

LEMMA CountShape == ASSUME IndInv, ShapeInv, NEW w \in Worker, Count(w) PROVE ShapeInv'
<1> DEFINE key == work[w].key
           new == [work[w] EXCEPT !.pc = "serve"]
<1>1. /\ work[w].pc = "count"
      /\ passiveCnt' = [passiveCnt EXCEPT ![key] = Counted(key)]
      /\ \E call : log' = Append(log, call)
      /\ \/ work' = [work EXCEPT ![w].pc = "serve"]
         \/ work' = [work EXCEPT ![w] = Idle]
  BY DEF Count, Challenge, Called
<1>2. key \in Key /\ new.pc = "serve"
  BY <1>1 DEF IndInv, WorkInv, Place
<1>3. work' = [work EXCEPT ![w] = new] \/ work' = [work EXCEPT ![w] = Idle]
  BY <1>1 DEF IndInv, WorkInv
<1> HIDE DEF key, new
<1>4. passiveCnt' \in [Key -> Counters]
  BY <1>1, <1>2, CountedShape DEF ShapeInv
<1>5. Len(log') + Cardinality(Counting') <= MaxCalls
  BY <1>1, <1>2, <1>3, IdleShape, CalledShape
<1> QED
  BY <1>4, <1>5 DEF ShapeInv

LEMMA UnansweredShape ==
    ASSUME IndInv, ShapeInv, NEW w \in Worker, CountUnanswered(w) PROVE ShapeInv'
<1> DEFINE new == [work[w] EXCEPT !.pc = "serve", !.answered = FALSE]
<1>1. /\ work[w].pc = "count" /\ passiveCnt' = passiveCnt
      /\ \E call : log' = Append(log, call)
      /\ work' = [work EXCEPT ![w].pc = "serve", ![w].answered = FALSE]
  BY DEF CountUnanswered, Called
<1>2. work' = [work EXCEPT ![w] = new] /\ new.pc = "serve"
  BY <1>1 DEF IndInv, WorkInv, Place
<1> HIDE DEF new
<1>3. Len(log') + Cardinality(Counting') <= MaxCalls
  BY <1>1, <1>2, CalledShape
<1> QED
  BY <1>1, <1>3 DEF ShapeInv

LEMMA NextShape == ASSUME IndInv, ShapeInv, [Next]_vars PROVE ShapeInv'
<1>1. ASSUME NEW w \in Worker, NEW client \in Client, NEW cookie, Ask(w, client, cookie)
      PROVE  ShapeInv'
  <2>1. work' = [work EXCEPT ![w] = Request("judge", client, cookie, NoKey, TRUE)]
    BY <1>1 DEF Ask
  <2> DEFINE new == Request("judge", client, cookie, NoKey, TRUE)
  <2>2. Counting' \subseteq Counting
    <3>1. new.pc = "judge"
      BY DEF Request
    <3> HIDE DEF new
    <3>2. Counting' = Counting \ {w}
      BY <2>1, <3>1, CountingAfter DEF new
    <3> QED
      BY <3>2
  <2> QED
    BY <1>1, <2>2, FewerCount DEF Ask
<1>2. ASSUME NEW w \in Worker, CountLost(w) PROVE ShapeInv'
  <2>1. work[w].key \in Key
    BY <1>2 DEF IndInv, WorkInv, CountLost
  <2>2. passiveCnt' \in [Key -> Counters]
    BY <1>2, <2>1, CountedShape DEF ShapeInv, CountLost
  <2>3. Len(log') = Len(log) /\ Counting' = Counting
    BY <1>2 DEF CountLost, Counting
  <2> QED
    BY <2>2, <2>3 DEF ShapeInv
<1>3. ASSUME NEW w \in Worker, Serve(w) PROVE ShapeInv'
  <2>1. Counting' \subseteq Counting
    BY <1>3, IdleShape, CountingAfter DEF Serve
  <2> QED
    BY <1>3, <2>1, FewerCount DEF Serve
<1>4. ASSUME NEW client \in Client, Drop(client) PROVE ShapeInv'
  BY <1>4, FewerCount DEF Drop, Counting
<1>5. CASE Tick
  BY <1>5, FewerCount DEF Tick, Counting
<1>6. CASE UNCHANGED vars
  BY <1>6, FewerCount DEF vars, Counting
<1> QED
  BY <1>1, <1>2, <1>3, <1>4, <1>5, <1>6, JudgeShape, CountShape, UnansweredShape DEF Next

LEMMA InitShape == ASSUME Init PROVE ShapeInv
<1>1. MaxRequests \in Nat /\ MaxTime \in Nat /\ RequestWindow \in Nat /\ MaxCalls \in Nat
  BY PassiveAssumption
<1>2. passiveCnt \in [Key -> Counters]
  BY <1>1 DEF Init, Counters
<1>3. Counting = {}
  BY IdleShape DEF Init, Counting
<1>4. Len(log) + Cardinality(Counting) = 0
  BY <1>3, FS_EmptySet DEF Init
<1> QED
  BY <1>1, <1>2, <1>4 DEF ShapeInv

\* Every variable keeps its shape, and no more calls are made than the bound
\* allows, for any finite number of requests at a time.
THEOREM TypeCorrect == Spec => []TypeOK
<1>1. IndInv /\ ShapeInv => TypeOK
  <2> SUFFICES ASSUME IndInv, ShapeInv PROVE TypeOK
    OBVIOUS
  <2>1. Len(log) <= MaxCalls
    <3>1. Len(log) \in Nat /\ MaxCalls \in Nat
      BY PassiveAssumption DEF IndInv, DataInv, LogOk
    <3> QED
      BY <3>1, CountingSize DEF ShapeInv
  <2>2. \A w \in Worker : work[w] \in Place
    BY DEF IndInv, WorkInv
  <2> QED
    BY <2>1, <2>2 DEF TypeOK, IndInv, DataInv, WorkInv, ShapeInv, Place
<1>2. Init => IndInv /\ ShapeInv
  BY InitHolds, InitShape
<1>3. IndInv /\ ShapeInv /\ [Next]_vars => IndInv' /\ ShapeInv'
  BY NextHolds, NextShape
<1> QED
  BY <1>1, <1>2, <1>3, PTL DEF Spec

=============================================================================
