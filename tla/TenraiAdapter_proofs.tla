------------------------ MODULE TenraiAdapter_proofs ------------------------
(***************************************************************************)
(* Proofs about TenraiAdapter, for any callers, interval, attempts,        *)
(* threshold, cooldown and waits.                                          *)
(***************************************************************************)
EXTENDS TenraiAdapter, FiniteSetTheorems, TLAPS

-----------------------------------------------------------------------------
(* The line at the limiter's lock.                                         *)

LEMMA JoinLine ==
    ASSUME NEW c \in Callers, line \in Seq(Callers), LineKept,
           pc \in [Callers -> Steps], pc[c] \notin {"limiter", "spacing"},
           line' = Append(line, c), pc' = [pc EXCEPT ![c] = "limiter"]
    PROVE  /\ line' \in Seq(Callers)
           /\ LineKept'
           /\ \A d \in Callers : pc[d] = "spacing" /\ HasLock(d) => HasLock(d)'
<1>1. line' \in Seq(Callers) /\ Len(line') = Len(line) + 1 /\ Len(line) \in Nat
  OBVIOUS
<1>2. \A i \in 1 .. Len(line) : line'[i] = line[i]
  OBVIOUS
<1>3. line'[Len(line) + 1] = c
  OBVIOUS
<1>4. \A i \in 1 .. Len(line) : line[i] # c
  BY DEF LineKept
<1>5. \A d \in Callers :
         pc'[d] \in {"limiter", "spacing"} <=> \E i \in 1 .. Len(line') : line'[i] = d
  <2> SUFFICES ASSUME NEW d \in Callers
               PROVE  pc'[d] \in {"limiter", "spacing"} <=> \E i \in 1 .. Len(line') : line'[i] = d
    OBVIOUS
  <2>1. CASE d = c
    BY <2>1, <1>1, <1>3
  <2>2. CASE d # c
    <3>1. pc'[d] = pc[d]
      BY <2>2
    <3>2. (\E i \in 1 .. Len(line') : line'[i] = d) <=> \E i \in 1 .. Len(line) : line[i] = d
      BY <2>2, <1>1, <1>2, <1>3
    <3> QED BY <3>1, <3>2 DEF LineKept
  <2> QED BY <2>1, <2>2
<1>6. \A i, j \in 1 .. Len(line') : line'[i] = line'[j] => i = j
  BY <1>1, <1>2, <1>3, <1>4 DEF LineKept
<1>7. \A d \in Callers : HasLock(d) => HasLock(d)'
  BY <1>1, <1>2 DEF HasLock
<1> QED BY <1>1, <1>5, <1>6, <1>7 DEF LineKept

LEMMA LeaveLine ==
    ASSUME NEW c \in Callers, line \in Seq(Callers), LineKept, HasLock(c),
           pc \in [Callers -> Steps], pc[c] \in {"limiter", "spacing"},
           line' = Tail(line), pc' = [pc EXCEPT ![c] = "sent"]
    PROVE  line' \in Seq(Callers) /\ LineKept'
<1>1. line # << >> /\ line[1] = c
  BY DEF HasLock
<1>2. /\ line' \in Seq(Callers) /\ Len(line') = Len(line) - 1
      /\ Len(line) \in Nat \ {0}
      /\ \A i \in 1 .. Len(line') : line'[i] = line[i + 1]
  BY <1>1
<1>3. \A d \in Callers :
         pc'[d] \in {"limiter", "spacing"} <=> \E i \in 1 .. Len(line') : line'[i] = d
  <2> SUFFICES ASSUME NEW d \in Callers
               PROVE  pc'[d] \in {"limiter", "spacing"} <=> \E i \in 1 .. Len(line') : line'[i] = d
    OBVIOUS
  <2>1. CASE d = c
    <3>1. \A i \in 1 .. Len(line') : line'[i] # c
      BY <1>1, <1>2 DEF LineKept
    <3> QED BY <2>1, <3>1
  <2>2. CASE d # c
    <3>1. pc'[d] = pc[d]
      BY <2>2
    <3>2. ASSUME NEW i \in 1 .. Len(line), line[i] = d
          PROVE  \E k \in 1 .. Len(line') : line'[k] = d
      <4>1. i - 1 \in 1 .. Len(line') /\ line'[i - 1] = d
        BY <1>1, <1>2, <2>2, <3>2
      <4> QED BY <4>1
    <3>3. ASSUME NEW i \in 1 .. Len(line'), line'[i] = d
          PROVE  \E k \in 1 .. Len(line) : line[k] = d
      <4>1. i + 1 \in 1 .. Len(line) /\ line[i + 1] = d
        BY <1>2, <3>3
      <4> QED BY <4>1
    <3> QED BY <3>1, <3>2, <3>3 DEF LineKept
  <2> QED BY <2>1, <2>2
<1>4. \A i, j \in 1 .. Len(line') : line'[i] = line'[j] => i = j
  <2> SUFFICES ASSUME NEW i \in 1 .. Len(line'), NEW j \in 1 .. Len(line'), line'[i] = line'[j]
               PROVE  i = j
    OBVIOUS
  <2>1. i + 1 \in 1 .. Len(line) /\ j + 1 \in 1 .. Len(line) /\ line[i + 1] = line[j + 1]
    BY <1>2
  <2> QED BY <2>1 DEF LineKept
<1> QED BY <1>2, <1>3, <1>4 DEF LineKept

\* The lock has one holder, so one caller at most is spacing.
LEMMA OneHolder ==
    ASSUME NEW c \in Callers, NEW d \in Callers, HasLock(c), HasLock(d)
    PROVE  c = d
BY DEF HasLock

\* Steps that leave the line alone keep it in order.
LEMMA SameLine ==
    ASSUME LineKept, line' = line,
           \A d \in Callers : pc'[d] \in {"limiter", "spacing"} <=> pc[d] \in {"limiter", "spacing"}
    PROVE  LineKept'
BY DEF LineKept

\* The breaker's part stays when the breaker stays and no caller in hit wakes.
LEMMA SameBreaker ==
    ASSUME BreakerKept, FailuresCounted, UNCHANGED <<breaker, outage>>,
           \A d \in hit : pc'[d] = "idle"
    PROVE  BreakerKept' /\ FailuresCounted'
BY DEF BreakerKept, FailuresCounted, breaker, outage

-----------------------------------------------------------------------------
(* One step at a time.                                                     *)

LEMMA CallStep == ASSUME TenraiInv, NEW c \in Callers, Call(c) PROVE TenraiInv'
<1> USE DEF TenraiInv, history, outage, breaker
<1>1. line' \in Seq(Callers) /\ LineKept'
      /\ \A d \in Callers : pc[d] = "spacing" /\ HasLock(d) => HasLock(d)'
  BY JoinLine DEF Call, TypeOK
<1>2. TypeOK'
  BY <1>1, LimitsAssumption DEF Call, TypeOK, Steps
<1>3. SleepCovers'
  BY <1>1 DEF Call, TypeOK, SleepCovers
<1>4. c \notin hit
  BY DEF Call, TypeOK, BreakerKept, Refuses
<1>5. \A d \in hit : pc'[d] = "idle"
  BY <1>4 DEF Call, TypeOK, BreakerKept
<1>6. BreakerKept' /\ FailuresCounted'
  BY <1>5, SameBreaker DEF Call
<1> QED BY <1>1, <1>2, <1>3, <1>6

LEMMA SpaceStep == ASSUME TenraiInv, NEW c \in Callers, Space(c) PROVE TenraiInv'
<1> USE DEF TenraiInv, history, outage, breaker, limiter
<1>1. Interval - since \in Nat /\ Interval \in Nat /\ since \in Nat
  BY LimitsAssumption DEF Space, TypeOK
<1>2. TypeOK'
  BY <1>1 DEF Space, TypeOK, Steps
<1>3. LineKept'
  BY SameLine DEF Space, TypeOK
<1>4. SleepCovers'
  <2>1. /\ HasLock(c) /\ since' = since /\ quiet' = quiet
        /\ \A d \in Callers : HasLock(d)' <=> HasLock(d)
    BY DEF Space, HasLock
  <2>2. pc' = [pc EXCEPT ![c] = "spacing"] /\ wait'[c] = Interval - since
    BY DEF Space, TypeOK
  <2>3. \A d \in Callers \ {c} : pc'[d] = pc[d] /\ wait'[d] = wait[d]
    BY DEF Space, TypeOK
  <2>4. since + (Interval - since) >= Interval
    BY <1>1
  <2> QED
    BY <2>1, <2>2, <2>3, <2>4 DEF SleepCovers
<1>5. BreakerKept' /\ FailuresCounted'
  BY SameBreaker DEF Space, TypeOK, BreakerKept
<1> QED BY <1>2, <1>3, <1>4, <1>5

\* Whoever may send holds the lock, and the interval is over.
LEMMA SenderWaited ==
    ASSUME TenraiInv, NEW c \in Callers, MaySend(c)
    PROVE  HasLock(c) /\ since = Interval /\ quiet = Interval
<1> USE DEF TenraiInv
<1>1. since \in 0 .. Interval /\ Interval \in Nat /\ wait[c] \in Nat /\ since = quiet
  BY LimitsAssumption DEF TypeOK, SleepCovers
<1>2. CASE pc[c] = "limiter"
  BY <1>1, <1>2 DEF MaySend
<1>3. CASE pc[c] = "spacing"
  BY <1>1, <1>3 DEF MaySend, SleepCovers
<1> QED BY <1>2, <1>3 DEF MaySend

LEMMA SendStep == ASSUME TenraiInv, NEW c \in Callers, Send(c) PROVE TenraiInv'
<1> USE DEF TenraiInv, history, outage, breaker, limiter
<1>1. HasLock(c) /\ pc[c] \in {"limiter", "spacing"}
  BY SenderWaited DEF Send, MaySend
<1>2. line' \in Seq(Callers) /\ LineKept'
  BY <1>1, LeaveLine DEF Send, TypeOK
<1>3. TypeOK'
  <2>1. since' \in 0 .. Interval /\ quiet' \in 0 .. Interval
    BY LimitsAssumption DEF Send
  <2>2. pc' \in [Callers -> Steps]
    BY DEF Send, TypeOK, Steps
  <2>3. UNCHANGED <<open, failures, cooling, attempt, wait, fails, hit, cooled>>
    BY DEF Send
  <2> QED
    BY <1>2, <2>1, <2>2, <2>3 DEF TypeOK
<1>4. \A d \in Callers : pc'[d] # "spacing"
  BY <1>1, OneHolder DEF Send, TypeOK, SleepCovers
<1>5. SleepCovers'
  BY <1>4 DEF Send, SleepCovers
<1>6. BreakerKept' /\ FailuresCounted'
  BY <1>1, SameBreaker DEF Send, TypeOK, BreakerKept
<1> QED BY <1>2, <1>3, <1>5, <1>6

LEMMA RetryStep == ASSUME TenraiInv, NEW c \in Callers, Retry(c) PROVE TenraiInv'
<1> USE DEF TenraiInv, history, outage, breaker
<1>1. line' \in Seq(Callers) /\ LineKept'
      /\ \A d \in Callers : pc[d] = "spacing" /\ HasLock(d) => HasLock(d)'
  BY JoinLine DEF Retry, TypeOK
<1>2. TypeOK'
  BY <1>1 DEF Retry, TypeOK, Steps
<1>3. SleepCovers'
  BY <1>1 DEF Retry, TypeOK, SleepCovers
<1>4. BreakerKept' /\ FailuresCounted'
  BY SameBreaker DEF Retry, TypeOK, BreakerKept
<1> QED BY <1>1, <1>2, <1>3, <1>4

\* A request that ends or backs off leaves the limiter and its line alone.
LEMMA ReplyKeepsLimiter ==
    ASSUME TenraiInv, NEW c \in Callers, NEW s \in {"idle", "backoff"},
           pc[c] = "sent", pc' = [pc EXCEPT ![c] = s],
           UNCHANGED <<limiter, quiet>>,
           \A d \in Callers : d # c => wait'[d] = wait[d]
    PROVE  LineKept' /\ SleepCovers' /\ pc' \in [Callers -> Steps]
<1> USE DEF TenraiInv, limiter
<1>1. LineKept'
  BY SameLine DEF TypeOK
<1>2. SleepCovers'
  BY DEF TypeOK, SleepCovers, HasLock
<1>3. pc' \in [Callers -> Steps]
  BY DEF TypeOK, Steps
<1> QED BY <1>1, <1>2, <1>3

LEMMA AnsweredStep == ASSUME TenraiInv, NEW c \in Callers, Answered(c) PROVE TenraiInv'
<1> USE DEF TenraiInv
<1>1. LineKept' /\ SleepCovers' /\ pc' \in [Callers -> Steps]
  BY ReplyKeepsLimiter DEF Answered
<1>2. TypeOK'
  <2>1. open' \in BOOLEAN /\ cooled' \in BOOLEAN
    BY DEF Answered, RecordSuccess
  <2>2. /\ failures' \in 0 .. Threshold /\ cooling' \in 0 .. Cooldown
        /\ fails' \in Nat /\ hit' \in SUBSET Callers
    BY LimitsAssumption DEF Answered, RecordSuccess
  <2>3. UNCHANGED <<since, line, attempt, wait, quiet>>
    BY DEF Answered, limiter
  <2> QED BY <1>1, <2>1, <2>2, <2>3 DEF TypeOK
<1>3. BreakerKept'
  BY LimitsAssumption DEF Answered, RecordSuccess, BreakerKept
<1>4. FailuresCounted'
  BY FS_EmptySet, LimitsAssumption DEF Answered, RecordSuccess, FailuresCounted
<1> QED BY <1>1, <1>2, <1>3, <1>4

LEMMA DeniedStep == ASSUME TenraiInv, NEW c \in Callers, Denied(c) PROVE TenraiInv'
<1> USE DEF TenraiInv, history, outage, breaker, limiter
<1>1. LineKept' /\ SleepCovers' /\ pc' \in [Callers -> Steps]
  BY ReplyKeepsLimiter DEF Denied
<1>2. TypeOK'
  BY <1>1 DEF Denied, TypeOK
<1>3. BreakerKept' /\ FailuresCounted'
  BY SameBreaker DEF Denied, TypeOK, BreakerKept
<1> QED BY <1>1, <1>2, <1>3

LEMMA BackOffStep == ASSUME TenraiInv, NEW c \in Callers, BackOff(c) PROVE TenraiInv'
<1> USE DEF TenraiInv, history, outage, breaker, limiter
<1>1. PICK w \in Waits(c) : wait' = [wait EXCEPT ![c] = w]
  BY DEF BackOff
<1>2. w \in Nat
  BY LimitsAssumption DEF Waits, TypeOK
<1>3. LineKept' /\ SleepCovers' /\ pc' \in [Callers -> Steps]
  BY <1>1, ReplyKeepsLimiter DEF BackOff, TypeOK
<1>4. attempt' \in [Callers -> 1 .. MaxAttempts]
  BY LimitsAssumption DEF BackOff, TypeOK
<1>5. TypeOK'
  <2>1. wait' \in [Callers -> Nat]
    BY <1>1, <1>2 DEF TypeOK
  <2>2. UNCHANGED <<since, line, quiet, open, failures, cooling, fails, hit, cooled>>
    BY DEF BackOff
  <2> QED
    BY <1>3, <1>4, <2>1, <2>2 DEF TypeOK
<1>6. BreakerKept' /\ FailuresCounted'
  BY SameBreaker DEF BackOff, TypeOK, BreakerKept
<1> QED BY <1>3, <1>5, <1>6

\* A caller whose call fails is not in hit yet.
LEMMA GiveUpStep == ASSUME TenraiInv, NEW c \in Callers, GiveUp(c) PROVE TenraiInv'
<1> USE DEF TenraiInv
<1>1. LineKept' /\ SleepCovers' /\ pc' \in [Callers -> Steps]
  BY ReplyKeepsLimiter DEF GiveUp
<1>2. /\ c \notin hit /\ IsFiniteSet(hit)
      /\ Cardinality(hit) \in Nat /\ Cardinality({}) = 0
  BY CallersAssumption, FS_Subset, FS_CardinalityType, FS_EmptySet DEF GiveUp, TypeOK, BreakerKept
<1>3. Cardinality(hit \union {c}) = Cardinality(hit) + 1
  BY <1>2, FS_AddElement
<1>4. /\ Threshold \in Nat \ {0} /\ Cooldown \in Nat \ {0}
      /\ failures \in 0 .. Threshold /\ fails \in Nat /\ cooled \in BOOLEAN
      /\ open \in BOOLEAN /\ cooling \in 0 .. Cooldown /\ hit \in SUBSET Callers
  BY LimitsAssumption DEF TypeOK
<1>5. CASE failures + 1 >= Threshold
  <2>1. /\ failures' = Threshold /\ open' = TRUE /\ cooling' = Cooldown
        /\ hit' = hit \union {c} /\ fails' = fails + 1 /\ cooled' = cooled
    BY <1>5 DEF GiveUp, RecordFailure
  <2>2. TypeOK'
    BY <1>1, <1>4, <2>1 DEF GiveUp, TypeOK, limiter
  <2>3. BreakerKept'
    BY <1>4, <2>1 DEF GiveUp, TypeOK, BreakerKept
  <2>4. FailuresCounted'
    BY <1>2, <1>3, <1>4, <2>1 DEF FailuresCounted
  <2> QED BY <1>1, <2>2, <2>3, <2>4
<1>6. CASE ~(failures + 1 >= Threshold)
  <2>1. /\ failures' = failures + 1 /\ fails' = fails + 1
        /\ UNCHANGED <<open, cooling, hit, cooled>>
    BY <1>6 DEF GiveUp, RecordFailure
  <2>2. ~open /\ ~cooled /\ cooling = 0 /\ hit = {} /\ fails <= failures
    BY <1>4, <1>6 DEF BreakerKept
  <2>3. TypeOK'
    BY <1>1, <1>4, <1>6, <2>1 DEF GiveUp, TypeOK, limiter
  <2>4. BreakerKept'
    BY <1>4, <1>6, <2>1, <2>2 DEF BreakerKept
  <2>5. FailuresCounted'
    BY <1>2, <1>4, <1>6, <2>1, <2>2 DEF FailuresCounted
  <2> QED BY <1>1, <2>3, <2>4, <2>5
<1> QED BY <1>5, <1>6

LEMMA TickStep == ASSUME TenraiInv, Tick PROVE TenraiInv'
<1> USE DEF TenraiInv
<1>1. /\ Interval \in Nat /\ Cooldown \in Nat /\ since \in 0 .. Interval
      /\ cooling \in 0 .. Cooldown /\ quiet = since
  BY LimitsAssumption DEF TypeOK, SleepCovers
<1>2. /\ More(since) \in 0 .. Interval /\ More(since) >= since
      /\ More(since) = Interval \/ More(since) = since + 1
      /\ Less(cooling) \in 0 .. Cooldown
  BY <1>1 DEF More, Less
<1>3. \A c \in Callers : wait[c] \in Nat /\ Less(wait[c]) \in Nat /\ Less(wait[c]) + 1 >= wait[c]
  BY DEF TypeOK, Less
<1>4. wait' \in [Callers -> Nat] /\ \A c \in Callers : wait'[c] = Less(wait[c])
  BY <1>3 DEF Tick
<1>5. TypeOK'
  <2>1. open' \in BOOLEAN /\ cooled' \in BOOLEAN
    BY DEF Tick, TypeOK, outage
  <2>2. fails' \in Nat /\ hit' \in SUBSET Callers
    BY DEF Tick, TypeOK, outage
  <2>3. since' \in 0 .. Interval /\ quiet' \in 0 .. Interval /\ cooling' \in 0 .. Cooldown
    BY <1>1, <1>2 DEF Tick
  <2> QED BY <1>4, <2>1, <2>2, <2>3 DEF Tick, TypeOK
<1>6. LineKept'
  BY SameLine DEF Tick
<1>7. SleepCovers'
  <2>1. since' = quiet'
    BY <1>1 DEF Tick
  <2>2. ASSUME NEW c \in Callers, pc[c] = "spacing"
        PROVE  HasLock(c)' /\ since' + wait'[c] >= Interval
    <3>1. HasLock(c)' /\ since + wait[c] >= Interval
      BY <2>2 DEF SleepCovers, Tick, HasLock
    <3>2. since' = More(since) /\ wait'[c] = Less(wait[c])
      BY <1>4 DEF Tick
    <3> QED BY <1>1, <1>2, <1>3, <3>1, <3>2
  <2> QED BY <2>1, <2>2 DEF SleepCovers, Tick
<1>8. BreakerKept' /\ FailuresCounted'
  <2>1. CASE cooling = 1
    <3>1. cooling' = 0 /\ fails' = 0 /\ hit' = {} /\ cooled' = TRUE /\ UNCHANGED <<failures, open, pc>>
      BY <2>1 DEF Tick, Less
    <3> QED BY <2>1, <3>1, FS_EmptySet DEF BreakerKept, FailuresCounted
  <2>2. CASE cooling # 1
    <3>1. UNCHANGED <<failures, open, pc, fails, hit, cooled>> /\ (cooling' = 0 <=> cooling = 0)
          /\ (cooling' > 0 <=> cooling > 0)
      BY <2>2, <1>1 DEF Tick, Less, outage
    <3> QED BY <3>1 DEF BreakerKept, FailuresCounted
  <2> QED BY <2>1, <2>2
<1> QED BY <1>5, <1>6, <1>7, <1>8

-----------------------------------------------------------------------------
(* The theorems.                                                           *)

LEMMA InitInv == Init => TenraiInv
<1> SUFFICES ASSUME Init PROVE TenraiInv
  OBVIOUS
<1>1. TypeOK
  <2>1. open \in BOOLEAN /\ cooled \in BOOLEAN
    BY DEF Init
  <2>4. line \in Seq(Callers) /\ hit \in SUBSET Callers
    BY DEF Init
  <2>2. /\ since \in 0 .. Interval /\ quiet \in 0 .. Interval /\ failures \in 0 .. Threshold
        /\ cooling \in 0 .. Cooldown /\ fails \in Nat
    BY LimitsAssumption DEF Init
  <2>3. /\ pc \in [Callers -> Steps] /\ attempt \in [Callers -> 1 .. MaxAttempts]
        /\ wait \in [Callers -> Nat]
    BY LimitsAssumption DEF Init, Steps
  <2> QED BY <2>1, <2>2, <2>3, <2>4 DEF TypeOK
<1>2. LineKept /\ SleepCovers
  BY DEF Init, LineKept, SleepCovers
<1>3. BreakerKept /\ FailuresCounted
  BY FS_EmptySet, LimitsAssumption DEF Init, BreakerKept, FailuresCounted
<1> QED BY <1>1, <1>2, <1>3 DEF TenraiInv

LEMMA NextInv == TenraiInv /\ [Next]_vars => TenraiInv'
<1> SUFFICES ASSUME TenraiInv, [Next]_vars PROVE TenraiInv'
  OBVIOUS
<1>1. ASSUME NEW c \in Callers, Call(c) \/ Proceed(c) PROVE TenraiInv'
  BY <1>1, CallStep, SpaceStep, SendStep, RetryStep, AnsweredStep, DeniedStep, BackOffStep,
     GiveUpStep DEF Proceed
<1>2. CASE UNCHANGED vars
  <2>1. TypeOK' /\ LineKept' /\ SleepCovers'
    BY <1>2 DEF TenraiInv, TypeOK, LineKept, SleepCovers, HasLock, vars, limiter, breaker, caller,
                history, outage
  <2>2. BreakerKept' /\ FailuresCounted'
    BY <1>2 DEF TenraiInv, BreakerKept, FailuresCounted, vars, breaker, caller, history, outage
  <2> QED BY <2>1, <2>2 DEF TenraiInv
<1> QED BY <1>1, <1>2, TickStep DEF Next

(* The inductive invariant of calls, limiter and breaker
   (tenrai.py, rate_limiter.py, circuit_breaker.py). *)
THEOREM TenraiInvariant == Spec => []TenraiInv
BY InitInv, NextInv, PTL DEF Spec

(* The rate limiter (rate_limiter.py:21-34) keeps every two requests of an
   adapter at least the interval apart, whoever sends them. *)
THEOREM RequestsAreSpaced == Spec => RequestsSpaced
<1>1. TenraiInv /\ [Next]_vars
      => [\A c \in Callers : pc[c] # "sent" /\ pc'[c] = "sent" => quiet = Interval]_vars
  <2> SUFFICES ASSUME TenraiInv, Next, NEW c \in Callers, pc[c] # "sent", pc'[c] = "sent"
               PROVE  quiet = Interval
    OBVIOUS
  <2>1. pc \in [Callers -> Steps]
    BY DEF TenraiInv, TypeOK
  <2>2. ~Tick
    BY DEF Tick
  <2>3. PICK d \in Callers : Call(d) \/ Proceed(d)
    BY <2>2 DEF Next
  <2>4. Send(d)
    BY <2>1, <2>3 DEF Proceed, Call, Space, Retry, Answered, Denied, BackOff, GiveUp
  <2> QED BY <2>4, SenderWaited DEF Send
<1>2. Spec => []TenraiInv
  BY TenraiInvariant
<1> QED BY <1>1, <1>2, PTL DEF Spec, RequestsSpaced

(* The circuit breaker (circuit_breaker.py:28-42) bounds what an outage costs:
   at most Threshold - 1 failed calls and one per caller before everybody is
   refused, and one per caller after each cooldown. *)
THEOREM OutagesAreCheap == Spec => []OutageIsCheap
<1>1. TenraiInv => OutageIsCheap
  <2> SUFFICES ASSUME TenraiInv PROVE OutageIsCheap
    OBVIOUS
  <2>1. hit \in SUBSET Callers /\ fails \in Nat
    BY DEF TenraiInv, TypeOK
  <2>2. Cardinality(hit) <= Cardinality(Callers) /\ Cardinality(hit) \in Nat
        /\ Cardinality(Callers) \in Nat
    BY <2>1, CallersAssumption, FS_Subset, FS_CardinalityType
  <2> QED BY <2>1, <2>2, LimitsAssumption DEF TenraiInv, FailuresCounted, OutageIsCheap
<1> QED BY <1>1, TenraiInvariant, PTL
=============================================================================
