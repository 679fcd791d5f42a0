---------------------------- MODULE TenraiAdapter ----------------------------
(***************************************************************************)
(* Calls to Tenrai: the circuit breaker in front of a call, its attempts   *)
(* with their waits, and the rate limiter in front of every attempt.       *)
(*                                                                         *)
(* Time is counted in ticks and every deadline as the ticks that are left  *)
(* of it, so no clock grows.  A tick may come although a sleep is over:    *)
(* the event loop wakes a task no earlier than asked, but maybe later.     *)
(***************************************************************************)
EXTENDS Naturals, Sequences, FiniteSets

CONSTANTS
    Callers,        \* tasks that share the adapter; the jobs use one
    Interval,       \* ticks between two requests: 60 / requests_per_minute
    MaxAttempts,    \* attempts of one call: max_attempts
    Threshold,      \* failed calls that open the circuit: failure_threshold
    Cooldown,       \* ticks that an open circuit refuses calls: cooldown_s
    Backoff,        \* ticks slept after each attempt that fails: 1, 2, 4 ... seconds
    MaxRetryAfter   \* bound: the longest Retry-After that Tenrai sends

ASSUME CallersAssumption == Callers # {} /\ IsFiniteSet(Callers)
ASSUME LimitsAssumption ==
    /\ Interval \in Nat \ {0} /\ MaxAttempts \in Nat \ {0}
    /\ Threshold \in Nat \ {0} /\ Cooldown \in Nat \ {0}
    /\ Backoff \in [1 .. MaxAttempts -> Nat] /\ MaxRetryAfter \in Nat

VARIABLES
    since,     \* limiter: ticks since _last_request_time, Interval for "long ago" or None
    line,      \* limiter: callers at the asyncio.Lock, its holder first
    failures,  \* breaker: _consecutive_failures; counting stops at Threshold
    open,      \* breaker: _opened_at is set
    cooling,   \* breaker: what is left of the cooldown
    pc,        \* where each caller is
    attempt,   \* its attempt
    wait,      \* what is left of its sleep
    quiet,     \* history: ticks since a request went out, Interval for "long ago"
    fails,     \* history: calls failed since the last answer or cooldown
    hit,       \* history: the callers whose call failed since the circuit opened
    cooled     \* history: a cooldown has passed since the last answer

limiter == <<since, line>>
breaker == <<failures, open, cooling>>
caller == <<pc, attempt, wait>>
outage == <<fails, hit, cooled>>
history == <<quiet, outage>>
vars == <<limiter, breaker, caller, history>>

Init ==
    /\ since = Interval
    /\ line = << >>
    /\ failures = 0
    /\ open = FALSE
    /\ cooling = 0
    /\ pc = [c \in Callers |-> "idle"]
    /\ attempt = [c \in Callers |-> 1]
    /\ wait = [c \in Callers |-> 0]
    /\ quiet = Interval
    /\ fails = 0
    /\ hit = {}
    /\ cooled = FALSE

-----------------------------------------------------------------------------
(* The breaker.                                                            *)

Refuses == open /\ cooling > 0

(* An answer closes the circuit, whatever it says. *)
RecordSuccess ==
    /\ failures' = 0
    /\ open' = FALSE
    /\ cooling' = 0
    /\ fails' = 0
    /\ hit' = {}
    /\ cooled' = FALSE

(* Mutant: the count begins again when the circuit opens. *)
RecordFailureAnew(c) ==
    /\ IF failures + 1 >= Threshold
       THEN failures' = 0 /\ open' = TRUE /\ cooling' = Cooldown /\ hit' = hit \union {c}
       ELSE failures' = failures + 1 /\ UNCHANGED <<open, cooling, hit>>
    /\ fails' = fails + 1
    /\ UNCHANGED cooled

(* A failed call opens the circuit at the threshold, or opens it again for *)
(* a whole cooldown.                                                       *)
RecordFailure(c) ==
    /\ IF failures + 1 >= Threshold
       THEN failures' = Threshold /\ open' = TRUE /\ cooling' = Cooldown /\ hit' = hit \union {c}
       ELSE failures' = failures + 1 /\ UNCHANGED <<open, cooling, hit>>
    /\ fails' = fails + 1
    /\ UNCHANGED cooled

-----------------------------------------------------------------------------
(* A call.                                                                 *)

(* check lets it through, and it goes to the limiter for its first attempt. *)
Call(c) ==
    /\ pc[c] = "idle"
    /\ ~Refuses
    /\ pc' = [pc EXCEPT ![c] = "limiter"]
    /\ attempt' = [attempt EXCEPT ![c] = 1]
    /\ line' = Append(line, c)
    /\ UNCHANGED <<since, breaker, wait, history>>

HasLock(c) == line # << >> /\ Head(line) = c

(* The holder of the lock sleeps for the rest of the interval, with the lock. *)
Space(c) ==
    /\ pc[c] = "limiter"
    /\ HasLock(c)
    /\ since < Interval
    /\ pc' = [pc EXCEPT ![c] = "spacing"]
    /\ wait' = [wait EXCEPT ![c] = Interval - since]
    /\ UNCHANGED <<limiter, breaker, attempt, history>>

MaySend(c) ==
    \/ pc[c] = "limiter" /\ HasLock(c) /\ since = Interval
    \/ pc[c] = "spacing" /\ wait[c] = 0

(* Mutant: the time is not stamped again after the sleep. *)
SendUnstamped(c) ==
    /\ MaySend(c)
    /\ since' = IF pc[c] = "spacing" THEN since ELSE 0
    /\ line' = Tail(line)
    /\ pc' = [pc EXCEPT ![c] = "sent"]
    /\ quiet' = 0
    /\ UNCHANGED <<breaker, attempt, wait, outage>>

(* The limiter stamps the time, the lock is released, the request goes out. *)
Send(c) ==
    /\ MaySend(c)
    /\ since' = 0
    /\ line' = Tail(line)
    /\ pc' = [pc EXCEPT ![c] = "sent"]
    /\ quiet' = 0
    /\ UNCHANGED <<breaker, attempt, wait, outage>>

(* The call is over.  200, with JSON or without, 404 and every status that *)
(* is neither retried nor 401 or 403 are answers; those two, and errors    *)
(* that are not transport errors, leave the breaker as it is.              *)
Answered(c) ==
    /\ pc[c] = "sent"
    /\ pc' = [pc EXCEPT ![c] = "idle"]
    /\ RecordSuccess
    /\ UNCHANGED <<limiter, attempt, wait, quiet>>

Denied(c) ==
    /\ pc[c] = "sent"
    /\ pc' = [pc EXCEPT ![c] = "idle"]
    /\ UNCHANGED <<limiter, breaker, attempt, wait, history>>

(* 429 with its Retry-After, or 5xx and transport errors with the backoff. *)
Waits(c) == 0 .. MaxRetryAfter \union {Backoff[attempt[c]]}

(* Mutant: a 429 without a wait does not use up an attempt. *)
BackOffFreely(c) ==
    /\ pc[c] = "sent"
    /\ \E w \in Waits(c) :
          /\ w = 0 \/ attempt[c] < MaxAttempts
          /\ wait' = [wait EXCEPT ![c] = w]
          /\ attempt' = [attempt EXCEPT ![c] = IF w = 0 THEN @ ELSE @ + 1]
    /\ pc' = [pc EXCEPT ![c] = "backoff"]
    /\ UNCHANGED <<limiter, breaker, history>>

BackOff(c) ==
    /\ pc[c] = "sent"
    /\ attempt[c] < MaxAttempts
    /\ \E w \in Waits(c) : wait' = [wait EXCEPT ![c] = w]
    /\ attempt' = [attempt EXCEPT ![c] = @ + 1]
    /\ pc' = [pc EXCEPT ![c] = "backoff"]
    /\ UNCHANGED <<limiter, breaker, history>>

(* The last attempt fails: no wait, TransientError or NetworkError.        *)
GiveUp(c) ==
    /\ pc[c] = "sent"
    /\ attempt[c] = MaxAttempts
    /\ pc' = [pc EXCEPT ![c] = "idle"]
    /\ RecordFailure(c)
    /\ UNCHANGED <<limiter, attempt, wait, quiet>>

Retry(c) ==
    /\ pc[c] = "backoff"
    /\ wait[c] = 0
    /\ pc' = [pc EXCEPT ![c] = "limiter"]
    /\ line' = Append(line, c)
    /\ UNCHANGED <<since, breaker, attempt, wait, history>>

-----------------------------------------------------------------------------
Less(n) == IF n = 0 THEN 0 ELSE n - 1
More(n) == IF n < Interval THEN n + 1 ELSE n

Tick ==
    /\ since' = More(since)
    /\ quiet' = More(quiet)
    /\ cooling' = Less(cooling)
    /\ wait' = [c \in Callers |-> Less(wait[c])]
    /\ IF cooling = 1
       THEN fails' = 0 /\ hit' = {} /\ cooled' = TRUE
       ELSE UNCHANGED outage
    /\ UNCHANGED <<line, failures, open, pc, attempt>>

Proceed(c) ==
    \/ Space(c) \/ Send(c) \/ Retry(c)
    \/ Answered(c) \/ Denied(c) \/ BackOff(c) \/ GiveUp(c)

Next ==
    \/ \E c \in Callers : Call(c) \/ Proceed(c)
    \/ Tick

Spec == Init /\ [][Next]_vars

(* Sleeps and timeouts end, the loop runs what is ready, and every request *)
(* gets an answer or a transport error.  Nobody has to call.               *)
FairSpec == Spec /\ WF_vars(Tick) /\ \A c \in Callers : WF_vars(Proceed(c))

-----------------------------------------------------------------------------
Steps == {"idle", "limiter", "spacing", "sent", "backoff"}

TypeOK ==
    /\ since \in 0 .. Interval
    /\ line \in Seq(Callers)
    /\ failures \in 0 .. Threshold
    /\ open \in BOOLEAN
    /\ cooling \in 0 .. Cooldown
    /\ pc \in [Callers -> Steps]
    /\ attempt \in [Callers -> 1 .. MaxAttempts]
    /\ wait \in [Callers -> Nat]
    /\ quiet \in 0 .. Interval
    /\ fails \in Nat
    /\ hit \in SUBSET Callers
    /\ cooled \in BOOLEAN

(* The limiter: exactly the callers at the lock are in line, each once, and *)
(* only its holder sleeps, for all that is left of the interval.           *)
LineKept ==
    /\ \A c \in Callers :
          pc[c] \in {"limiter", "spacing"} <=> \E i \in 1 .. Len(line) : line[i] = c
    /\ \A i, j \in 1 .. Len(line) : line[i] = line[j] => i = j

SleepCovers ==
    /\ since = quiet
    /\ \A c \in Callers :
          pc[c] = "spacing" => HasLock(c) /\ since + wait[c] >= Interval

(* The breaker: it is open from the threshold on; before that, and after a *)
(* cooldown, nobody's failure is outstanding.                              *)
BreakerKept ==
    /\ open <=> failures = Threshold
    /\ cooling > 0 => open
    /\ cooling = 0 => hit = {}
    /\ ~open => ~cooled /\ fails <= failures
    /\ \A c \in hit : pc[c] = "idle"

(* Every failure since the last answer or cooldown was the one of a caller *)
(* in hit, or one of those below the threshold.                            *)
FailuresCounted ==
    fails <= Cardinality(hit) + (IF cooled THEN 0 ELSE Threshold - 1)

TenraiInv == TypeOK /\ LineKept /\ SleepCovers /\ BreakerKept /\ FailuresCounted

(* However many calls fail together, an outage costs Threshold calls, and   *)
(* one more of every other caller that had been let through; after that,    *)
(* one per caller and cooldown: a failed probe opens the circuit at once.   *)
OutageIsCheap ==
    fails <= Cardinality(Callers) + (IF cooled THEN 0 ELSE Threshold - 1)

(* ADR 0012: two requests of an adapter are never less than the interval    *)
(* apart, whichever calls and attempts they belong to and however late the  *)
(* event loop wakes a caller.                                               *)
RequestsSpaced ==
    [][\A c \in Callers : pc[c] # "sent" /\ pc'[c] = "sent" => quiet = Interval]_vars

(* Every call ends: retries are bounded, and no caller is overtaken for     *)
(* ever at the limiter's lock.                                              *)
CallsEnd == \A c \in Callers : pc[c] # "idle" ~> pc[c] = "idle"
=============================================================================
