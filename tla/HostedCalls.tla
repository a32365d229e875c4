---------------------------- MODULE HostedCalls ----------------------------
(***************************************************************************)
(* The requests to one hosted model: resilient_request with its attempts   *)
(* and its deadline, the ceiling on requests per window that all hosted    *)
(* requests of the process share, and the pace that is learned from the    *)
(* answers 429.                                                            *)
(*                                                                         *)
(*  - A second is a tick.  Whoever sleeps wakes when its time has come, or *)
(*    later.                                                               *)
(*  - The lock of the ceiling is held while its holder sleeps; the pace is *)
(*    read and reserved in one step, for that lock is never contended.     *)
(*  - The learned interval decays by a tenth: to the next lower tick here. *)
(***************************************************************************)
EXTENDS Integers, Sequences, SequencesExt, FiniteSets

CONSTANTS
  Callers,      \* tasks that call the model
  Rpm,          \* HOSTED_GLOBAL_RPM
  Window,       \* the 60 s of the ceiling
  Deadlines,    \* deadline_s of a call
  MaxAttempts,  \* max_retries
  Backoffs,     \* what an answer 429 asks for, or the backoff in its place
  MaxInterval,  \* MAX_RETRY_AFTER_S
  MaxNow        \* bound: ticks

\* Without a ceiling (0, the default) the limiter is not there at all.
ASSUME HostedAssumption ==
  /\ Rpm \in Nat \ {0} /\ Window \in Nat \ {0}
  /\ Deadlines \subseteq Nat /\ Backoffs \subseteq Nat /\ MaxAttempts \in Nat /\ MaxInterval \in Nat
  /\ "nobody" \notin Callers

VARIABLES
  now,       \* time.monotonic()
  tokens,    \* _timestamps: when the calls of the window were let through
  holder,    \* who holds the lock of the ceiling
  interval,  \* _HOST_MIN_INTERVAL
  lastCall,  \* _HOST_LAST_CALL
  call,      \* each caller's request
  \* ---- bookkeeping
  passed     \* when each request of the process was let through the ceiling

hostedVars == <<now, tokens, holder, interval, lastCall, call, passed>>

Nobody == "nobody"
NoCall == [phase |-> "none", deadline |-> 0, attempts |-> 0, wake |-> 0, result |-> "none"]

HostedInit ==
  /\ now = 0 /\ tokens = <<>> /\ holder = Nobody /\ passed = <<>>
  /\ interval = 0 /\ lastCall = 0
  /\ call = [c \in Callers |-> NoCall]

-----------------------------------------------------------------------------

Earlier(a, b) == IF a < b THEN a ELSE b
Later(a, b)   == IF a < b THEN b ELSE a

Phase(c, phase) == call[c].phase = phase
Moves(c, phase) == call' = [call EXCEPT ![c].phase = phase]
CallReturns(c, result) ==
  call' = [call EXCEPT ![c] = [NoCall EXCEPT !.phase = "done", !.result = result]]

Tick ==
  /\ now < MaxNow
  /\ now' = now + 1
  /\ UNCHANGED <<tokens, holder, interval, lastCall, call, passed>>

\* A result is of no more interest once its caller calls again.
Request(c, deadline) ==
  /\ call[c].phase \in {"none", "done"}
  /\ call' = [call EXCEPT ![c] = [NoCall EXCEPT !.phase = "loop", !.deadline = now + deadline]]
  /\ UNCHANGED <<now, tokens, holder, interval, lastCall, passed>>

\* The top of the loop over the attempts.
Attempt(c) ==
  /\ Phase(c, "loop")
  /\ IF call[c].attempts < MaxAttempts /\ now < call[c].deadline
     THEN call' = [call EXCEPT ![c].phase = "ceiling", ![c].attempts = @ + 1]
     ELSE CallReturns(c, "exhausted")
  /\ UNCHANGED <<now, tokens, holder, interval, lastCall, passed>>

-----------------------------------------------------------------------------
(* The ceiling and the pace.                                               *)

\* The head goes for as long as it is a whole window old: when the clock is read
\* next it shows a little more.
InWindow(times) ==
  LET stays(n) == n = Len(times) + 1 \/ times[n] > now - Window
      first == CHOOSE n \in 1 .. Len(times) + 1 : stays(n) /\ \A m \in 1 .. n - 1 : ~ stays(m)
  IN SubSeq(times, first, Len(times))

\* The request counts from now on.
Passes(kept) == tokens' = Append(kept, now) /\ passed' = Append(passed, now)

\* _pace: the call claims the next slot, or its deadline.
SendAt(c) == Earlier(Later(now, lastCall + interval), call[c].deadline)

Reserve(c) ==
  IF interval = 0 THEN Moves(c, "sent") /\ UNCHANGED lastCall
  ELSE /\ lastCall' = SendAt(c)
       /\ call' = [call EXCEPT ![c].phase = IF SendAt(c) > now THEN "pacing" ELSE "sent",
                               ![c].wake = SendAt(c)]

\* Mutant: the lock is not held over the sleep.
AcquireUnlocked(c) ==
  /\ Phase(c, "ceiling")
  /\ LET kept == InWindow(tokens) IN
     IF Len(kept) >= Rpm
     THEN /\ tokens' = kept
          /\ call' = [call EXCEPT ![c].phase = "waiting", ![c].wake = kept[1] + Window]
          /\ UNCHANGED <<holder, lastCall, passed>>
     ELSE Passes(kept) /\ Reserve(c) /\ UNCHANGED holder
  /\ UNCHANGED <<now, interval>>

\* SlidingWindowRpmLimiter.acquire, up to its sleep.
Acquire(c) ==
  /\ Phase(c, "ceiling") /\ holder = Nobody
  /\ LET kept == InWindow(tokens) IN
     IF Len(kept) >= Rpm
     THEN /\ holder' = c
          /\ tokens' = kept
          /\ call' = [call EXCEPT ![c].phase = "waiting", ![c].wake = kept[1] + Window]
          /\ UNCHANGED <<lastCall, passed>>
     ELSE Passes(kept) /\ Reserve(c) /\ UNCHANGED holder
  /\ UNCHANGED <<now, interval>>

LetThrough(c) ==
  /\ Phase(c, "waiting") /\ now >= call[c].wake
  /\ Passes(InWindow(tokens))
  /\ holder' = Nobody
  /\ Reserve(c)
  /\ UNCHANGED <<now, interval>>

SlotReached(c) ==
  /\ Phase(c, "pacing") /\ now >= call[c].wake
  /\ Moves(c, "sent")
  /\ UNCHANGED <<now, tokens, holder, interval, lastCall, passed>>

-----------------------------------------------------------------------------
(* The answer; it may come after the deadline, for the time limit of a      *)
(* request begins anew with each of its phases.                            *)

Answered(c) ==
  /\ Phase(c, "sent")
  /\ CallReturns(c, "ok")
  /\ interval' = (interval * 9) \div 10
  /\ UNCHANGED <<now, tokens, holder, lastCall, passed>>

\* A status not worth a retry.
Refused(c) ==
  /\ Phase(c, "sent")
  /\ CallReturns(c, "error")
  /\ UNCHANGED <<now, tokens, holder, interval, lastCall, passed>>

TimesOut(c) ==
  /\ Phase(c, "sent")
  /\ now >= call[c].deadline
  /\ CallReturns(c, "timeout")
  /\ UNCHANGED <<now, tokens, holder, interval, lastCall, passed>>

RateLimited(c, retryAfter) ==
  /\ Phase(c, "sent")
  /\ interval' = Earlier(Later(Later(2 * interval, retryAfter), 1), MaxInterval)
  /\ Moves(c, "loop")
  /\ UNCHANGED <<now, tokens, holder, lastCall, passed>>

\* A 5xx, or no connection: a pause, but for the last attempt.
Fails(c) ==
  /\ Phase(c, "sent")
  /\ IF call[c].attempts < MaxAttempts
     THEN call' = [call EXCEPT ![c].phase = "backoff",
                               ![c].wake = Earlier(now + call[c].attempts, call[c].deadline)]
     ELSE Moves(c, "loop")
  /\ UNCHANGED <<now, tokens, holder, interval, lastCall, passed>>

BacksOff(c) ==
  /\ Phase(c, "backoff") /\ now >= call[c].wake
  /\ Moves(c, "loop")
  /\ UNCHANGED <<now, tokens, holder, interval, lastCall, passed>>

\* The task is canceled in its sleep; the lock is given back.
Canceled(c) ==
  /\ call[c].phase \in {"ceiling", "waiting", "pacing", "sent", "backoff"}
  /\ CallReturns(c, "canceled")
  /\ holder' = IF holder = c THEN Nobody ELSE holder
  /\ UNCHANGED <<now, tokens, interval, lastCall, passed>>

HostedNext ==
  \/ Tick
  \/ \E c \in Callers :
       \/ \E d \in Deadlines : Request(c, d)
       \/ \E r \in Backoffs : RateLimited(c, r)
       \/ Attempt(c) \/ Acquire(c) \/ LetThrough(c) \/ SlotReached(c)
       \/ Answered(c) \/ Refused(c) \/ TimesOut(c) \/ Fails(c) \/ BacksOff(c)
       \/ Canceled(c)

HostedSpec == HostedInit /\ [][HostedNext]_hostedVars

-----------------------------------------------------------------------------
(* Properties.                                                             *)

\* However the callers overlap, sleep, are canceled and retry, no window of the
\* process's life sees more of them let through than the ceiling allows, though
\* the limiter remembers only the last one (hosted_rate_limiter).
WithinCeiling ==
  \A t \in 0 .. now :
    Cardinality({i \in DOMAIN passed : t - Window < passed[i] /\ passed[i] <= t}) <= Rpm

\* "Concurrent same-host calls each claim a DISTINCT staggered slot" (_pace).
SlotsAreDistinct ==
  \A c, d \in Callers :
    c # d /\ Phase(c, "pacing") /\ Phase(d, "pacing")
    => \/ call[c].wake # call[d].wake
       \/ call[c].wake = call[c].deadline
       \/ call[d].wake = call[d].deadline
=============================================================================
