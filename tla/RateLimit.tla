------------------------------ MODULE RateLimit ------------------------------
(***************************************************************************)
(* The two in-memory limiters of music-gateway/src/ratelimit.rs as the      *)
(* handlers of oauth/handlers.rs use them: the lockout of password logins,  *)
(* whose check and verdict are two calls with an Argon2 verification in     *)
(* between, and the rolling window of the public endpoints, whose map of    *)
(* sources is pruned when it is full.                                       *)
(***************************************************************************)
EXTENDS Integers, Sequences, FiniteSets

CONSTANTS
    Sources,        \* peer addresses
    Attempts,       \* login requests that may be in flight at once
    MaxFailures, Lockout, MaxPerWindow, Window, MaxTracked,
    LastInstant     \* bound on the clock

ASSUME LimiterAssumption ==
    /\ {MaxFailures, MaxPerWindow, Window} \subseteq Nat \ {0}
    /\ {Lockout, LastInstant} \subseteq Nat /\ IsFiniteSet(Attempts)

VARIABLES
    instant,
    attempts,       \* LoginLimiter: source -> failures and end of its lockout
    verifying,      \* logins past the check: attempt -> source
    windows,        \* RateLimiter: source -> count and start of its window
    accepted        \* history: when each source's requests were let through

limitVars == <<instant, attempts, verifying, windows, accepted>>

\* HashMap::insert.
Inserted(map, key, value) ==
    [k \in DOMAIN map \cup {key} |-> IF k = key THEN value ELSE map[k]]

NoLock == -1
FreshAttempt == [failures |-> 0, until |-> NoLock]

LimitInit ==
    /\ instant = 0
    /\ attempts = <<>>
    /\ verifying = <<>>
    /\ windows = <<>>
    /\ accepted = [s \in Sources |-> <<>>]

AttemptOf(s) == IF s \in DOMAIN attempts THEN attempts[s] ELSE FreshAttempt
Locked(s) == AttemptOf(s).until > instant

\* LoginLimiter::check: a lapsed lockout starts the count again.
LoginCheck(a, s) ==
    /\ a \notin DOMAIN verifying /\ ~Locked(s)
    /\ attempts' = IF AttemptOf(s).until # NoLock THEN Inserted(attempts, s, FreshAttempt) ELSE attempts
    /\ verifying' = Inserted(verifying, a, s)
    /\ UNCHANGED <<instant, windows, accepted>>

Verified(a) == verifying' = [b \in DOMAIN verifying \ {a} |-> verifying[b]]

RecordFailure(a) ==
    LET s == verifying[a]
        n == AttemptOf(s).failures + 1 IN
    /\ attempts' = Inserted(attempts, s,
                      [failures |-> n,
                       until |-> IF n >= MaxFailures THEN instant + Lockout ELSE AttemptOf(s).until])
    /\ Verified(a)
    /\ UNCHANGED <<instant, windows, accepted>>

RecordSuccess(a) ==
    /\ attempts' = [s \in DOMAIN attempts \ {verifying[a]} |-> attempts[s]]
    /\ Verified(a)
    /\ UNCHANGED <<instant, windows, accepted>>

\* Mutant: a full map is emptied, live windows included.
PrunedWhole(s) ==
    IF Cardinality(DOMAIN windows) >= MaxTracked /\ s \notin DOMAIN windows THEN <<>> ELSE windows

\* RateLimiter::check: a full map first drops the windows that are over.
Pruned(s) ==
    IF Cardinality(DOMAIN windows) >= MaxTracked /\ s \notin DOMAIN windows
    THEN [k \in {k \in DOMAIN windows : instant - windows[k].started < Window} |-> windows[k]]
    ELSE windows

\* The window of s as the check finds it: opened now if it has none or if it is over.
Current(kept, s) ==
    IF s \in DOMAIN kept /\ instant - kept[s].started < Window
    THEN kept[s] ELSE [count |-> 0, started |-> instant]

RateCheck(s) ==
    LET kept == Pruned(s)
        w == Current(kept, s)
        pass == w.count < MaxPerWindow
    IN  /\ windows' = Inserted(kept, s, IF pass THEN [w EXCEPT !.count = @ + 1] ELSE w)
        /\ accepted' = IF pass THEN [accepted EXCEPT ![s] = Append(@, instant)] ELSE accepted
        /\ UNCHANGED <<instant, attempts, verifying>>

InstantPasses ==
    /\ instant < LastInstant
    /\ instant' = instant + 1
    /\ UNCHANGED <<attempts, verifying, windows, accepted>>

LoginNext ==
    \/ \E a \in Attempts, s \in Sources : LoginCheck(a, s)
    \/ \E a \in DOMAIN verifying : RecordFailure(a) \/ RecordSuccess(a)
    \/ InstantPasses

WindowNext == (\E s \in Sources : RateCheck(s)) \/ InstantPasses

LimitSpec == LimitInit /\ [][LoginNext \/ WindowNext]_limitVars

-----------------------------------------------------------------------------
\* What the limiters promise of a source.  Guessing is bounded even by parallel
\* requests: it is charged with at most the failures that trip the lockout plus
\* those already being verified when it tripped (check and record_failure are
\* separate calls).  And whatever the pruning of the map forgets, no more than
\* two windows' worth of requests get through in any span of one window.
LimitsHold ==
    \A s \in Sources :
        /\ AttemptOf(s).failures < MaxFailures + Cardinality(Attempts)
        /\ \A t \in 0..LastInstant :
             Cardinality({i \in DOMAIN accepted[s] : accepted[s][i] \in t..(t + Window - 1)})
                 <= 2 * MaxPerWindow
=============================================================================
