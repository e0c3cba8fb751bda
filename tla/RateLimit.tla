------------------------------ MODULE RateLimit ------------------------------
(***************************************************************************)
(* How often a user may try to log in from one host.  The bucket is a key  *)
(* of Redis: the tokens that are left, and a time to live.  The script     *)
(* that takes a token runs as one step.  It adds what has been refilled    *)
(* since the last token was taken, but never stores it: the key counts     *)
(* down, below zero too, until it expires.                                 *)
(***************************************************************************)
EXTENDS Absent, Sequences

CONSTANTS
    Limit,       \* tokens of a new bucket
    Window,      \* seconds until an unused bucket expires
    MaxSeconds   \* bound of the time

ASSUME RateLimitAssumption == {Limit, Window, MaxSeconds} \subseteq Nat /\ Limit > 0 /\ Window > 0

VARIABLES
    bucket,    \* the tokens of the key; None when there is no key
    expiry,    \* the second in which the key expires
    second,    \* the time
    granted,   \* history: the attempts that were let through, with their second and the tokens they found
    refused    \* history: the last second with an attempt that was refused, or None

rateVars == <<bucket, expiry, second, granted, refused>>

Seconds == 0..MaxSeconds

RateLimitTypeOK ==
    /\ bucket \in Int \cup {None} /\ second \in Seconds /\ expiry \in Nat
    /\ granted \in Seq([at : Seconds, tokens : Int])
    /\ refused \in Seconds \cup {None}

RateLimitInit ==
    /\ bucket = None /\ expiry = 0
    /\ second = 0
    /\ granted = <<>> /\ refused = None

\* "get or create the bucket and ttl"
Tokens == IF bucket = None THEN Limit ELSE bucket
Ttl == IF bucket = None THEN Window ELSE expiry - second

\* refilled tokens, and what is one of them, in units of 1 / Window
Refilled ==
    LET new == Tokens * Window + (Window - Ttl) * Limit
    IN  IF new < Limit * Window THEN new ELSE Limit * Window

OneToken == Window

\* mutant: a refused attempt renews the time to live, too
RenewAlways == second + Window

\* a refused attempt leaves the key as it is
ExpiresWhenRefused == expiry

Grant ==
    /\ Refilled >= OneToken
    /\ bucket' = Tokens - 1
    /\ expiry' = second + Window
    /\ granted' = Append(granted, [at |-> second, tokens |-> Tokens])
    /\ UNCHANGED <<second, refused>>

TooManyAttempts ==
    /\ Refilled < OneToken
    /\ bucket' = Tokens
    /\ expiry' = ExpiresWhenRefused
    /\ refused' = second
    /\ UNCHANGED <<second, granted>>

\* LoginRateLimiter.consume
Consume == Grant \/ TooManyAttempts

SecondPasses ==
    /\ second < MaxSeconds /\ second' = second + 1
    /\ bucket' = IF bucket # None /\ second' >= expiry THEN None ELSE bucket
    /\ UNCHANGED <<expiry, granted, refused>>

RateLimitNext == Consume \/ SecondPasses

RateLimitSpec == RateLimitInit /\ [][RateLimitNext]_rateVars

-----------------------------------------------------------------------------
(* What the limit promises.                                                *)

\* However the attempts are spread over keys that expire, a window lets through the limit at most, and k beyond it
\* that it refills: the first of them waits for 1 / Limit of a window, the next one for 2 / Limit since then, and so
\* on, so that k + 1 of them take a whole window.
AtMostPerWindow ==
    \A k \in 0..Limit : (k + 1) * (k + 2) >= 2 * Limit =>
        \A i, j \in DOMAIN granted : j = i + Limit + k => granted[j].at - granted[i].at >= Window

\* Who is refused got through less than a window ago: to try again and again keeps nobody out.
RefusedForAWhile ==
    refused # None => \E i \in DOMAIN granted : refused - Window < granted[i].at /\ granted[i].at <= refused

\* The docstring's "requests allowed in the window", as far as the code keeps it, and no lock-out.
LoginsLimited == AtMostPerWindow /\ RefusedForAWhile

=============================================================================
