------------------------------- MODULE Wayback -------------------------------
(***************************************************************************)
(* The client that recovers dead pages from the web archive,                  *)
(* serendipity/wayback.py: a query for the captures of a URL, then the newest   *)
(* capture.  Requests are throttled, repeated with a growing delay while the    *)
(* archive answers 429, and given up for good once too many of them came in a   *)
(* row.  Recoveries that run as coroutines of one event loop share the client:   *)
(* a step is what one does between two awaits.  Time is in seconds.             *)
(***************************************************************************)
EXTENDS Integers

CONSTANTS
    Recoveries,       \* coroutines that call recover()
    MinInterval,      \* min_interval
    MaxRetries,       \* max_retries
    BaseBackoff, MaxBackoff,
    BreakerThreshold, \* breaker_threshold
    MaxTime           \* bound: the last second of a behaviour

ASSUME WaybackAssumption ==
    /\ MinInterval \in Nat /\ MaxRetries \in Nat /\ BaseBackoff \in Nat /\ MaxBackoff \in Nat
    /\ BreakerThreshold \in Nat \ {0} /\ MaxTime \in Nat

VARIABLES
    now,          \* the monotonic clock
    lastTs,       \* _last_ts, Never before the first request
    consec429,    \* _consec_429
    breakerOpen,  \* _breaker_open
    recovery      \* per recovery: what it asks for and how far it is, the last
                  \* answer, and as history its requests, the last one's time and
                  \* the time of the 429 it repeats a request for

wvars == <<now, lastTs, consec429, breakerOpen, recovery>>

Never == 0 - 1
Fresh == [doc |-> "captures", step |-> "idle", until |-> 0, attempt |-> 0, status |-> 0,
          sent |-> 0, at |-> Never, limited |-> Never]

\* _backoff
Backoff(attempt) ==
    IF BaseBackoff * 2^attempt < MaxBackoff THEN BaseBackoff * 2^attempt ELSE MaxBackoff

Over == {"idle", "none", "found"}

Goes(c, r) == recovery' = [recovery EXCEPT ![c] = r]

WaybackInit ==
    /\ now = 0 /\ lastTs = Never /\ consec429 = 0 /\ breakerOpen = FALSE
    /\ recovery = [c \in Recoveries |-> Fresh]

\* Mutant: the time of a request that repeats another is not kept.
SendUntimed(c, r) ==
    /\ lastTs' = IF r.attempt = 0 THEN now ELSE lastTs
    /\ Goes(c, [r EXCEPT !.step = "asking", !.at = now, !.sent = @ + 1])

\* The end of _throttle, and the request it was for.
Send(c, r) ==
    /\ lastTs' = now
    /\ Goes(c, [r EXCEPT !.step = "asking", !.at = now, !.sent = @ + 1])

\* _throttle: the rest of the interval is slept.
Throttled(c, r) ==
    IF lastTs = Never \/ now >= lastTs + MinInterval THEN Send(c, r)
    ELSE /\ Goes(c, [r EXCEPT !.step = "wait", !.until = lastTs + MinInterval])
         /\ UNCHANGED lastTs

\* Mutant: a client whose breaker is open is asked all the same.
RequestAnyway(c, r) == Throttled(c, [r EXCEPT !.attempt = 0, !.limited = Never])

\* _get_with_retry, up to its first await.
Request(c, r) ==
    IF breakerOpen THEN Goes(c, [r EXCEPT !.step = "none"]) /\ UNCHANGED lastTs
    ELSE Throttled(c, [r EXCEPT !.attempt = 0, !.limited = Never])

\* recover(), one after another.
Recover(c) ==
    /\ recovery[c].step \in Over
    /\ Request(c, [Fresh EXCEPT !.at = recovery[c].at])
    /\ UNCHANGED <<now, consec429, breakerOpen>>

WaitEnds(c) ==
    /\ recovery[c].step = "wait" /\ now >= recovery[c].until
    /\ Send(c, recovery[c])
    /\ UNCHANGED <<now, consec429, breakerOpen>>

\* The archive answers 429: count it, whoever asked, and open the breaker, or
\* wait before the next attempt, or give up.
RateLimited(c) ==
    LET r == recovery[c] IN
    /\ r.step = "asking"
    /\ consec429' = consec429 + 1
    /\ breakerOpen' = (breakerOpen \/ consec429' >= BreakerThreshold)
    /\ Goes(c, IF consec429' >= BreakerThreshold \/ r.attempt = MaxRetries
                THEN [r EXCEPT !.step = "none"]
                ELSE [r EXCEPT !.step = "backoff", !.attempt = @ + 1, !.limited = now,
                               !.until = now + Backoff(r.attempt)])
    /\ UNCHANGED <<now, lastTs>>

BackoffEnds(c) ==
    /\ recovery[c].step = "backoff" /\ now >= recovery[c].until
    /\ Throttled(c, recovery[c])
    /\ UNCHANGED <<now, consec429, breakerOpen>>

\* Any other answer, an error's too: the count starts again.  The list of captures
\* leads to the newest of them; no usable capture, or a blank page, is no copy.
Answered(c, status, useful) ==
    LET r == recovery[c] IN
    /\ r.step = "asking"
    /\ consec429' = 0
    /\ IF status = 200 /\ useful /\ r.doc = "captures"
       THEN Request(c, [r EXCEPT !.doc = "page", !.status = 200])
       ELSE /\ Goes(c, [r EXCEPT !.status = status, !.step = IF status = 200 /\ useful
                                                         THEN "found" ELSE "none"])
            /\ UNCHANGED lastTs
    /\ UNCHANGED <<now, breakerOpen>>

\* No answer: the exception of http_get leaves the count alone and ends recover().
Unanswered(c) ==
    /\ recovery[c].step = "asking"
    /\ Goes(c, [recovery[c] EXCEPT !.step = "none"])
    /\ UNCHANGED <<now, lastTs, consec429, breakerOpen>>

Second ==
    /\ now < MaxTime /\ now' = now + 1
    /\ UNCHANGED <<lastTs, consec429, breakerOpen, recovery>>

WaybackNext ==
    \/ Second
    \/ \E c \in Recoveries :
         \/ Recover(c) \/ WaitEnds(c) \/ RateLimited(c) \/ BackoffEnds(c) \/ Unanswered(c)
         \/ \E status \in {200, 503}, useful \in BOOLEAN : Answered(c, status, useful)

WaybackSpec == WaybackInit /\ [][WaybackNext]_wvars

-----------------------------------------------------------------------------
(* Properties                                                               *)

Sends(c) == recovery'[c].step = "asking" /\ recovery'[c] # recovery[c]

(* Whatever the archive answers and however recoveries interleave, none of them   *)
(* repeats a request sooner than the throttle and the growing delay after a 429   *)
(* allow, or more often than its retries; and a recovery that begins after enough *)
(* 429s in a row, whoever got them, asks nothing.  Two recoveries that wait for   *)
(* the same request to be an interval old do send at the same time.               *)
ArchiveSpared ==
    [][\A c \in Recoveries :
         LET r == recovery[c] IN
         Sends(c) => /\ r.at # Never => now >= r.at + MinInterval
                     /\ r.limited # Never => now >= r.limited + Backoff(r.attempt - 1)
                     /\ recovery'[c].sent <= 2 * (MaxRetries + 1)
                     /\ r.step \in Over => consec429 < BreakerThreshold]_wvars

(* "Only a successful 200 resets the count" (wayback.py:159).                   *)
OnlySuccessResets ==
    [][consec429' < consec429 =>
         \E c \in Recoveries : /\ recovery[c].step = "asking" /\ recovery'[c] # recovery[c]
                              /\ recovery'[c].status = 200]_wvars

=============================================================================
