----------------------------- MODULE RateLimiter -----------------------------
(***************************************************************************)
(* The gateway's sliding-window rate limiter and the middleware in front of *)
(* every route.  A key stands for the tail of a bearer token, or for the    *)
(* client's address where a request carries none; /health, / and /metrics   *)
(* pass unlimited and are left out.                                         *)
(*                                                                         *)
(* allow() and retry_after() each read the clock: time may pass in between, *)
(* but no other request comes in, since neither of them awaits anything.    *)
(***************************************************************************)
EXTENDS Integers, Sequences

CONSTANTS
  Keys,            \* the clients, as client_key tells them apart
  MaxRequests,     \* RATE_LIMIT_MAX_REQUESTS
  Window,          \* RATE_LIMIT_WINDOW_SECONDS, in ticks of the clock
  Second,          \* ticks of the clock in a second
  MaxTime          \* bound: the last tick looked at

ASSUME RateLimiterAssumption ==
  /\ MaxRequests \in Nat \ {0}
  /\ Window \in Nat
  /\ Second \in Nat \ {0}
  /\ MaxTime \in Nat

VARIABLES
  clock,       \* time.monotonic()
  hits,        \* RateLimiter._hits
  checked,     \* the request in allow(): its key and the time it has read
  admitted,    \* history: when each key's requests were let through
  comeBack     \* history: when a refused key was told to come back

limiterVars == <<clock, hits, checked, admitted, comeBack>>

-----------------------------------------------------------------------------
None == << >>    \* no request is being checked
Never == -1      \* not refused since it was last let in

LimiterInit ==
  /\ clock = 0
  /\ hits = [k \in Keys |-> << >>]
  /\ checked = None
  /\ admitted = [k \in Keys |-> << >>]
  /\ comeBack = [k \in Keys |-> Never]

LimiterTick ==
  /\ clock < MaxTime
  /\ clock' = clock + 1
  /\ UNCHANGED <<hits, checked, admitted, comeBack>>

Arrive(k) ==
  /\ checked = None
  /\ checked' = <<k, clock>>
  /\ UNCHANGED <<clock, hits, admitted, comeBack>>

Key == checked[1]
Now == checked[2]

(* Mutant of Expired: one tick too early.                                   *)
ExpiredEarly(window, at) == window # << >> /\ Head(window) <= at - Window
Expired(window, at) == window # << >> /\ Head(window) < at - Window

(* while window and window[0] < cutoff: window.popleft()                    *)
Forget ==
  /\ checked # None
  /\ Expired(hits[Key], Now)
  /\ hits' = [hits EXCEPT ![Key] = Tail(@)]
  /\ UNCHANGED <<clock, checked, admitted, comeBack>>

Full(window) == Len(window) >= MaxRequests

Admit ==
  /\ checked # None
  /\ ~Expired(hits[Key], Now)
  /\ ~Full(hits[Key])
  /\ hits' = [hits EXCEPT ![Key] = Append(@, Now)]
  /\ admitted' = [admitted EXCEPT ![Key] = Append(@, Now)]
  /\ comeBack' = [comeBack EXCEPT ![Key] = Never]
  /\ checked' = None
  /\ UNCHANGED clock

(* int(retry_after) + 1 whole seconds, from the clock as it is by now.      *)
(* Mutant of RetryAfter: rounded down.                                      *)
RetryAfterRounded(window) ==
  LET left == Window - (clock - Head(window))
  IN (IF left <= 0 THEN 0 ELSE left \div Second) * Second
RetryAfter(window) ==
  LET left == Window - (clock - Head(window))
  IN (IF left <= 0 THEN 1 ELSE left \div Second + 1) * Second

Refuse ==
  /\ checked # None
  /\ ~Expired(hits[Key], Now)
  /\ Full(hits[Key])
  /\ comeBack' = [comeBack EXCEPT ![Key] = clock + RetryAfter(hits[Key])]
  /\ checked' = None
  /\ UNCHANGED <<clock, hits, admitted>>

LimiterNext ==
  \/ LimiterTick
  \/ \E k \in Keys : Arrive(k)
  \/ Forget \/ Admit \/ Refuse

LimiterSpec == LimiterInit /\ [][LimiterNext]_limiterVars

-----------------------------------------------------------------------------
LimiterTypeOK ==
  /\ clock \in Nat
  /\ hits \in [Keys -> Seq(Nat)]
  /\ checked \in {None} \cup (Keys \X Nat)
  /\ admitted \in [Keys -> Seq(Nat)]
  /\ comeBack \in [Keys -> Nat \cup {Never}]

(* However the requests of a client fall, a window that starts at one of    *)
(* them sees no more than MaxRequests: the limiter forgets a request only   *)
(* when it is out of every window yet to come.                              *)
NeverOverRate ==
  \A k \in Keys : \A i \in DOMAIN admitted[k] :
    i + MaxRequests \in DOMAIN admitted[k] =>
      admitted[k][i + MaxRequests] > admitted[k][i] + Window

(* A client that was refused and comes back when it was told to is let in:  *)
(* the header's whole seconds never fall short of the oldest request's      *)
(* expiry, although it is computed from a later reading of the clock.       *)
RetryAfterSuffices ==
  \A k \in Keys :
    comeBack[k] # Never /\ clock >= comeBack[k] =>
      Len(hits[k]) < MaxRequests \/ Expired(hits[k], clock)
=============================================================================
