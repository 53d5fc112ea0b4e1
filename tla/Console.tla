------------------------------- MODULE Console -------------------------------
(***************************************************************************)
(* The analyst's browser: the session (AuthContext, request()), the response*)
(* page, whose list is fetched by useAsync and whose modal submits          *)
(* decisions, and the gateway that answers.  One tab; the calls in flight   *)
(* are answered and delivered in any order, or fail.                        *)
(*                                                                         *)
(* Of a list of recommendations only those matter that it shows as pending: *)
(* these are offered for a decision.                                        *)
(***************************************************************************)
EXTENDS Integers, FiniteSets

CONSTANTS
  Actions,         \* the recommendations
  NoAction,        \* no modal is open; the call decides on nothing
  MaxSessions,     \* bounds: logins,
  MaxPages,        \*   times the page is opened,
  MaxRuns,         \*   fetches of one of them,
  MaxCalls         \*   calls in flight

ASSUME ConsoleAssumption ==
  /\ NoAction \notin Actions
  /\ {MaxSessions, MaxPages, MaxRuns, MaxCalls} \subseteq Nat

VARIABLES
  session,      \* the token and user in localStorage, NoSession without
  issued,       \* how many sessions there have been
  expired,      \* those whose token the gateway no longer takes
  signingIn,    \* the login form waits for its answer
  page,         \* the response page
  opened,       \* how many times it was opened
  calls,        \* requests whose promise has not settled
  decided,      \* gateway: the recommendations that are not pending
  told          \* history: decisions this page was told were recorded

consoleVars == <<session, issued, expired, signingIn, page, opened, calls, decided, told>>

-----------------------------------------------------------------------------
NoSession == 0
Filters == {"all", "pending", "approved"}     \* the other values list no pending one either
ListsPending(filter) == filter \in {"all", "pending"}

NoPage ==
  [instance |-> 0, filter |-> "all", latest |-> 0, loading |-> FALSE, failed |-> FALSE,
   shows |-> "nothing", offers |-> {}, modal |-> NoAction, submitting |-> FALSE]

(* A call of useAsync's run: the one its effect makes is aborted when the   *)
(* effect is cleaned up, the one of refetch is not.                         *)
ListCall(instance, run, filter, abortable) ==
  [kind |-> "list", instance |-> instance, run |-> run, filter |-> filter, abortable |-> abortable,
   action |-> NoAction, session |-> session, reply |-> "none", offers |-> {}]
SubmitCall(instance, filter, action) ==
  [kind |-> "submit", instance |-> instance, run |-> 0, filter |-> filter, abortable |-> FALSE,
   action |-> action, session |-> session, reply |-> "none", offers |-> {}]

CanCall == Cardinality(calls) < MaxCalls

(* run(): the latest number is the new call's.                              *)
CanRun(p) == p.latest < MaxRuns /\ CanCall
Running(p) == [p EXCEPT !.latest = @ + 1, !.loading = TRUE, !.failed = FALSE]

(* The effect's clean-up: only calls of the page that is open are abortable.*)
Kept == {c \in calls : ~c.abortable}

(* The settled list is on the screen, its pending entries with buttons.     *)
Settled(p) == p.instance # 0 /\ ~p.loading /\ ~p.failed /\ p.shows # "nothing"

-----------------------------------------------------------------------------
ConsoleInit ==
  /\ session = NoSession /\ issued = 0 /\ expired = {} /\ signingIn = FALSE
  /\ page = NoPage /\ opened = 0
  /\ calls = {} /\ decided = {} /\ told = {}

(* The login page is only shown without a user.                             *)
SignIn ==
  /\ session = NoSession /\ ~signingIn
  /\ signingIn' = TRUE
  /\ UNCHANGED <<session, issued, expired, page, opened, calls, decided, told>>

SignedIn ==
  /\ signingIn /\ issued < MaxSessions
  /\ session' = issued + 1
  /\ issued' = issued + 1
  /\ signingIn' = FALSE
  /\ UNCHANGED <<expired, page, opened, calls, decided, told>>

SignInFails ==
  /\ signingIn
  /\ signingIn' = FALSE
  /\ UNCHANGED <<session, issued, expired, page, opened, calls, decided, told>>

(* Without a user ProtectedRoute unmounts every page.                       *)
Logout ==
  /\ session # NoSession
  /\ session' = NoSession
  /\ page' = NoPage /\ told' = {}
  /\ calls' = Kept
  /\ UNCHANGED <<issued, expired, signingIn, opened, decided>>

OpenPage ==
  /\ session # NoSession /\ page = NoPage
  /\ opened < MaxPages /\ CanRun(NoPage)
  /\ opened' = opened + 1
  /\ page' = [Running(NoPage) EXCEPT !.instance = opened + 1]
  /\ calls' = calls \cup {ListCall(opened + 1, 1, "all", TRUE)}
  /\ UNCHANGED <<session, issued, expired, signingIn, decided, told>>

LeavePage ==
  /\ page # NoPage
  /\ page' = NoPage /\ told' = {}
  /\ calls' = Kept
  /\ UNCHANGED <<session, issued, expired, signingIn, opened, decided>>

(* The browser loads everything anew: the session is found in localStorage. *)
Reload ==
  /\ page' = NoPage /\ told' = {}
  /\ calls' = {}
  /\ signingIn' = FALSE
  /\ UNCHANGED <<session, issued, expired, opened, decided>>

-----------------------------------------------------------------------------
(* The modal covers the page: its controls can be used when it is closed.   *)
Reachable == page # NoPage /\ page.modal = NoAction

(* setStatusFilter: the effect of the old filter is cleaned up, the new one *)
(* runs.                                                                    *)
ChangeFilter(filter) ==
  /\ Reachable /\ filter # page.filter /\ CanRun(page)
  /\ page' = [Running(page) EXCEPT !.filter = filter]
  /\ calls' = Kept \cup {ListCall(page.instance, page.latest + 1, filter, TRUE)}
  /\ UNCHANGED <<session, issued, expired, signingIn, opened, decided, told>>

(* The refresh button, and the retry button of an error.                    *)
Refresh ==
  /\ Reachable /\ CanRun(page)
  /\ page' = Running(page)
  /\ calls' = calls \cup {ListCall(page.instance, page.latest + 1, page.filter, FALSE)}
  /\ UNCHANGED <<session, issued, expired, signingIn, opened, decided, told>>

Review(action) ==
  /\ Reachable /\ Settled(page) /\ action \in page.offers
  /\ page' = [page EXCEPT !.modal = action]
  /\ UNCHANGED <<session, issued, expired, signingIn, opened, calls, decided, told>>

(* Cancel waits for the submission, the cross and the overlay do not.       *)
CloseModal ==
  /\ page.modal # NoAction
  /\ page' = [page EXCEPT !.modal = NoAction]
  /\ UNCHANGED <<session, issued, expired, signingIn, opened, calls, decided, told>>

(* handleSubmit: what follows its await belongs to this rendering, whose    *)
(* refetch fetches the filter of now.                                       *)
Confirm ==
  /\ page.modal # NoAction /\ ~page.submitting /\ CanCall
  /\ page' = [page EXCEPT !.submitting = TRUE]
  /\ calls' = calls \cup {SubmitCall(page.instance, page.filter, page.modal)}
  /\ UNCHANGED <<session, issued, expired, signingIn, opened, decided, told>>

-----------------------------------------------------------------------------
Replied(c, reply, offers) == [c EXCEPT !.reply = reply, !.offers = offers]
Waiting(c) == c \in calls /\ c.reply = "none"

Serve(c) ==
  /\ Waiting(c)
  /\ c.session \notin expired \cup {NoSession}
  /\ \/ /\ c.kind = "list"
        /\ calls' = (calls \ {c}) \cup
             {Replied(c, "ok", IF ListsPending(c.filter) THEN Actions \ decided ELSE {})}
        /\ UNCHANGED decided
     \/ /\ c.kind = "submit"
        /\ decided' = decided \cup {c.action}
        /\ calls' = (calls \ {c}) \cup {Replied(c, "ok", {})}
  /\ UNCHANGED <<session, issued, expired, signingIn, page, opened, told>>

Reject(c) ==
  /\ Waiting(c)
  /\ c.session \in expired \cup {NoSession}
  /\ calls' = (calls \ {c}) \cup {Replied(c, "unauthorized", {})}
  /\ UNCHANGED <<session, issued, expired, signingIn, page, opened, decided, told>>

(* Refused by the rate limiter, a server error, or an answer that is lost:  *)
(* the decision may have been recorded all the same.                        *)
Spoil(c) ==
  /\ Waiting(c)
  /\ calls' = (calls \ {c}) \cup {Replied(c, "failed", {})}
  /\ decided' \in {decided, decided \cup ({c.action} \ {NoAction})}
  /\ UNCHANGED <<session, issued, expired, signingIn, page, opened, told>>

Expire(s) ==
  /\ s \in 1..issued /\ s \notin expired
  /\ expired' = expired \cup {s}
  /\ UNCHANGED <<session, issued, signingIn, page, opened, calls, decided, told>>

DecidedElsewhere(action) ==
  /\ action \notin decided
  /\ decided' = decided \cup {action}
  /\ UNCHANGED <<session, issued, expired, signingIn, page, opened, calls, told>>

-----------------------------------------------------------------------------
(* Mutant of Latest: any answer of the page's own is taken.                 *)
OfThisPage(c) == page.instance = c.instance
Latest(c) == page.instance = c.instance /\ page.latest = c.run

ShowList(c) ==
  /\ c.kind = "list" /\ c.reply = "ok"
  /\ page' = IF Latest(c)
             THEN [page EXCEPT !.loading = FALSE, !.shows = c.filter, !.offers = c.offers]
             ELSE page
  /\ calls' = calls \ {c}
  /\ UNCHANGED <<session, told>>

ShowError(c) ==
  /\ c.kind = "list" /\ c.reply = "failed"
  /\ page' = IF Latest(c) THEN [page EXCEPT !.loading = FALSE, !.failed = TRUE] ELSE page
  /\ calls' = calls \ {c}
  /\ UNCHANGED <<session, told>>

(* A page that is gone refetches too, its list reaches no screen.           *)
ShowRecorded(c) ==
  /\ c.kind = "submit" /\ c.reply = "ok"
  /\ IF page.instance = c.instance
     THEN /\ page.latest < MaxRuns
          /\ page' = [Running(page) EXCEPT !.modal = NoAction, !.submitting = FALSE]
          /\ calls' = (calls \ {c}) \cup {ListCall(page.instance, page.latest + 1, c.filter, FALSE)}
          /\ told' = told \cup {c.action}
     ELSE /\ calls' = (calls \ {c}) \cup {ListCall(c.instance, 0, c.filter, FALSE)}
          /\ UNCHANGED <<page, told>>
  /\ UNCHANGED session

ShowNotRecorded(c) ==
  /\ c.kind = "submit" /\ c.reply = "failed"
  /\ page' = IF page.instance = c.instance THEN [page EXCEPT !.submitting = FALSE] ELSE page
  /\ calls' = calls \ {c}
  /\ UNCHANGED <<session, told>>

(* A 401 ends the session, whichever session the request belonged to.       *)
EndSession(c) ==
  /\ c.reply = "unauthorized"
  /\ session' = NoSession
  /\ page' = NoPage /\ told' = {}
  /\ calls' = Kept \ {c}

Settle(c) ==
  /\ c \in calls
  /\ ShowList(c) \/ ShowError(c) \/ ShowRecorded(c) \/ ShowNotRecorded(c) \/ EndSession(c)
  /\ UNCHANGED <<issued, expired, signingIn, opened, decided>>

-----------------------------------------------------------------------------
ConsoleNext ==
  \/ SignIn \/ SignedIn \/ SignInFails \/ Logout
  \/ OpenPage \/ LeavePage \/ Reload
  \/ \E filter \in Filters : ChangeFilter(filter)
  \/ Refresh
  \/ \E action \in Actions : Review(action) \/ DecidedElsewhere(action)
  \/ CloseModal \/ Confirm
  \/ \E c \in calls : Serve(c) \/ Reject(c) \/ Spoil(c) \/ Settle(c)
  \/ \E s \in 1..MaxSessions : Expire(s)

ConsoleSpec == ConsoleInit /\ [][ConsoleNext]_consoleVars

-----------------------------------------------------------------------------
Replies == {"none", "ok", "failed", "unauthorized"}
Pages ==
  [instance: Nat, filter: Filters, latest: Nat, loading: BOOLEAN, failed: BOOLEAN,
   shows: Filters \cup {"nothing"}, offers: SUBSET Actions, modal: Actions \cup {NoAction},
   submitting: BOOLEAN]
Calls ==
  [kind: {"list", "submit"}, instance: Nat, run: Nat, filter: Filters, abortable: BOOLEAN,
   action: Actions \cup {NoAction}, session: Nat, reply: Replies, offers: SUBSET Actions]

ConsoleTypeOK ==
  /\ session \in Nat /\ issued \in Nat /\ opened \in Nat
  /\ expired \subseteq Nat
  /\ signingIn \in BOOLEAN
  /\ page \in Pages
  /\ calls \subseteq Calls
  /\ decided \subseteq Actions /\ told \subseteq Actions

(* A decision the page was told is recorded is not asked for again: no list *)
(* fetched before it, delivered late or out of turn, brings the buttons     *)
(* back.                                                                    *)
NoStaleOffer == Settled(page) => page.offers \cap told = {}

(* useAsync: "stale requests never clobber fresher state" -- what the page  *)
(* shows once it has settled was fetched for the filter it is set to.       *)
ShowsItsFilter == Settled(page) => page.shows = page.filter
=============================================================================
