---------------------------- MODULE PlatformProofs ----------------------------
(***************************************************************************)
(* The response page, for every set of recommendations and any number of    *)
(* sessions, pages, fetches and calls in flight; the bandit's experience    *)
(* across crashes and what it recommends, for every feedback log and every  *)
(* set of feedback calls; the platform put together of its parts; and the   *)
(* template's triage report, for every case, its alerts and any cap.        *)
(***************************************************************************)
EXTENDS MCPlatform, GraphStoreProofs, GatewayProofs, TLAPS

ListsOf(p, c) == c.kind = "list" /\ c.instance = p.instance

-----------------------------------------------------------------------------
(* The inductive invariant.  The run numbers of a page's calls do not       *)
(* exceed its latest; the answer that will be shown, and the list that is,  *)
(* offer nothing the page was told is decided.                              *)
CurrentCall(p, c) ==
  /\ c.instance \in 1..opened
  /\ c.instance = p.instance => c.run <= p.latest
  /\ ListsOf(p, c) /\ c.run = p.latest => c.offers \cap told = {}
  /\ c.kind = "submit" => c.action \in Actions
  /\ c.kind = "submit" /\ c.reply = "ok" => c.action \in decided

InFlightCurrent == \A c \in calls : CurrentCall(page, c)

PageOpen ==
  /\ page.instance \in 0..opened
  /\ page = NoPage \/ page.instance # 0
  /\ page.modal # NoAction => page.instance # 0

ConsoleInv ==
  /\ ConsoleTypeOK
  /\ InFlightCurrent
  /\ PageOpen
  /\ told \subseteq decided
  /\ NoStaleOffer

-----------------------------------------------------------------------------
(* Types of the records the console makes                                   *)
LEMMA PagesAreTyped ==
  /\ NoPage \in Pages
  /\ NoPage.instance = 0 /\ NoPage.latest = 0 /\ NoPage.modal = NoAction /\ ~Settled(NoPage)
BY DEF NoPage, Pages, Filters, Settled

(* A fetch, as run() starts it                                              *)
LEMMA ListCallIsTyped ==
  ASSUME ConsoleTypeOK, NEW i \in Nat, NEW run \in Nat, NEW filter \in Filters,
         NEW abortable \in BOOLEAN,
         NEW c, c = ListCall(i, run, filter, abortable)
  PROVE  c \in Calls /\ c.kind = "list" /\ c.instance = i /\ c.run = run /\ c.offers = {}
BY DEF ListCall, Calls, Replies, ConsoleTypeOK

(* A decision, as handleSubmit sends it                                     *)
LEMMA SubmitCallIsTyped ==
  ASSUME ConsoleTypeOK, NEW i \in Nat, NEW filter \in Filters, NEW action \in Actions
  PROVE  LET c == SubmitCall(i, filter, action)
         IN  /\ c \in Calls /\ c.kind = "submit" /\ c.instance = i /\ c.run = 0
             /\ c.action = action /\ c.reply = "none"
BY DEF SubmitCall, Calls, Replies, ConsoleTypeOK

(* A page that fetches has a higher number and is not settled.              *)
LEMMA RunningIsTyped ==
  ASSUME NEW p \in Pages
  PROVE  LET q == Running(p)
         IN  /\ q \in Pages /\ q.latest = p.latest + 1 /\ q.instance = p.instance
             /\ q.modal = p.modal /\ q.filter = p.filter /\ ~Settled(q)
<1>1. PICK n : n = p.latest + 1
  OBVIOUS
<1>2. n \in Nat
  BY <1>1 DEF Pages
<1>3. PICK q : q = [p EXCEPT !.latest = n, !.loading = TRUE, !.failed = FALSE]
  OBVIOUS
<1>4. /\ q \in Pages /\ q.latest = n /\ q.instance = p.instance
      /\ q.modal = p.modal /\ q.filter = p.filter /\ q.loading
  BY <1>2, <1>3 DEF Pages
<1>5. Running(p) = q
  BY <1>1, <1>3 DEF Running
<1> QED  BY <1>1, <1>4, <1>5 DEF Settled

(* An answered call keeps whose it is.                                      *)
LEMMA RepliedIsTyped ==
  ASSUME NEW c \in Calls, NEW reply \in Replies, NEW offers \in SUBSET Actions
  PROVE  LET d == Replied(c, reply, offers)
         IN  /\ d \in Calls /\ d.kind = c.kind /\ d.instance = c.instance /\ d.run = c.run
             /\ d.action = c.action /\ d.reply = reply /\ d.offers = offers
BY DEF Replied, Calls

-----------------------------------------------------------------------------
(* The page is left: what comes back reaches no screen.                     *)
LEMMA LeftInv ==
  ASSUME ConsoleInv, page' = NoPage, told' = {}, calls' \subseteq calls, opened' = opened,
         decided' = decided, issued' = issued, expired' = expired,
         session' \in Nat, signingIn' \in BOOLEAN
  PROVE  ConsoleInv'
<1>1. ConsoleTypeOK'
  BY PagesAreTyped DEF ConsoleInv, ConsoleTypeOK
<1>2. InFlightCurrent'
  <2>1. ASSUME NEW c \in calls PROVE CurrentCall(page, c)'
    BY <2>1, PagesAreTyped DEF ConsoleInv, InFlightCurrent, CurrentCall, ListsOf
  <2> QED  BY <2>1 DEF InFlightCurrent
<1>3. PageOpen' /\ (told \subseteq decided)' /\ NoStaleOffer'
  BY PagesAreTyped DEF ConsoleInv, PageOpen, NoStaleOffer, ConsoleTypeOK
<1> QED  BY <1>1, <1>2, <1>3 DEF ConsoleInv

(* The page fetches: the new call alone carries the latest number.          *)
LEMMA FetchInv ==
  ASSUME ConsoleInv, NEW filter \in Filters, NEW abortable \in BOOLEAN, NEW kept \in SUBSET calls,
         NEW p \in Pages, p.latest = page.latest + 1, p.instance = page.instance, ~Settled(p),
         page.instance # 0, page' = p,
         calls' = kept \cup {ListCall(page.instance, page.latest + 1, filter, abortable)},
         told' \subseteq decided, told' \in SUBSET Actions,
         UNCHANGED <<session, issued, expired, signingIn, opened, decided>>
  PROVE  ConsoleInv'
<1>1. PICK d : d = ListCall(page.instance, page.latest + 1, filter, abortable)
  OBVIOUS
<1>2. page.instance \in Nat /\ page.latest \in Nat /\ opened \in Nat
  BY DEF ConsoleInv, ConsoleTypeOK, Pages
<1>3. /\ d \in Calls /\ d.kind = "list" /\ d.instance = page.instance
      /\ d.run = page.latest + 1 /\ d.offers = {}
  BY <1>1, <1>2, ListCallIsTyped DEF ConsoleInv
<1>4. ConsoleTypeOK'
  BY <1>1, <1>3 DEF ConsoleInv, ConsoleTypeOK
<1>5. ASSUME NEW c \in calls PROVE CurrentCall(page, c)'
  <2>1. c.instance = page.instance => c.run <= page.latest /\ c.run \in Nat
    BY <1>5 DEF ConsoleInv, InFlightCurrent, CurrentCall, ConsoleTypeOK, Calls
  <2>2. c.instance = p.instance => c.run <= p.latest /\ c.run # p.latest
    BY <1>2, <2>1
  <2> QED  BY <1>5, <2>2 DEF ConsoleInv, InFlightCurrent, CurrentCall, ListsOf
<1>6. CurrentCall(page, d)'
  BY <1>2, <1>3 DEF ConsoleInv, PageOpen, CurrentCall, ListsOf
<1>7. InFlightCurrent'
  BY <1>1, <1>5, <1>6 DEF InFlightCurrent
<1>8. PageOpen' /\ (told \subseteq decided)' /\ NoStaleOffer'
  BY <1>2 DEF ConsoleInv, PageOpen, NoStaleOffer, NoPage
<1> QED  BY <1>4, <1>7, <1>8 DEF ConsoleInv

(* Calls that end, are answered or are added, the page staying on its list  *)
LEMMA CallsInv ==
  ASSUME ConsoleInv, NEW d \in Calls, CurrentCall(page, d)', calls' \subseteq calls \cup {d},
         decided \subseteq decided', decided' \subseteq Actions,
         page' \in Pages, page'.instance = page.instance, page'.latest = page.latest,
         page.instance = 0 => page' = page, page'.modal # NoAction => page.instance # 0,
         NoStaleOffer', UNCHANGED <<session, issued, expired, signingIn, opened, told>>
  PROVE  ConsoleInv'
<1>1. ConsoleTypeOK'
  BY DEF ConsoleInv, ConsoleTypeOK
<1>2. ASSUME NEW c \in calls PROVE CurrentCall(page, c)'
  BY <1>2 DEF ConsoleInv, InFlightCurrent, CurrentCall, ListsOf
<1>3. InFlightCurrent'
  BY <1>2 DEF InFlightCurrent
<1>4. PageOpen'
  BY DEF ConsoleInv, PageOpen
<1> QED  BY <1>1, <1>3, <1>4 DEF ConsoleInv

(* Nothing has been shown yet.                                              *)
LEMMA ConsoleInitInv == ConsoleInit => ConsoleInv
<1> SUFFICES ASSUME ConsoleInit PROVE ConsoleInv
  OBVIOUS
<1>1. /\ session = 0 /\ issued = 0 /\ expired = {} /\ signingIn = FALSE /\ page = NoPage
      /\ opened = 0 /\ calls = {} /\ decided = {} /\ told = {}
  BY DEF ConsoleInit, NoSession
<1>2. ConsoleTypeOK
  BY <1>1, PagesAreTyped DEF ConsoleTypeOK
<1>3. InFlightCurrent /\ told \subseteq decided
  BY <1>1 DEF InFlightCurrent
<1>4. PageOpen
  BY <1>1, PagesAreTyped DEF PageOpen
<1>5. NoStaleOffer
  BY <1>1, PagesAreTyped DEF NoStaleOffer
<1> QED  BY <1>2, <1>3, <1>4, <1>5 DEF ConsoleInv

(* Signing in, out and in again, and the gateway's own clock                *)
LEMMA SessionInv ==
  ASSUME ConsoleInv,
         \/ SignIn \/ SignedIn \/ SignInFails
         \/ \E s \in 1..MaxSessions : Expire(s)
  PROVE  ConsoleInv'
<1>1. /\ UNCHANGED <<page, opened, calls, decided, told>>
      /\ session' \in Nat /\ issued' \in Nat /\ expired' \subseteq Nat /\ signingIn' \in BOOLEAN
  <2>1. session \in Nat /\ issued \in Nat /\ expired \subseteq Nat /\ signingIn \in BOOLEAN
    BY DEF ConsoleInv, ConsoleTypeOK
  <2>2. CASE SignIn
    BY <2>1, <2>2 DEF SignIn
  <2>3. CASE SignedIn
    <3>1. issued + 1 \in Nat
      BY <2>1
    <3>2. /\ session' = issued + 1 /\ issued' = issued + 1 /\ signingIn' = FALSE
          /\ UNCHANGED <<expired, page, opened, calls, decided, told>>
      BY <2>3, Zenon DEF SignedIn
    <3> QED  BY <2>1, <3>1, <3>2
  <2>4. CASE SignInFails
    BY <2>1, <2>4 DEF SignInFails
  <2>5. ASSUME NEW s \in 1..MaxSessions, Expire(s)
        PROVE  /\ UNCHANGED <<page, opened, calls, decided, told, session, issued, signingIn>>
               /\ expired' \subseteq Nat
    BY <2>1, <2>5 DEF Expire
  <2> QED  BY <2>1, <2>2, <2>3, <2>4, <2>5
<1> QED
  BY <1>1 DEF ConsoleInv, ConsoleTypeOK, InFlightCurrent, CurrentCall, ListsOf, PageOpen, NoStaleOffer

(* Logging out, leaving the page and reloading                              *)
LEMMA LeaveInv ==
  ASSUME ConsoleInv, Logout \/ LeavePage \/ Reload
  PROVE  ConsoleInv'
<1>1. session \in Nat /\ signingIn \in BOOLEAN /\ NoSession \in Nat
  BY DEF ConsoleInv, ConsoleTypeOK, NoSession
<1>2. /\ page' = NoPage /\ told' = {} /\ calls' \subseteq calls
      /\ session' \in Nat /\ signingIn' \in BOOLEAN
      /\ UNCHANGED <<opened, decided, issued, expired>>
  <2>1. CASE Logout
    BY <1>1, <2>1 DEF Logout, Kept
  <2>2. CASE LeavePage
    BY <1>1, <2>2 DEF LeavePage, Kept
  <2>3. CASE Reload
    BY <1>1, <2>3 DEF Reload
  <2> QED  BY <2>1, <2>2, <2>3
<1> QED  BY <1>2, LeftInv

(* A page that opens has a number of its own.                               *)
LEMMA OpenPageInv ==
  ASSUME ConsoleInv, OpenPage
  PROVE  ConsoleInv'
<1>1. opened \in Nat /\ told \subseteq Actions /\ decided \subseteq Actions
  BY DEF ConsoleInv, ConsoleTypeOK
<1>2. PICK n : n = opened + 1
  OBVIOUS
<1>3. PICK q : q = Running(NoPage)
  OBVIOUS
<1>4. q \in Pages /\ q.latest = 1 /\ q.modal = NoAction /\ ~Settled(q)
  BY <1>3, PagesAreTyped, RunningIsTyped
<1>5. PICK p : p = [q EXCEPT !.instance = n]
  OBVIOUS
<1>6. n \in Nat /\ n # 0
  BY <1>1, <1>2
<1>7. p \in Pages /\ p.instance = n /\ p.latest = 1 /\ p.modal = NoAction /\ ~Settled(p)
  <2>1. /\ p \in Pages /\ p.instance = n /\ p.latest = q.latest /\ p.modal = q.modal
        /\ p.loading = q.loading /\ p.failed = q.failed /\ p.shows = q.shows
    BY <1>4, <1>5, <1>6 DEF Pages
  <2>2. q.loading
    BY <1>3 DEF Running, NoPage
  <2> QED  BY <1>4, <2>1, <2>2 DEF Settled
<1>8. PICK d : d = ListCall(n, 1, "all", TRUE)
  OBVIOUS
<1>9. d \in Calls /\ d.kind = "list" /\ d.instance = n /\ d.run = 1 /\ d.offers = {}
  <2>1. "all" \in Filters
    BY DEF Filters
  <2>2. PICK run \in Nat, abortable \in BOOLEAN : run = 1 /\ abortable = TRUE
    OBVIOUS
  <2>3. d = ListCall(n, run, "all", abortable)
    BY <1>8, <2>2
  <2>4. /\ d \in Calls /\ d.kind = "list" /\ d.instance = n /\ d.run = run /\ d.offers = {}
    BY <1>6, <2>1, <2>3, ListCallIsTyped DEF ConsoleInv
  <2> QED  BY <2>2, <2>4
<1>10. /\ page' = p /\ opened' = n /\ calls' = calls \cup {d}
       /\ UNCHANGED <<session, issued, expired, signingIn, decided, told>>
  BY <1>2, <1>3, <1>5, <1>8 DEF OpenPage
<1>11. ConsoleTypeOK'
  BY <1>6, <1>7, <1>9, <1>10 DEF ConsoleInv, ConsoleTypeOK
<1>12. ASSUME NEW c \in calls PROVE CurrentCall(page, c)'
  <2>1. c.instance \in 1..opened
    BY <1>12 DEF ConsoleInv, InFlightCurrent, CurrentCall
  <2>2. c.instance # n /\ c.instance \in 1..n
    BY <1>1, <1>2, <2>1
  <2> QED  BY <1>7, <1>10, <1>12, <2>2 DEF ConsoleInv, InFlightCurrent, CurrentCall, ListsOf
<1>13. CurrentCall(page, d)'
  BY <1>6, <1>7, <1>9, <1>10 DEF CurrentCall, ListsOf
<1>14. InFlightCurrent'
  BY <1>10, <1>12, <1>13 DEF InFlightCurrent
<1>15. PageOpen' /\ (told \subseteq decided)' /\ NoStaleOffer'
  BY <1>6, <1>7, <1>10 DEF ConsoleInv, PageOpen, NoStaleOffer
<1> QED  BY <1>11, <1>14, <1>15 DEF ConsoleInv

(* The filter is changed, or the list asked for again.                      *)
LEMMA RefetchInv ==
  ASSUME ConsoleInv, Refresh \/ \E filter \in Filters : ChangeFilter(filter)
  PROVE  ConsoleInv'
<1>1. /\ page \in Pages /\ told \in SUBSET Actions /\ told \subseteq decided
      /\ page.filter \in Filters /\ Kept \in SUBSET calls
  BY DEF ConsoleInv, ConsoleTypeOK, Pages, Kept
<1>2. PICK q : q = Running(page)
  OBVIOUS
<1>3. q \in Pages /\ q.latest = page.latest + 1 /\ q.instance = page.instance /\ ~Settled(q)
  BY <1>1, <1>2, RunningIsTyped
<1>4. CASE Refresh
  <2>1. /\ page # NoPage /\ page' = q
        /\ calls' = calls \cup {ListCall(page.instance, page.latest + 1, page.filter, FALSE)}
        /\ UNCHANGED <<session, issued, expired, signingIn, opened, decided, told>>
    BY <1>2, <1>4 DEF Refresh, Reachable
  <2>2. page.instance # 0
    BY <2>1 DEF ConsoleInv, PageOpen
  <2> QED  BY <1>1, <1>3, <2>1, <2>2, FetchInv
<1>5. ASSUME NEW filter \in Filters, ChangeFilter(filter) PROVE ConsoleInv'
  <2>1. PICK p : p = [q EXCEPT !.filter = filter]
    OBVIOUS
  <2>2. /\ p \in Pages /\ p.latest = q.latest /\ p.instance = q.instance /\ p.loading = q.loading
    BY <1>3, <2>1 DEF Pages
  <2>3. q.loading
    BY <1>1, <1>2 DEF Running, Pages
  <2>4. /\ page # NoPage /\ page' = p
        /\ calls' = Kept \cup {ListCall(page.instance, page.latest + 1, filter, TRUE)}
        /\ UNCHANGED <<session, issued, expired, signingIn, opened, decided, told>>
    BY <1>2, <1>5, <2>1 DEF ChangeFilter, Reachable
  <2>5. page.instance # 0
    BY <2>4 DEF ConsoleInv, PageOpen
  <2>6. p.latest = page.latest + 1 /\ p.instance = page.instance /\ ~Settled(p)
    BY <1>3, <2>2, <2>3 DEF Settled
  <2> QED  BY <1>1, <2>2, <2>4, <2>5, <2>6, FetchInv
<1> QED  BY <1>4, <1>5

(* The modal opens over what is offered, and closes.                        *)
LEMMA ModalInv ==
  ASSUME ConsoleInv, CloseModal \/ \E action \in Actions : Review(action)
  PROVE  ConsoleInv'
<1>1. PICK m \in Actions \cup {NoAction} :
        /\ page' = [page EXCEPT !.modal = m]
        /\ m # NoAction => page # NoPage
        /\ page.instance = 0 => page.modal # NoAction
        /\ UNCHANGED <<session, issued, expired, signingIn, opened, calls, decided, told>>
  <2>1. page.instance = 0 => page = NoPage
    BY DEF ConsoleInv, PageOpen
  <2>2. CASE CloseModal
    BY <2>2 DEF CloseModal
  <2>3. ASSUME NEW action \in Actions, Review(action)
        PROVE  /\ page' = [page EXCEPT !.modal = action] /\ page # NoPage /\ page.instance # 0
               /\ UNCHANGED <<session, issued, expired, signingIn, opened, calls, decided, told>>
    BY <2>1, <2>3 DEF Review, Reachable
  <2> QED  BY <2>2, <2>3
<1>2. page.instance # 0
  BY <1>1 DEF ConsoleInv, PageOpen
<1>3. page \in Pages
  BY DEF ConsoleInv, ConsoleTypeOK
<1>4. /\ page' \in Pages /\ page'.instance = page.instance /\ page'.latest = page.latest
      /\ page'.loading = page.loading /\ page'.failed = page.failed
      /\ page'.shows = page.shows /\ page'.offers = page.offers
  BY <1>1, <1>3 DEF Pages
<1>5. ConsoleTypeOK'
  BY <1>1, <1>4 DEF ConsoleInv, ConsoleTypeOK
<1>6. InFlightCurrent'
  BY <1>1, <1>4 DEF ConsoleInv, InFlightCurrent, CurrentCall, ListsOf
<1>7. PageOpen' /\ (told \subseteq decided)'
  BY <1>1, <1>2, <1>4 DEF ConsoleInv, PageOpen
<1>8. NoStaleOffer'
  BY <1>1, <1>4 DEF ConsoleInv, NoStaleOffer, Settled
<1> QED  BY <1>5, <1>6, <1>7, <1>8 DEF ConsoleInv

(* A submission is on its way.                                              *)
LEMMA ConfirmInv ==
  ASSUME ConsoleInv, Confirm
  PROVE  ConsoleInv'
<1>1. page \in Pages
  BY DEF ConsoleInv, ConsoleTypeOK
<1>2. PICK a : a = page.modal
  OBVIOUS
<1>3. PICK d : d = SubmitCall(page.instance, page.filter, a)
  OBVIOUS
<1>4. /\ a # NoAction /\ calls' = calls \cup {d}
      /\ page' = [page EXCEPT !.submitting = TRUE]
      /\ UNCHANGED <<session, issued, expired, signingIn, opened, decided, told>>
  BY <1>2, <1>3, Zenon DEF Confirm
<1>5. /\ page.instance \in Nat /\ page.instance # 0 /\ page.instance \in 1..opened
      /\ page.latest \in Nat /\ page.filter \in Filters /\ a \in Actions
  BY <1>1, <1>2, <1>4 DEF ConsoleInv, PageOpen, ConsoleTypeOK, Pages
<1>6. /\ d \in Calls /\ d.kind = "submit" /\ d.instance = page.instance
      /\ d.run = 0 /\ d.action = a /\ d.reply = "none"
  BY <1>3, <1>5, SubmitCallIsTyped DEF ConsoleInv
<1>7. /\ page' \in Pages /\ page'.instance = page.instance /\ page'.latest = page.latest
      /\ page'.loading = page.loading /\ page'.failed = page.failed
      /\ page'.shows = page.shows /\ page'.offers = page.offers
  BY <1>1, <1>4 DEF Pages
<1>8. CurrentCall(page, d)'
  BY <1>4, <1>5, <1>6, <1>7 DEF CurrentCall, ListsOf
<1>9. NoStaleOffer'
  BY <1>4, <1>7 DEF ConsoleInv, NoStaleOffer, Settled
<1>10. decided \subseteq decided' /\ decided' \subseteq Actions
  BY <1>4 DEF ConsoleInv, ConsoleTypeOK
<1> QED  BY <1>4, <1>5, <1>6, <1>7, <1>8, <1>9, <1>10, CallsInv

(* A call is answered, decided having grown by at most its action: a list   *)
(* it brings was taken after everything the page has been told of.          *)
LEMMA AnswerInv ==
  ASSUME ConsoleInv, NEW c \in calls, NEW reply \in Replies, NEW offers \in SUBSET Actions,
         offers \cap told = {},
         c.kind = "submit" /\ reply = "ok" => c.action \in decided',
         calls' = (calls \ {c}) \cup {Replied(c, reply, offers)},
         decided \subseteq decided', decided' \subseteq Actions,
         UNCHANGED <<session, issued, expired, signingIn, page, opened, told>>
  PROVE  ConsoleInv'
<1>1. c \in Calls /\ page \in Pages /\ CurrentCall(page, c)
  BY DEF ConsoleInv, ConsoleTypeOK, InFlightCurrent
<1>2. PICK d : d = Replied(c, reply, offers)
  OBVIOUS
<1>3. /\ d \in Calls /\ d.kind = c.kind /\ d.instance = c.instance /\ d.run = c.run
      /\ d.action = c.action /\ d.reply = reply /\ d.offers = offers
  BY <1>1, <1>2, RepliedIsTyped
<1>4. CurrentCall(page, d)'
  BY <1>1, <1>3 DEF CurrentCall, ListsOf
<1>5. NoStaleOffer'
  BY DEF ConsoleInv, NoStaleOffer, Settled
<1>6. page.instance = 0 => page' = page
  OBVIOUS
<1>7. page'.modal # NoAction => page.instance # 0
  BY DEF ConsoleInv, PageOpen
<1> QED  BY <1>1, <1>2, <1>3, <1>4, <1>5, <1>6, <1>7, CallsInv

(* The gateway takes a call, turns it away, or its answer is lost.          *)
LEMMA GatewayInv ==
  ASSUME ConsoleInv, NEW c \in calls, Serve(c) \/ Reject(c) \/ Spoil(c)
  PROVE  ConsoleInv'
<1>1. /\ c \in Calls /\ decided \subseteq Actions /\ told \subseteq decided
      /\ c.action \in Actions \cup {NoAction}
  BY DEF ConsoleInv, ConsoleTypeOK, Calls
<1>2. /\ {} \in SUBSET Actions /\ {} \cap told = {}
      /\ "ok" \in Replies /\ "failed" \in Replies /\ "unauthorized" \in Replies
      /\ "failed" # "ok" /\ "unauthorized" # "ok"
  BY DEF Replies
<1>3. CASE Serve(c)
  <2>1. UNCHANGED <<session, issued, expired, signingIn, page, opened, told>>
    BY <1>3, Zenon DEF Serve
  <2>2. ASSUME c.kind = "list", UNCHANGED decided,
               calls' = (calls \ {c}) \cup
                 {Replied(c, "ok", IF ListsPending(c.filter) THEN Actions \ decided ELSE {})}
        PROVE  ConsoleInv'
    <3>1. PICK offers :
            /\ offers = IF ListsPending(c.filter) THEN Actions \ decided ELSE {}
      OBVIOUS
    <3>2. offers \in SUBSET Actions /\ offers \cap told = {}
      BY <1>1, <3>1
    <3>3. "list" # "submit"
      OBVIOUS
    <3> QED  BY <1>1, <1>2, <2>1, <2>2, <3>1, <3>2, <3>3, AnswerInv
  <2>3. ASSUME c.kind = "submit", decided' = decided \cup {c.action}, c.action \in Actions,
               calls' = (calls \ {c}) \cup {Replied(c, "ok", {})}
        PROVE  ConsoleInv'
    BY <1>1, <1>2, <2>1, <2>3, AnswerInv
  <2>4. c.kind = "submit" => c.action \in Actions
    BY DEF ConsoleInv, InFlightCurrent, CurrentCall
  <2> QED  BY <1>3, <2>2, <2>3, <2>4 DEF Serve
<1>4. CASE Reject(c)
  <2>1. /\ calls' = (calls \ {c}) \cup {Replied(c, "unauthorized", {})}
        /\ UNCHANGED <<session, issued, expired, signingIn, page, opened, decided, told>>
    BY <1>4, Zenon DEF Reject
  <2> QED  BY <1>1, <1>2, <2>1, AnswerInv
<1>5. CASE Spoil(c)
  <2>1. /\ calls' = (calls \ {c}) \cup {Replied(c, "failed", {})}
        /\ decided' \in {decided, decided \cup ({c.action} \ {NoAction})}
        /\ UNCHANGED <<session, issued, expired, signingIn, page, opened, told>>
    BY <1>5, Zenon DEF Spoil
  <2>2. decided \subseteq decided' /\ decided' \subseteq Actions
    BY <1>1, <2>1
  <2> QED  BY <1>1, <1>2, <2>1, <2>2, AnswerInv
<1> QED  BY <1>3, <1>4, <1>5

(* Someone else decides.                                                    *)
LEMMA ElsewhereInv ==
  ASSUME ConsoleInv, NEW action \in Actions, DecidedElsewhere(action)
  PROVE  ConsoleInv'
<1>1. /\ decided' = decided \cup {action}
      /\ UNCHANGED <<session, issued, expired, signingIn, page, opened, calls, told>>
  BY Zenon DEF DecidedElsewhere
<1>2. ConsoleTypeOK'
  BY <1>1 DEF ConsoleInv, ConsoleTypeOK
<1>3. InFlightCurrent'
  BY <1>1 DEF ConsoleInv, InFlightCurrent, CurrentCall, ListsOf
<1>4. PageOpen' /\ (told \subseteq decided)' /\ NoStaleOffer'
  BY <1>1 DEF ConsoleInv, PageOpen, NoStaleOffer, Settled
<1> QED  BY <1>2, <1>3, <1>4 DEF ConsoleInv

(* A list or an error reaches the screen if it has the latest number; a     *)
(* refusal gives the button back.                                           *)
LEMMA ShowInv ==
  ASSUME ConsoleInv, NEW c \in calls, ShowList(c) \/ ShowError(c) \/ ShowNotRecorded(c),
         UNCHANGED <<issued, expired, signingIn, opened, decided>>
  PROVE  ConsoleInv'
<1>1. c \in Calls /\ page \in Pages /\ CurrentCall(page, c) /\ decided \subseteq Actions
  BY DEF ConsoleInv, ConsoleTypeOK, InFlightCurrent
<1>2. UNCHANGED <<session, told>> /\ calls' = calls \ {c}
  BY Zenon DEF ShowList, ShowError, ShowNotRecorded
<1>3. c.instance # 0 /\ c.filter \in Filters /\ c.offers \in SUBSET Actions
  BY <1>1 DEF CurrentCall, Calls
<1>4. /\ page' \in Pages /\ page'.instance = page.instance /\ page'.latest = page.latest
      /\ page'.modal = page.modal /\ (page.instance = 0 => page' = page)
      /\ NoStaleOffer'
  <2>1. CASE page' = page
    BY <1>1, <1>2, <2>1 DEF ConsoleInv, NoStaleOffer, Settled
  <2>2. CASE ShowList(c) /\ page' # page
    <3>1. /\ page' = [page EXCEPT !.loading = FALSE, !.shows = c.filter, !.offers = c.offers]
          /\ Latest(c) /\ c.kind = "list"
      BY <2>2, Zenon DEF ShowList
    <3>2. page.instance = c.instance /\ c.offers \cap told = {}
      BY <1>1, <3>1 DEF Latest, CurrentCall, ListsOf
    <3>3. /\ page' \in Pages /\ page'.instance = page.instance /\ page'.latest = page.latest
          /\ page'.modal = page.modal /\ page'.offers = c.offers
      BY <1>1, <1>3, <3>1 DEF Pages
    <3> QED  BY <1>2, <1>3, <3>2, <3>3 DEF NoStaleOffer
  <2>3. CASE ShowError(c) /\ page' # page
    <3>1. page' = [page EXCEPT !.loading = FALSE, !.failed = TRUE] /\ Latest(c)
      BY <2>3, Zenon DEF ShowError
    <3>2. /\ page' \in Pages /\ page'.instance = page.instance /\ page'.latest = page.latest
          /\ page'.modal = page.modal /\ page'.failed
      BY <1>1, <3>1 DEF Pages
    <3> QED  BY <1>3, <3>1, <3>2 DEF Latest, NoStaleOffer, Settled
  <2>4. CASE ShowNotRecorded(c) /\ page' # page
    <3>1. page' = [page EXCEPT !.submitting = FALSE] /\ page.instance = c.instance
      BY <2>4, Zenon DEF ShowNotRecorded
    <3>2. /\ page' \in Pages /\ page'.instance = page.instance /\ page'.latest = page.latest
          /\ page'.modal = page.modal /\ page'.loading = page.loading
          /\ page'.failed = page.failed /\ page'.shows = page.shows /\ page'.offers = page.offers
      BY <1>1, <3>1 DEF Pages
    <3> QED  BY <1>2, <1>3, <3>1, <3>2 DEF ConsoleInv, NoStaleOffer, Settled
  <2> QED  BY <2>1, <2>2, <2>3, <2>4
<1>5. CurrentCall(page, c)'
  BY <1>1, <1>2, <1>4 DEF CurrentCall, ListsOf
<1>6. page'.modal # NoAction => page.instance # 0
  BY <1>4 DEF ConsoleInv, PageOpen
<1> QED  BY <1>1, <1>2, <1>4, <1>5, <1>6, CallsInv

(* The page is told: it fetches its list anew, or is gone and fetches it    *)
(* for nothing.                                                             *)
LEMMA ShowRecordedInv ==
  ASSUME ConsoleInv, NEW c \in calls, ShowRecorded(c),
         UNCHANGED <<issued, expired, signingIn, opened, decided>>
  PROVE  ConsoleInv'
<1>1. /\ c \in Calls /\ page \in Pages /\ CurrentCall(page, c)
      /\ told \subseteq decided /\ decided \subseteq Actions
  BY DEF ConsoleInv, ConsoleTypeOK, InFlightCurrent
<1>2. /\ session' = session /\ c.action \in decided
      /\ c.instance \in Nat /\ c.instance # 0 /\ c.instance \in 1..opened /\ c.filter \in Filters
  BY <1>1 DEF ShowRecorded, CurrentCall, Calls
<1>3. CASE page.instance = c.instance
  <2>1. PICK q : q = Running(page)
    OBVIOUS
  <2>2. /\ q \in Pages /\ q.latest = page.latest + 1 /\ q.instance = page.instance
    BY <1>1, <2>1, RunningIsTyped
  <2>3. PICK p : p = [q EXCEPT !.modal = NoAction, !.submitting = FALSE]
    OBVIOUS
  <2>4. /\ p \in Pages /\ p.latest = q.latest /\ p.instance = q.instance /\ p.loading = q.loading
    BY <2>2, <2>3 DEF Pages
  <2>5. q.loading
    BY <1>1, <2>1 DEF Running, Pages
  <2>6. p.latest = page.latest + 1 /\ p.instance = page.instance /\ ~Settled(p)
    BY <2>2, <2>4, <2>5 DEF Settled
  <2>7. /\ page' = p /\ told' = told \cup {c.action}
        /\ calls' = (calls \ {c}) \cup
                      {ListCall(page.instance, page.latest + 1, c.filter, FALSE)}
    BY <1>3, <2>1, <2>3, Zenon DEF ShowRecorded
  <2>8. told' \subseteq decided /\ told' \in SUBSET Actions /\ calls \ {c} \in SUBSET calls
    BY <1>1, <1>2, <2>7
  <2> QED  BY <1>2, <1>3, <2>4, <2>6, <2>7, <2>8, FetchInv
<1>4. CASE page.instance # c.instance
  <2>1. PICK run \in Nat, abortable \in BOOLEAN : run = 0 /\ abortable = FALSE
    OBVIOUS
  <2>2. PICK i \in Nat, filter \in Filters : i = c.instance /\ filter = c.filter
    BY <1>2
  <2>3. PICK d : d = ListCall(i, run, filter, abortable)
    OBVIOUS
  <2>4. d \in Calls /\ d.kind = "list" /\ d.instance = c.instance
    <3>1. ConsoleTypeOK
      BY DEF ConsoleInv
    <3>2. d \in Calls /\ d.kind = "list" /\ d.instance = i
      BY <2>3, <3>1, ListCallIsTyped
    <3> QED  BY <2>2, <3>2
  <2>5. calls' = (calls \ {c}) \cup {d} /\ UNCHANGED <<page, told>>
    BY <1>4, <2>1, <2>2, <2>3, Zenon DEF ShowRecorded
  <2>6. CurrentCall(page, d)'
    BY <1>2, <1>4, <2>4, <2>5 DEF CurrentCall, ListsOf
  <2>7. NoStaleOffer'
    BY <2>5 DEF ConsoleInv, NoStaleOffer, Settled
  <2>8. page'.modal # NoAction => page.instance # 0
    BY <2>5 DEF ConsoleInv, PageOpen
  <2> QED  BY <1>1, <1>2, <2>4, <2>5, <2>6, <2>7, <2>8, CallsInv
<1> QED  BY <1>3, <1>4

(* A promise settles.                                                       *)
LEMMA SettleInv ==
  ASSUME ConsoleInv, NEW c \in calls, Settle(c)
  PROVE  ConsoleInv'
<1>1. UNCHANGED <<issued, expired, signingIn, opened, decided>>
  BY Zenon DEF Settle
<1>2. CASE ShowList(c) \/ ShowError(c) \/ ShowNotRecorded(c)
  BY <1>1, <1>2, ShowInv
<1>3. CASE ShowRecorded(c)
  BY <1>1, <1>3, ShowRecordedInv
<1>4. CASE EndSession(c)
  <2>1. session' = 0 /\ page' = NoPage /\ told' = {} /\ calls' \subseteq calls
    BY <1>4 DEF EndSession, NoSession, Kept
  <2>2. signingIn \in BOOLEAN /\ 0 \in Nat
    BY DEF ConsoleInv, ConsoleTypeOK
  <2> QED  BY <1>1, <2>1, <2>2, LeftInv
<1> QED  BY <1>2, <1>3, <1>4 DEF Settle

(* Every step keeps the invariant.                                          *)
LEMMA ConsoleInductive == ConsoleInv /\ [ConsoleNext]_consoleVars => ConsoleInv'
<1> SUFFICES ASSUME ConsoleInv, [ConsoleNext]_consoleVars PROVE ConsoleInv'
  OBVIOUS
<1>1. CASE SignIn \/ SignedIn \/ SignInFails \/ \E s \in 1..MaxSessions : Expire(s)
  BY <1>1, SessionInv
<1>2. CASE Logout \/ LeavePage \/ Reload
  BY <1>2, LeaveInv
<1>3. CASE OpenPage
  BY <1>3, OpenPageInv
<1>4. CASE Refresh \/ \E filter \in Filters : ChangeFilter(filter)
  BY <1>4, RefetchInv
<1>5. CASE CloseModal \/ \E action \in Actions : Review(action)
  BY <1>5, ModalInv
<1>6. CASE Confirm
  BY <1>6, ConfirmInv
<1>7. ASSUME NEW c \in calls, Serve(c) \/ Reject(c) \/ Spoil(c) PROVE ConsoleInv'
  BY <1>7, GatewayInv
<1>8. ASSUME NEW c \in calls, Settle(c) PROVE ConsoleInv'
  BY <1>8, SettleInv
<1>9. ASSUME NEW action \in Actions, DecidedElsewhere(action) PROVE ConsoleInv'
  BY <1>9, ElsewhereInv
<1>10. CASE UNCHANGED consoleVars
  BY <1>10 DEF consoleVars, ConsoleInv, ConsoleTypeOK, InFlightCurrent, CurrentCall, ListsOf, PageOpen,
               NoStaleOffer, Settled
<1> QED
  BY <1>1, <1>2, <1>3, <1>4, <1>5, <1>6, <1>7, <1>8, <1>9, <1>10, Zenon DEF ConsoleNext

(* A recommendation the page was told is decided is never offered on it     *)
(* again, however the answers of its fetches overtake one another, fail or  *)
(* outlive the page (useAsync's latest number, ApprovalPage's refetch).     *)
THEOREM DecidedIsNeverOffered == ConsoleSpec => []NoStaleOffer
<1>1. ConsoleInv => NoStaleOffer
  BY DEF ConsoleInv
<1> QED  BY <1>1, ConsoleInitInv, ConsoleInductive, PTL DEF ConsoleSpec

(* The session, the page and the calls in flight keep their types.          *)
THEOREM ConsoleIsTyped == ConsoleSpec => []ConsoleTypeOK
<1>1. ConsoleInv => ConsoleTypeOK
  BY DEF ConsoleInv
<1> QED  BY <1>1, ConsoleInitInv, ConsoleInductive, PTL DEF ConsoleSpec

-----------------------------------------------------------------------------
(* The response policy.                                                    *)

Files == Bandits \cup {Missing, TornState}
PolicyPlaces == {"down", "up", "saving", "writing"}

-----------------------------------------------------------------------------
(* The inductive invariant.  Sound(b): b has learnt the log once, every     *)
(* feedback at most once and none that was not received, and all that were  *)
(* answered "recorded" since the last fresh start.                          *)
Sound(b) ==
  /\ b \in Bandits
  /\ \A e \in LoggedEpisodes : b[e] = 1
  /\ \A f \in Feedbacks : b[f] <= 1
  /\ \A f \in Feedbacks \ received : b[f] = 0
  /\ \A f \in recorded \ (forgotten \cup UnknownClass) : b[f] = 1

Typed ==
  /\ policyAt \in PolicyPlaces
  /\ savedFor \in {"start", "stop"} \cup Feedbacks
  /\ stateFile \in Files
  /\ received \subseteq Feedbacks /\ recorded \subseteq received /\ forgotten \subseteq recorded

(* Whoever serves is sound, and has learnt the feedback it is about to save.*)
ServesSound ==
  /\ policyAt # "down" => Sound(bandit)
  /\ policyAt \in {"saving", "writing"} /\ savedFor \in Feedbacks =>
       bandit[savedFor] = 1 /\ savedFor \in received

(* So is a whole file.  One that is missing has not been missed yet, a torn *)
(* one belongs to a process that is saving, or that crashed.                *)
OnDisk ==
  /\ stateFile \in Bandits => Sound(stateFile)
  /\ stateFile = Missing => recorded = {} /\ policyAt \in {"down", "saving"}

PolicyInv == Typed /\ ServesSound /\ OnDisk

-----------------------------------------------------------------------------
(* What cannot be mistaken for each other                                   *)
LEMMA Distinct ==
  /\ Missing # TornState /\ Missing \notin Bandits /\ TornState \notin Bandits
  /\ "start" \notin Feedbacks /\ "stop" \notin Feedbacks
  /\ Fresh \in Bandits /\ \A e \in Episodes : Fresh[e] = 0
  /\ LoggedEpisodes \subseteq Episodes /\ Feedbacks \subseteq Episodes
  /\ LoggedEpisodes \cap Feedbacks = {}
BY PolicyAssumption DEF Fresh, Bandits, Episodes

(* A bandit that learns counts its episodes once more.                      *)
LEMMA LearntCounts ==
  ASSUME NEW b \in Bandits, NEW es
  PROVE  /\ Learnt(b, es) \in Bandits
         /\ \A e \in Episodes : Learnt(b, es)[e] = IF e \in es THEN b[e] + 1 ELSE b[e]
<1>1. \A e \in Episodes : b[e] \in Nat
  BY DEF Bandits
<1> QED  BY <1>1 DEF Learnt, Bandits

(* A bandit is sound after a start, whatever the file was.                  *)
LEMMA StartedSound ==
  ASSUME PolicyInv, PolicyStart
  PROVE  Sound(bandit)'
<1>1. PICK b : b = Loaded
  OBVIOUS
<1>2. b \in Bandits /\ (b = Fresh \/ (stateFile \in Bandits /\ b = stateFile))
  BY <1>1, Distinct DEF Loaded, PolicyInv, Typed, Files
<1>3. PICK c : c = WarmStarted(b)
  OBVIOUS
<1>4. bandit' = c /\ received' = received /\ recorded' = recorded
  BY <1>1, <1>3 DEF PolicyStart
<1>5. forgotten' = (IF stateFile = TornState THEN recorded ELSE forgotten)
  BY DEF PolicyStart
<1>6. c \in Bandits
  BY <1>2, <1>3, LearntCounts DEF WarmStarted
<1>7. CASE stateFile \in Bandits /\ b = stateFile /\ ~Unused(b)
  <2>1. c = b /\ Sound(b) /\ forgotten' = forgotten
    BY <1>3, <1>5, <1>7, Distinct DEF WarmStarted, PolicyInv, OnDisk
  <2> QED  BY <1>4, <2>1 DEF Sound
<1>8. CASE Unused(b)
  <2>1. \A e \in Episodes : c[e] = IF e \in LoggedEpisodes THEN 1 ELSE 0
    BY <1>2, <1>3, <1>8, LearntCounts DEF WarmStarted, Unused
  <2>2. \A e \in LoggedEpisodes : c[e] = 1
    BY <2>1, Distinct
  <2>3. \A f \in Feedbacks : c[f] = 0
    BY <2>1, Distinct
  <2>4. recorded \ (forgotten' \cup UnknownClass) = {}
    <3>1. CASE stateFile \in Bandits
      <4>1. b = stateFile /\ forgotten' = forgotten /\ Sound(b)
        BY <1>1, <1>5, <3>1, Distinct DEF Loaded, PolicyInv, OnDisk
      <4>2. \A f \in recorded : f \in Episodes /\ b[f] = 0
        BY <1>8, Distinct DEF Unused, PolicyInv, Typed
      <4> QED  BY <4>1, <4>2 DEF Sound
    <3>2. CASE stateFile \in {Missing, TornState}
      BY <1>5, <3>2, Distinct DEF PolicyInv, OnDisk
    <3> QED  BY <3>1, <3>2 DEF PolicyInv, Typed, Files
  <2> QED  BY <1>4, <1>6, <2>2, <2>3, <2>4 DEF Sound
<1>9. Unused(b) \/ (stateFile \in Bandits /\ b = stateFile)
  BY <1>2, Distinct DEF Unused
<1> QED  BY <1>7, <1>8, <1>9

(* Nothing is served, saved or recorded at first.                          *)
LEMMA PolicyInitInv == PolicyInit => PolicyInv
BY Distinct DEF PolicyInit, PolicyInv, Typed, ServesSound, OnDisk, Files, PolicyPlaces

(* lifespan: what was loaded, or learnt from the log, is served.            *)
LEMMA StartInv ==
  ASSUME PolicyInv, PolicyStart
  PROVE  PolicyInv'
<1>1. Sound(bandit)'
  BY StartedSound
<1>2. /\ policyAt' \in {"saving", "up"} /\ savedFor' = "start"
      /\ UNCHANGED <<stateFile, received, recorded>>
      /\ forgotten' = IF stateFile = TornState THEN recorded ELSE forgotten
  BY DEF PolicyStart
<1>3. Typed'
  BY <1>2 DEF PolicyInv, Typed, PolicyPlaces
<1>4. ServesSound'
  BY <1>1, <1>2, Distinct DEF ServesSound
<1>5. stateFile \in Bandits => Sound(stateFile)'
  BY <1>2, Distinct DEF PolicyInv, OnDisk, Sound
<1>6. stateFile = Missing => policyAt' = "saving"
  BY Distinct DEF PolicyStart, Loaded, Unused
<1>7. OnDisk'
  BY <1>2, <1>5, <1>6 DEF PolicyInv, OnDisk
<1> QED  BY <1>3, <1>4, <1>7 DEF PolicyInv

(* recommend_action reads the bandit only.                                  *)
LEMMA RecommendInv ==
  ASSUME PolicyInv, NEW objective, NEW risk, Recommend(objective, risk)
  PROVE  PolicyInv'
<1>1. UNCHANGED <<policyAt, savedFor, bandit, stateFile, received, recorded, forgotten>>
  BY DEF Recommend
<1> QED  BY <1>1 DEF PolicyInv, Typed, ServesSound, OnDisk, Sound

(* submit_feedback: what is received now was not learnt before.             *)
LEMMA FeedbackInv ==
  ASSUME PolicyInv, NEW f \in Feedbacks, Feedback(f)
  PROVE  PolicyInv'
<1>1. /\ policyAt = "up" /\ f \notin received /\ received' = received \cup {f}
      /\ UNCHANGED <<stateFile, forgotten>>
  BY DEF Feedback
<1>2. Sound(bandit)
  BY <1>1 DEF PolicyInv, ServesSound
<1>3. CASE f \in UnknownClass
  <2>1. recorded' = recorded \cup {f} /\ UNCHANGED <<policyAt, savedFor, bandit>>
    BY <1>3 DEF Feedback
  <2>2. ASSUME NEW b, Sound(b) PROVE /\ b \in Bandits
                                     /\ \A e \in LoggedEpisodes : b[e] = 1
                                     /\ \A g \in Feedbacks : b[g] <= 1
                                     /\ \A g \in Feedbacks \ received' : b[g] = 0
                                     /\ \A g \in recorded' \ (forgotten' \cup UnknownClass) : b[g] = 1
    BY <1>1, <1>3, <2>1, <2>2 DEF Sound
  <2>3. Typed'
    BY <1>1, <2>1 DEF PolicyInv, Typed
  <2>4. ServesSound'
    BY <1>1, <1>2, <2>1, <2>2 DEF ServesSound, Sound
  <2>5. OnDisk'
    BY <1>1, <2>1, <2>2 DEF PolicyInv, OnDisk, Sound
  <2> QED  BY <2>3, <2>4, <2>5 DEF PolicyInv
<1>4. CASE f \notin UnknownClass
  <2>1. /\ bandit' = Learnt(bandit, {f}) /\ policyAt' = "saving" /\ savedFor' = f
        /\ recorded' = recorded
    BY <1>4 DEF Feedback
  <2>2. /\ bandit' \in Bandits
        /\ \A e \in Episodes : bandit'[e] = IF e = f THEN bandit[e] + 1 ELSE bandit[e]
    BY <1>2, <2>1, LearntCounts DEF Sound
  <2>3. bandit'[f] = 1
    BY <1>1, <1>2, <2>2, Distinct DEF Sound
  <2>4. Sound(bandit)'
    <3>1. \A e \in LoggedEpisodes : bandit'[e] = 1
      BY <1>2, <2>2, Distinct DEF Sound
    <3>2. \A g \in Feedbacks : bandit'[g] <= 1
      BY <1>2, <2>2, <2>3, Distinct DEF Sound
    <3>3. \A g \in Feedbacks \ received' : bandit'[g] = 0
      BY <1>1, <1>2, <2>2, Distinct DEF Sound
    <3>4. \A g \in recorded' \ (forgotten' \cup UnknownClass) : bandit'[g] = 1
      <4>1. \A g \in recorded : g # f /\ g \in Episodes
        BY <1>1, Distinct DEF PolicyInv, Typed
      <4> QED  BY <1>1, <1>2, <2>1, <2>2, <4>1 DEF Sound
    <3> QED  BY <2>2, <3>1, <3>2, <3>3, <3>4 DEF Sound
  <2>5. Typed'
    BY <1>1, <2>1 DEF PolicyInv, Typed, PolicyPlaces
  <2>6. ServesSound'
    BY <1>1, <2>1, <2>3, <2>4 DEF ServesSound
  <2>7. stateFile \in Bandits => Sound(stateFile)'
    BY <1>1, <2>1 DEF PolicyInv, OnDisk, Sound
  <2>8. OnDisk'
    BY <1>1, <2>1, <2>7 DEF PolicyInv, OnDisk
  <2> QED  BY <2>5, <2>6, <2>8 DEF PolicyInv
<1> QED  BY <1>3, <1>4

(* A stop saves what is served; a crash leaves the file as it is.           *)
LEMMA StopInv ==
  ASSUME PolicyInv, PolicyStop \/ PolicyCrash
  PROVE  PolicyInv'
<1>1. /\ UNCHANGED <<stateFile, received, recorded, forgotten>>
      /\ \/ policyAt = "up" /\ policyAt' = "saving" /\ savedFor' = "stop" /\ bandit' = bandit
         \/ policyAt' = "down" /\ savedFor' = savedFor
  BY DEF PolicyStop, PolicyCrash
<1>2. Typed'
  BY <1>1 DEF PolicyInv, Typed, PolicyPlaces
<1>3. ServesSound'
  BY <1>1, Distinct DEF PolicyInv, ServesSound, Sound
<1>4. stateFile \in Bandits => Sound(stateFile)'
  BY <1>1 DEF PolicyInv, OnDisk, Sound
<1>5. OnDisk'
  BY <1>1, <1>4 DEF PolicyInv, OnDisk
<1> QED  BY <1>2, <1>3, <1>5 DEF PolicyInv

(* write_text empties the file before it writes it.                         *)
LEMMA OpenStateInv ==
  ASSUME PolicyInv, OpenState
  PROVE  PolicyInv'
<1>1. /\ policyAt = "saving" /\ policyAt' = "writing" /\ stateFile' = TornState
      /\ UNCHANGED <<savedFor, bandit, received, recorded, forgotten>>
  BY DEF OpenState
<1>2. Typed'
  BY <1>1 DEF PolicyInv, Typed, PolicyPlaces, Files
<1>3. ServesSound'
  BY <1>1 DEF PolicyInv, ServesSound, Sound
<1>4. OnDisk'
  BY <1>1, Distinct DEF OnDisk
<1> QED  BY <1>2, <1>3, <1>4 DEF PolicyInv

(* The file is whole again, and a feedback that was saved is answered.      *)
LEMMA WriteStateInv ==
  ASSUME PolicyInv, WriteState
  PROVE  PolicyInv'
<1>1. policyAt = "writing" /\ stateFile' = bandit /\ UNCHANGED <<savedFor, received, forgotten>>
  BY DEF WriteState
<1>2. Sound(bandit) /\ bandit \in Bandits
  BY <1>1 DEF PolicyInv, ServesSound, Sound
<1>3. \/ policyAt' = "up" /\ UNCHANGED <<bandit, recorded>>
      \/ policyAt' = "down" /\ UNCHANGED recorded
      \/ /\ savedFor \in Feedbacks /\ policyAt' = "up" /\ bandit' = bandit
         /\ recorded' = recorded \cup {savedFor}
  <2>1. CASE savedFor = "start"
    BY <2>1 DEF WriteState
  <2>2. CASE savedFor = "stop"
    BY <2>2 DEF WriteState
  <2>3. CASE savedFor \in Feedbacks
    BY <2>3, Distinct DEF WriteState
  <2> QED  BY <2>1, <2>2, <2>3 DEF PolicyInv, Typed
<1>4. savedFor \in Feedbacks => bandit[savedFor] = 1 /\ savedFor \in received
  BY <1>1 DEF PolicyInv, ServesSound
<1>5. recorded' \in {recorded, recorded \cup {savedFor}} /\ (recorded' # recorded => savedFor \in Feedbacks)
  BY <1>3
<1>6. /\ \A f \in Feedbacks \ received' : bandit[f] = 0
      /\ \A f \in recorded' \ (forgotten' \cup UnknownClass) : bandit[f] = 1
  BY <1>1, <1>2, <1>4, <1>5 DEF Sound
<1>7. Typed'
  BY <1>1, <1>2, <1>3, <1>4, <1>5 DEF PolicyInv, Typed, PolicyPlaces, Files
<1>8. ServesSound'
  BY <1>1, <1>2, <1>3, <1>6 DEF ServesSound, Sound
<1>9. OnDisk'
  BY <1>1, <1>2, <1>6, Distinct DEF OnDisk, Sound
<1> QED  BY <1>7, <1>8, <1>9 DEF PolicyInv

(* Every step keeps the invariant, one lemma per operation.                 *)
LEMMA PolicyInductive == PolicyInv /\ [PolicyNext]_policyVars => PolicyInv'
<1> SUFFICES ASSUME PolicyInv, [PolicyNext]_policyVars PROVE PolicyInv'
  OBVIOUS
<1>1. CASE UNCHANGED policyVars
  BY <1>1 DEF policyVars, PolicyInv, Typed, ServesSound, OnDisk, Sound
<1>2. ASSUME NEW phrase, NEW risk, RecommendReported(phrase, risk) PROVE PolicyInv'
  BY <1>2, RecommendInv DEF RecommendReported
<1>3. ASSUME NEW tactics, NEW risk, RecommendInferred(tactics, risk) PROVE PolicyInv'
  BY <1>3, RecommendInv DEF RecommendInferred
<1> QED
  BY <1>1, <1>2, <1>3, StartInv, StopInv, OpenStateInv, WriteStateInv, FeedbackInv DEF PolicyNext

-----------------------------------------------------------------------------
(* get_bandit, save and submit_feedback: whatever is torn by a crash, a     *)
(* bandit that serves has learnt the log once, no feedback twice, and all   *)
(* that was recorded since it last began afresh.                            *)
THEOREM ExperienceNeverDoubled == PolicySpec => []ExperienceCountedOnce
<1>1. PolicyInv => ExperienceCountedOnce
  BY DEF PolicyInv, ServesSound, Sound, ExperienceCountedOnce
<1> QED  BY <1>1, PolicyInitInv, PolicyInductive, PTL DEF PolicySpec
-----------------------------------------------------------------------------
(* The catalog is closed: whatever a report says, and whatever tactics its  *)
(* techniques have, the objective is one of a playbook.                     *)
LEMMA LeastOfSome ==
  ASSUME NEW n \in Nat, NEW S \in SUBSET (1..n), S # {}
  PROVE  Min(S) \in 1..n
<1>1. S \in SUBSET Nat
  OBVIOUS
<1>2. \E m \in S : \A k \in S : m <= k
  BY <1>1, LeastNumber
<1>3. Min(S) \in S
  BY <1>2 DEF Min
<1> QED  BY <1>3

LEMMA CatalogNames ==
  /\ Objectives = {"ransomware", "credential_access", "lateral_movement", "phishing", "c2_beacon", "recon",
                   "benign"}
  /\ DOMAIN Allowed = Objectives
BY DEF Objectives, Primary, Allowed

LEMMA ResolvedInCatalog ==
  ASSUME NEW phrase, NEW risky
  PROVE  resolve_objective(phrase, risky) \in Objectives
<1> DEFINE named == {i \in DOMAIN Aliases : Aliases[i][1] \in Needles(phrase)}
<1>1. DOMAIN Aliases = 1..11
  BY DEF Aliases
<1>2. \A i \in 1..11 : Aliases[i][2] \in Objectives
  <2> DEFINE InCatalog(i) == Aliases[i][2] \in Objectives
  <2>1. InCatalog(1) /\ InCatalog(2) /\ InCatalog(3) /\ InCatalog(4)
    BY CatalogNames DEF Aliases
  <2>2. InCatalog(5) /\ InCatalog(6) /\ InCatalog(7) /\ InCatalog(8)
    BY CatalogNames DEF Aliases
  <2>3. InCatalog(9) /\ InCatalog(10) /\ InCatalog(11)
    BY CatalogNames DEF Aliases
  <2> HIDE DEF InCatalog
  <2>4. \A i \in 1..11 : InCatalog(i)
    BY <2>1, <2>2, <2>3
  <2> QED  BY <2>4 DEF InCatalog
<1>3. "recon" \in Objectives /\ "benign" \in Objectives
  BY CatalogNames
<1>4. named # {} => Aliases[Min(named)][2] \in Objectives
  <2>1. named \in SUBSET (1..11)
    BY <1>1
  <2> HIDE DEF named
  <2>2. named # {} => Min(named) \in 1..11
    BY <2>1, LeastOfSome, 11 \in Nat
  <2> QED  BY <1>2, <2>2
<1> QED  BY <1>3, <1>4 DEF resolve_objective

LEMMA InferredInCatalog ==
  ASSUME NEW tactics \in TacticSets, NEW risky
  PROVE  infer_objective(tactics, risky) \in Objectives
<1> DEFINE found == {i \in DOMAIN ObjectivePriority :
                       \E t \in tactics : ObjectiveOfTactic[t] = ObjectivePriority[i]}
<1>1. DOMAIN ObjectivePriority = 1..7
  BY DEF ObjectivePriority
<1>2. \A i \in 1..7 : ObjectivePriority[i] \in Objectives
  BY CatalogNames DEF ObjectivePriority
<1>3. "recon" \in Objectives /\ "benign" \in Objectives
  BY CatalogNames
<1>4. ASSUME tactics # {}
      PROVE  ObjectivePriority[Min(found)] \in Objectives
  <2>1. PICK t \in tactics : t \in DOMAIN ObjectiveOfTactic
    BY <1>4 DEF TacticSets
  <2>2. PICK i \in 1..7 : ObjectivePriority[i] = ObjectiveOfTactic[t]
    BY <2>1 DEF ObjectiveOfTactic, ObjectivePriority
  <2>3. found \in SUBSET (1..7) /\ i \in found
    BY <1>1, <2>2
  <2> HIDE DEF found
  <2>4. Min(found) \in 1..7
    BY <2>3, LeastOfSome, 7 \in Nat
  <2> QED  BY <1>2, <2>4
<1> QED  BY <1>3, <1>4 DEF infer_objective

(* A class is one the objective allows, or none at a low risk.              *)
LEMMA RecommendedInCatalog ==
  ASSUME NEW objective \in Objectives, NEW risk, NEW class \in ActionClasses(objective, risk)
  PROVE  Recommendation(objective, class) \in Recommendations
<1>1. \A o \in Objectives : Primary[o] \in Allowed[o]
  BY CatalogNames DEF Primary, Allowed
<1>2. "ignore" \in Allowed["benign"] /\ "benign" \in Objectives
  BY CatalogNames DEF Allowed
<1>3. class \in Allowed[objective] \/ class = "ignore"
  BY <1>1 DEF ActionClasses
<1> QED  BY <1>2, <1>3 DEF Recommendation, Recommendations

(* The registry is in the catalog, and who is down has no bandit.           *)
Catalogued ==
  /\ registered \in Recommendations \cup {NoRecommendation}
  /\ policyAt = "down" => bandit = NoBandit

LEMMA MarkedInCatalog ==
  ASSUME Catalogued, NEW status \in {"approved", "rejected"}
  PROVE  Marked(status) \in Recommendations \cup {NoRecommendation}
BY DEF Catalogued, Marked, Recommendations

LEMMA CatalogKept == PolicyInv /\ Catalogued /\ [PolicyNext]_policyVars => Catalogued'
<1> SUFFICES ASSUME PolicyInv, Catalogued, [PolicyNext]_policyVars PROVE Catalogued'
  OBVIOUS
<1>1. ASSUME NEW objective \in Objectives, NEW risk, Recommend(objective, risk) PROVE Catalogued'
  BY <1>1, RecommendedInCatalog DEF Recommend, Catalogued
<1>2. ASSUME NEW phrase, NEW risk, RecommendReported(phrase, risk) PROVE Catalogued'
  BY <1>1, <1>2, ResolvedInCatalog DEF RecommendReported
<1>3. ASSUME NEW tactics \in TacticSets, NEW risk, RecommendInferred(tactics, risk) PROVE Catalogued'
  BY <1>1, <1>3, InferredInCatalog DEF RecommendInferred
<1>4. CASE WriteState
  <2>1. CASE savedFor = "start"
    BY <1>4, <2>1, Distinct DEF WriteState, Catalogued
  <2>2. CASE savedFor = "stop"
    BY <1>4, <2>2, Distinct DEF WriteState, Catalogued
  <2>3. CASE savedFor \in Feedbacks
    <3>1. policyAt' = "up" /\ registered' \in {registered, Marked("approved"), Marked("rejected")}
      BY <1>4, <2>3, Distinct DEF WriteState, MarkNamed
    <3> QED  BY <3>1, MarkedInCatalog DEF Catalogued
  <2> QED  BY <2>1, <2>2, <2>3 DEF PolicyInv, Typed
<1>5. CASE PolicyStart \/ PolicyStop \/ PolicyCrash
  BY <1>5 DEF PolicyStart, PolicyStop, PolicyCrash, Catalogued
<1>6. CASE OpenState
  BY <1>6 DEF OpenState, Catalogued
<1>7. ASSUME NEW f \in Feedbacks, Feedback(f) PROVE Catalogued'
  <2>1. /\ policyAt = "up" /\ policyAt' \in {"up", "saving"}
        /\ registered' \in {registered, Marked("approved"), Marked("rejected")}
    BY <1>7 DEF Feedback, MarkNamed
  <2> QED  BY <2>1, MarkedInCatalog DEF Catalogued
<1>8. CASE UNCHANGED policyVars
  BY <1>8 DEF policyVars, Catalogued
<1> QED  BY <1>2, <1>3, <1>4, <1>5, <1>6, <1>7, <1>8 DEF PolicyNext

(* recommend_action and get_bandit: the registry holds what the catalog     *)
(* allows for an objective, and the bandit is one whenever it serves.       *)
THEOREM PolicyIsTyped == PolicySpec => []PolicyTypeOK
<1>1. PolicyInit => Catalogued
  BY DEF PolicyInit, Catalogued
<1>2. PolicyInv /\ Catalogued => PolicyTypeOK
  <2> SUFFICES ASSUME PolicyInv, Catalogued PROVE PolicyTypeOK
    OBVIOUS
  <2>1. bandit \in Bandits \cup {NoBandit}
    BY DEF PolicyInv, ServesSound, Sound, Catalogued
  <2> QED  BY <2>1 DEF PolicyInv, Typed, PolicyPlaces, Files, Catalogued, PolicyTypeOK
<1> QED  BY <1>1, <1>2, CatalogKept, PolicyInitInv, PolicyInductive, PTL DEF PolicySpec

-----------------------------------------------------------------------------
(* The platform.  A behaviour of it is, in the variables of the part it     *)
(* explores, a behaviour of that part.                                      *)
platformVars ==
  <<part, raw, retrieved, evidence, queryVars, storeVars, neo4jVars, limiterVars, consoleVars,
    readVars, policyVars, demoVars, damageVars>>

LEMMA PlatformStarts ==
  PlatformInit =>
    /\ part \in Components
    /\ StoreInit /\ Neo4jInit /\ ReadsInit /\ LimiterInit /\ ConsoleInit /\ PolicyInit /\ DemoInit
BY DEF PlatformInit

LEMMA PartSteps ==
  [PlatformNext]_platformVars =>
    /\ part' = part
    /\ part = "store" => [StoreNext]_storeVars
    /\ part = "neo4j" => [Neo4jNext]_neo4jVars
    /\ part = "reads" => [ReadsNext]_readVars
    /\ part = "limiter" => [LimiterNext]_limiterVars
    /\ part = "console" => [ConsoleNext]_consoleVars
    /\ part = "policy" => [PolicyNext]_policyVars
    /\ part = "demo" => [DemoNext]_demoVars
BY DEF PlatformNext, platformVars

(* Part by part: the part stays what it is, its own specification holds, so *)
(* its types do.                                                            *)
THEOREM PlatformIsTyped == PlatformSpec => []PlatformTypeOK
<1> DEFINE Is(p) == part = p
           TypedParts == {"store", "neo4j", "reads", "limiter", "console", "policy", "demo"}
<1>1. PlatformSpec => PlatformInit /\ [][PlatformNext]_platformVars
  BY DEF PlatformSpec, platformVars
<1>2. PlatformSpec /\ Is("store") => []PlatformTypeOK
  <2>1. Is("store") /\ StoreTypeOK => PlatformTypeOK
    BY DEF PlatformTypeOK
  <2>2. Is("store") /\ [PlatformNext]_platformVars => Is("store")' /\ [StoreNext]_storeVars
    BY PartSteps
  <2> QED  BY <1>1, <2>1, <2>2, PlatformStarts, StoreTypes, PTL DEF StoreSpec
<1>3. PlatformSpec /\ Is("neo4j") => []PlatformTypeOK
  <2>1. Is("neo4j") /\ Neo4jTypeOK => PlatformTypeOK
    BY DEF PlatformTypeOK
  <2>2. Is("neo4j") /\ [PlatformNext]_platformVars => Is("neo4j")' /\ [Neo4jNext]_neo4jVars
    BY PartSteps
  <2> QED  BY <1>1, <2>1, <2>2, PlatformStarts, Neo4jIsTyped, PTL DEF Neo4jSpec
<1>4. PlatformSpec /\ Is("reads") => []PlatformTypeOK
  <2>1. Is("reads") /\ ReadsTypeOK => PlatformTypeOK
    BY DEF PlatformTypeOK
  <2>2. Is("reads") /\ [PlatformNext]_platformVars => Is("reads")' /\ [ReadsNext]_readVars
    BY PartSteps
  <2> QED  BY <1>1, <2>1, <2>2, PlatformStarts, ReadsAreTyped, PTL DEF ReadsSpec
<1>5. PlatformSpec /\ Is("limiter") => []PlatformTypeOK
  <2>1. Is("limiter") /\ LimiterTypeOK => PlatformTypeOK
    BY DEF PlatformTypeOK
  <2>2. Is("limiter") /\ [PlatformNext]_platformVars => Is("limiter")' /\ [LimiterNext]_limiterVars
    BY PartSteps
  <2> QED  BY <1>1, <2>1, <2>2, PlatformStarts, LimiterIsTyped, PTL DEF LimiterSpec
<1>6. PlatformSpec /\ Is("console") => []PlatformTypeOK
  <2>1. Is("console") /\ ConsoleTypeOK => PlatformTypeOK
    BY DEF PlatformTypeOK
  <2>2. Is("console") /\ [PlatformNext]_platformVars => Is("console")' /\ [ConsoleNext]_consoleVars
    BY PartSteps
  <2> QED  BY <1>1, <2>1, <2>2, PlatformStarts, ConsoleIsTyped, PTL DEF ConsoleSpec
<1>7. PlatformSpec /\ Is("policy") => []PlatformTypeOK
  <2>1. Is("policy") /\ PolicyTypeOK => PlatformTypeOK
    BY DEF PlatformTypeOK
  <2>2. Is("policy") /\ [PlatformNext]_platformVars => Is("policy")' /\ [PolicyNext]_policyVars
    BY PartSteps
  <2> QED  BY <1>1, <2>1, <2>2, PlatformStarts, PolicyIsTyped, PTL DEF PolicySpec
<1>8. PlatformSpec /\ Is("demo") => []PlatformTypeOK
  <2>1. Is("demo") /\ DemoTypeOK => PlatformTypeOK
    BY DEF PlatformTypeOK
  <2>2. Is("demo") /\ [PlatformNext]_platformVars => Is("demo")' /\ [DemoNext]_demoVars
    BY PartSteps
  <2> QED  BY <1>1, <2>1, <2>2, PlatformStarts, DemoIsTyped, PTL DEF DemoSpec
<1>9. PlatformSpec /\ part \notin TypedParts => []PlatformTypeOK
  <2>1. part \notin TypedParts => PlatformTypeOK
    BY DEF PlatformTypeOK
  <2>2. part \notin TypedParts /\ [PlatformNext]_platformVars => (part \notin TypedParts)'
    BY PartSteps
  <2> QED  BY <1>1, <2>1, <2>2, PTL
<1>10. \/ part \notin TypedParts \/ Is("store") \/ Is("neo4j") \/ Is("reads")
       \/ Is("limiter") \/ Is("console") \/ Is("policy") \/ Is("demo")
  OBVIOUS
<1> QED  BY <1>2, <1>3, <1>4, <1>5, <1>6, <1>7, <1>8, <1>9, <1>10, PTL

-----------------------------------------------------------------------------
(* Triage.  A list of evidence is a finite set in which an item is known by *)
(* its place, and of any two items one precedes the other.                  *)
Placed(a) ==
  /\ a.id[1] \in {"case", "alert", "event", "node"}
  /\ a.id[2] \in Nat /\ a.id[3] \in Nat
  /\ a.text.stops \in Nat

Ranked(items) ==
  /\ IsFiniteSet(items)
  /\ \A a \in items : Placed(a)
  /\ \A a, b \in items : a # b => Precedes(a, b) \/ Precedes(b, a)

LEMMA PartOfRanked ==
  ASSUME NEW S, Ranked(S), NEW T \in SUBSET S
  PROVE  Ranked(T)
BY FS_Subset DEF Ranked

LEMMA PriorityIsNumber ==
  \A kind \in {"case", "alert", "event", "node"} : kind_priority[kind] \in Nat
BY DEF kind_priority

LEMMA PrecedesIsStrict ==
  ASSUME NEW a, NEW b, NEW c, Placed(a), Placed(b), Placed(c)
  PROVE  /\ ~Precedes(a, a)
         /\ Precedes(a, b) => ~Precedes(b, a)
         /\ Precedes(a, b) /\ Precedes(b, c) => Precedes(a, c)
<1>1. /\ kind_priority[a.id[1]] \in Nat /\ a.id[2] \in Nat /\ a.id[3] \in Nat
      /\ kind_priority[b.id[1]] \in Nat /\ b.id[2] \in Nat /\ b.id[3] \in Nat
      /\ kind_priority[c.id[1]] \in Nat /\ c.id[2] \in Nat /\ c.id[3] \in Nat
  BY PriorityIsNumber DEF Placed
<1> QED  BY <1>1 DEF Precedes

(* What comes before an item that comes before another is strictly less.    *)
LEMMA FewerPrecede ==
  ASSUME NEW S, Ranked(S), NEW a \in S, NEW b \in Preceding(S, a)
  PROVE  /\ IsFiniteSet(Preceding(S, a)) /\ IsFiniteSet(Preceding(S, b))
         /\ Cardinality(Preceding(S, b)) \in Nat /\ Cardinality(Preceding(S, a)) \in Nat
         /\ Cardinality(Preceding(S, b)) < Cardinality(Preceding(S, a))
<1>1. Preceding(S, a) \in SUBSET S /\ Preceding(S, b) \in SUBSET S /\ b \in S /\ Precedes(b, a)
  BY DEF Preceding
<1>2. \A p \in S : Placed(p)
  BY DEF Ranked
<1>3. Preceding(S, b) \in SUBSET Preceding(S, a)
  BY <1>1, <1>2, PrecedesIsStrict DEF Preceding
<1>4. b \notin Preceding(S, b)
  BY <1>1, <1>2, PrecedesIsStrict DEF Preceding
<1>5. IsFiniteSet(Preceding(S, a)) /\ IsFiniteSet(Preceding(S, b))
  BY <1>1, FS_Subset DEF Ranked
<1>6. Cardinality(Preceding(S, b)) \in Nat /\ Cardinality(Preceding(S, a)) \in Nat
  BY <1>5, FS_CardinalityType
<1>7. /\ Cardinality(Preceding(S, b)) <= Cardinality(Preceding(S, a))
      /\ Cardinality(Preceding(S, a)) = Cardinality(Preceding(S, b)) => Preceding(S, a) = Preceding(S, b)
  BY <1>3, <1>5, FS_Subset
<1> QED  BY <1>4, <1>5, <1>6, <1>7

LEMMA FirstItem ==
  ASSUME NEW S, Ranked(S), S # {}
  PROVE  \E a \in S : Preceding(S, a) = {}
<1> DEFINE sizes == {Cardinality(Preceding(S, a)) : a \in S}
<1>1. sizes \in SUBSET Nat /\ sizes # {}
  <2>1. ASSUME NEW a \in S PROVE Cardinality(Preceding(S, a)) \in Nat
    <3>1. Preceding(S, a) \in SUBSET S
      BY DEF Preceding
    <3> QED  BY <3>1, FS_Subset, FS_CardinalityType DEF Ranked
  <2> QED  BY <2>1
<1>2. PICK m \in sizes : \A n \in sizes : m <= n
  <2> HIDE DEF sizes
  <2> QED  BY <1>1, LeastNumber
<1>3. PICK a \in S : m = Cardinality(Preceding(S, a))
  BY <1>2
<1>4. ASSUME NEW b \in Preceding(S, a) PROVE FALSE
  <2>1. b \in S
    BY DEF Preceding
  <2>2. m <= Cardinality(Preceding(S, b))
    BY <1>2, <2>1
  <2> QED  BY <1>3, <2>2, FewerPrecede
<1> QED  BY <1>4

LEMMA LastItem ==
  ASSUME NEW S, Ranked(S), S # {}
  PROVE  \E a \in S : \A b \in S : ~Precedes(a, b)
<1> DEFINE After(a) == {b \in S : Precedes(a, b)}
           sizes == {Cardinality(After(a)) : a \in S}
<1>1. ASSUME NEW a \in S
      PROVE  IsFiniteSet(After(a)) /\ Cardinality(After(a)) \in Nat
  <2>1. After(a) \in SUBSET S
    OBVIOUS
  <2> HIDE DEF After
  <2> QED  BY <2>1, FS_Subset, FS_CardinalityType DEF Ranked
<1>2. PICK m \in sizes : \A n \in sizes : m <= n
  <2>1. sizes \in SUBSET Nat /\ sizes # {}
    BY <1>1
  <2> HIDE DEF sizes
  <2> QED  BY <2>1, LeastNumber
<1>3. PICK a \in S : m = Cardinality(After(a))
  BY <1>2
<1>4. ASSUME NEW b \in S, Precedes(a, b) PROVE FALSE
  <2>1. \A p \in S : Placed(p)
    BY DEF Ranked
  <2>2. After(b) \in SUBSET After(a) /\ b \in After(a) /\ b \notin After(b)
    BY <1>4, <2>1, PrecedesIsStrict
  <2>3. m <= Cardinality(After(b))
    BY <1>2, <1>4
  <2>4. IsFiniteSet(After(a)) /\ Cardinality(After(a)) \in Nat /\ Cardinality(After(b)) \in Nat
    BY <1>1, <1>4
  <2> HIDE DEF After
  <2>5. /\ Cardinality(After(b)) <= Cardinality(After(a))
        /\ Cardinality(After(a)) = Cardinality(After(b)) => After(a) = After(b)
    BY <2>2, <2>4, FS_Subset
  <2> QED  BY <1>3, <2>2, <2>3, <2>4, <2>5
<1> QED  BY <1>4

-----------------------------------------------------------------------------
(* Stops are as finite as the texts.                                        *)
LEMMA ImageIsFinite ==
  ASSUME NEW S, IsFiniteSet(S), NEW f
  PROVE  IsFiniteSet({f[x] : x \in S})
<1> DEFINE T == {f[x] : x \in S}
           g == [x \in S |-> f[x]]
<1>1. g \in Surjection(S, T)
  BY DEF Surjection
<1> HIDE DEF g, T
<1>2. IsFiniteSet(T)
  BY <1>1, FS_Surjection
<1> QED  BY <1>2 DEF T

LEMMA StopsAreFinite ==
  ASSUME NEW S, IsFiniteSet(S), \A p \in S : p.text.stops \in Nat
  PROVE  IsFiniteSet(Stops(S)) /\ Cardinality(Stops(S)) \in Nat
<1> DEFINE f == [p \in S |-> {p} \X (1..p.text.stops)]
           parts == {f[p] : p \in S}
<1>1. IsFiniteSet(parts)
  <2> HIDE DEF f
  <2> QED  BY ImageIsFinite
<1>2. ASSUME NEW p \in S PROVE IsFiniteSet(f[p])
  <2>1. IsFiniteSet({p}) /\ IsFiniteSet(1..p.text.stops)
    BY FS_Singleton, FS_Interval, p.text.stops \in Int, 1 \in Int
  <2>2. IsFiniteSet({p} \X (1..p.text.stops))
    BY <2>1, FS_Product
  <2> QED  BY <2>2
<1>3. Stops(S) = UNION parts
  BY DEF Stops
<1> HIDE DEF f
<1>4. \A T \in parts : IsFiniteSet(T)
  BY <1>2
<1> HIDE DEF parts
<1>5. IsFiniteSet(Stops(S))
  BY <1>1, <1>3, <1>4, FS_UNION
<1> QED  BY <1>5, FS_CardinalityType

LEMMA AtMostOneMore ==
  ASSUME NEW S, IsFiniteSet(S), NEW x
  PROVE  IsFiniteSet(S \cup {x}) /\ Cardinality(S \cup {x}) <= Cardinality(S) + 1
<1>1. Cardinality(S) \in Nat
  BY FS_CardinalityType
<1>2. /\ IsFiniteSet(S \cup {x})
      /\ Cardinality(S \cup {x}) = IF x \in S THEN Cardinality(S) ELSE Cardinality(S) + 1
  BY FS_AddElement
<1> QED  BY <1>1, <1>2

(* If no text has two stops and the first has none, every sentence holds a  *)
(* citation: the one that is the first to come in it or later.              *)
LEMMA EverySentenceCited ==
  ASSUME NEW S, Ranked(S), NEW c \in S, Preceding(S, c) = {}, c.text.stops = 0,
         \A p \in S : p.text.stops \in {0, 1},
         NEW k \in 1..(1 + Cardinality(Stops(S)))
  PROVE  \E p \in S : SentenceOf(S, p) = k
<1>1. /\ IsFiniteSet(S)
      /\ \A T \in SUBSET S : /\ IsFiniteSet(T) /\ Ranked(T)
                             /\ IsFiniteSet(Stops(T)) /\ Cardinality(Stops(T)) \in Nat
  <2>1. IsFiniteSet(S)
    BY DEF Ranked
  <2>2. ASSUME NEW T \in SUBSET S PROVE IsFiniteSet(T) /\ Ranked(T) /\ \A p \in T : p.text.stops \in Nat
    BY <2>1, FS_Subset, PartOfRanked
  <2> QED  BY <2>1, <2>2, StopsAreFinite
<1>2. \A p \in S : Placed(p)
  BY DEF Ranked
<1>3. \A p \in S : /\ Preceding(S, p) \cup {p} \in SUBSET S /\ Preceding(S, p) \in SUBSET S
                   /\ SentenceOf(S, p) \in Nat
  <2>1. \A p \in S : Preceding(S, p) \cup {p} \in SUBSET S /\ Preceding(S, p) \in SUBSET S
    BY DEF Preceding
  <2> QED  BY <1>1, <2>1 DEF SentenceOf
<1> DEFINE upto == {p \in S : SentenceOf(S, p) >= k}
<1>4. upto # {}
  <2>1. PICK l \in S : \A b \in S : ~Precedes(l, b)
    BY LastItem
  <2>2. Preceding(S, l) \cup {l} = S
    BY <2>1 DEF Preceding, Ranked
  <2>3. SentenceOf(S, l) = 1 + Cardinality(Stops(S))
    BY <2>2 DEF SentenceOf
  <2> QED  BY <2>3, <1>1
<1>5. upto \in SUBSET S
  OBVIOUS
<1>6. PICK p \in upto : Preceding(upto, p) = {}
  <2> HIDE DEF upto
  <2> QED  BY <1>1, <1>4, <1>5, FirstItem
<1>7. p \in S /\ SentenceOf(S, p) >= k /\ \A q \in Preceding(S, p) : SentenceOf(S, q) < k
  <2>1. p \in S /\ SentenceOf(S, p) >= k
    OBVIOUS
  <2>2. ASSUME NEW q \in Preceding(S, p) PROVE ~(SentenceOf(S, q) >= k)
    BY <1>6 DEF Preceding
  <2>3. ASSUME NEW q \in Preceding(S, p) PROVE SentenceOf(S, q) \in Nat
    BY <1>3, <2>1
  <2> QED  BY <2>1, <2>2, <2>3
<1> HIDE DEF upto
<1>8. CASE Preceding(S, p) = {}
  <2>1. p = c
    <3>1. p # c => Precedes(p, c) \/ Precedes(c, p)
      BY <1>7 DEF Ranked
    <3> QED  BY <1>7, <1>8, <3>1 DEF Preceding
  <2>2. Stops(Preceding(S, p) \cup {p}) = {}
    BY <1>8, <2>1 DEF Stops
  <2>3. Cardinality(Stops(Preceding(S, p) \cup {p})) = 0
    BY <2>2, FS_EmptySet
  <2>4. SentenceOf(S, p) = 1
    BY <2>3 DEF SentenceOf
  <2> QED  BY <1>7, <2>4
<1>9. CASE Preceding(S, p) # {}
  <2>1. PICK q \in Preceding(S, p) : \A b \in Preceding(S, p) : ~Precedes(q, b)
    BY <1>1, <1>3, <1>7, <1>9, LastItem
  <2>2. q \in S /\ Precedes(q, p)
    BY <2>1 DEF Preceding
  <2>3. Preceding(S, q) \cup {q} = Preceding(S, p)
    <3>1. ASSUME NEW b \in Preceding(S, q) PROVE b \in Preceding(S, p)
      BY <1>2, <1>7, <2>2, PrecedesIsStrict DEF Preceding
    <3>2. ASSUME NEW b \in Preceding(S, p), b # q PROVE b \in Preceding(S, q)
      <4>1. b \in S /\ ~Precedes(q, b)
        BY <2>1 DEF Preceding
      <4>2. Precedes(b, q)
        BY <2>2, <3>2, <4>1 DEF Ranked
      <4> QED  BY <4>1, <4>2 DEF Preceding
    <3> QED  BY <3>1, <3>2, <2>1
  <2> DEFINE before == Stops(Preceding(S, p))
             through == Stops(Preceding(S, p) \cup {p})
  <2>4. SentenceOf(S, q) = 1 + Cardinality(before) /\ SentenceOf(S, p) = 1 + Cardinality(through)
    BY <2>3 DEF SentenceOf
  <2>5. through \in SUBSET (before \cup {<<p, 1>>})
    <3>1. p.text.stops \in {0, 1}
      BY <1>7
    <3>2. {p} \X (1..p.text.stops) \subseteq {<<p, 1>>}
      BY <3>1
    <3>3. through = before \cup ({p} \X (1..p.text.stops))
      BY DEF Stops
    <3> QED  BY <3>2, <3>3
  <2>6. IsFiniteSet(before) /\ Cardinality(before) \in Nat /\ Cardinality(through) \in Nat
    BY <1>1, <1>3, <1>7
  <2> HIDE DEF before, through
  <2>7. /\ IsFiniteSet(before \cup {<<p, 1>>})
        /\ Cardinality(before \cup {<<p, 1>>}) <= Cardinality(before) + 1
    BY <2>6, AtMostOneMore
  <2>8. Cardinality(through) <= Cardinality(before \cup {<<p, 1>>})
    BY <2>5, <2>7, FS_Subset
  <2>9. Cardinality(before \cup {<<p, 1>>}) \in Nat
    BY <2>7, FS_CardinalityType
  <2> QED  BY <1>7, <2>1, <2>4, <2>6, <2>7, <2>8, <2>9
<1> QED  BY <1>8, <1>9

-----------------------------------------------------------------------------
(* What is collected: the case, its alerts, and events and nodes.           *)
LEMMA RetrievedTypes ==
  ASSUME retrieved \in Retrievals
  PROVE  /\ retrieved.case.stops \in Nat
         /\ \E m \in Nat : DOMAIN retrieved.alerts = 1..m
         /\ \A i \in DOMAIN retrieved.alerts : i \in Nat /\ retrieved.alerts[i].stops \in Nat
         /\ \E n \in Nat : DOMAIN retrieved.entities = 1..n
         /\ \A i \in DOMAIN retrieved.entities : i \in Nat /\ retrieved.entities[i].events \in Nat
         /\ retrieved.max_items \in Nat \ {0}
<1>1. /\ retrieved.case \in CaseTexts
      /\ retrieved.alerts \in SeqOf(AlertTexts, MaxAlerts)
      /\ retrieved.entities \in Timelines
      /\ retrieved.max_items \in ItemLimits
  BY DEF Retrievals
<1>2. PICK m \in 0..MaxAlerts : retrieved.alerts \in [1..m -> AlertTexts]
  BY <1>1 DEF SeqOf
<1>3. m \in Nat /\ \A i \in 1..m : i \in Nat /\ retrieved.alerts[i].stops \in Nat
  BY <1>2, TriageAssumption DEF TriageAssumption
<1>4. retrieved.entities \in Seq([events: Nat, edges: BOOLEAN])
  BY <1>1, TriageAssumption DEF TriageAssumption
<1>5. PICK n \in Nat : retrieved.entities \in [1..n -> [events: Nat, edges: BOOLEAN]]
  BY <1>4, LenProperties
<1>6. retrieved.max_items \in Nat \ {0}
  BY <1>1, TriageAssumption DEF TriageAssumption
<1>7. retrieved.case.stops \in Nat
  BY <1>1, TriageAssumption DEF TriageAssumption
<1> QED  BY <1>2, <1>3, <1>5, <1>6, <1>7

LEMMA CollectedItem ==
  ASSUME retrieved \in Retrievals, NEW a \in Collected
  PROVE  \/ a = CaseItem
         \/ \E i \in DOMAIN retrieved.alerts : i \in Nat /\ a = Item("alert", i, 0, retrieved.alerts[i])
         \/ \E kind \in {"event", "node"}, i \in Nat, j \in Nat : a = Item(kind, i, j, Plain)
<1>1. CASE a \in AlertItems
  BY <1>1, RetrievedTypes DEF AlertItems
<1>2. CASE a \in EventItems
  <2>1. PICK i \in DOMAIN retrieved.entities :
          \E j \in 1..retrieved.entities[i].events : a = Item("event", i, j, Plain)
    BY <1>2 DEF EventItems, MostRecent
  <2>2. PICK j \in 1..retrieved.entities[i].events : a = Item("event", i, j, Plain)
    BY <2>1
  <2>3. i \in Nat /\ j \in Nat
    BY RetrievedTypes
  <2> QED  BY <2>2, <2>3
<1>3. CASE a \in NodeItems
  <2>1. PICK i \in DOMAIN retrieved.entities : a = Item("node", i, 0, Plain)
    BY <1>3 DEF NodeItems, WithEdges
  <2>2. i \in Nat /\ 0 \in Nat
    BY RetrievedTypes
  <2> QED  BY <2>1, <2>2
<1> QED  BY <1>1, <1>2, <1>3 DEF Collected

LEMMA ItemFields ==
  ASSUME NEW kind, NEW i, NEW j, NEW text
  PROVE  /\ Item(kind, i, j, text).id = <<kind, i, j>> /\ Item(kind, i, j, text).text = text
         /\ Item(kind, i, j, text).id[1] = kind /\ Item(kind, i, j, text).id[2] = i
         /\ Item(kind, i, j, text).id[3] = j
BY DEF Item

LEMMA CollectedIsPlaced ==
  ASSUME retrieved \in Retrievals, NEW a \in Collected
  PROVE  Placed(a)
<1>1. Plain.stops = 0 /\ 0 \in Nat
  BY DEF Plain, AlertText
<1>2. CASE a = CaseItem
  BY <1>1, <1>2, ItemFields, RetrievedTypes DEF CaseItem, Placed
<1>3. CASE \E i \in DOMAIN retrieved.alerts : i \in Nat /\ a = Item("alert", i, 0, retrieved.alerts[i])
  BY <1>1, <1>3, ItemFields, RetrievedTypes DEF Placed
<1>4. CASE \E kind \in {"event", "node"}, i \in Nat, j \in Nat : a = Item(kind, i, j, Plain)
  BY <1>1, <1>4, ItemFields DEF Placed
<1> QED  BY <1>2, <1>3, <1>4, CollectedItem

(* The text of an item follows from its place.                              *)
LEMMA PlaceTellsItem ==
  ASSUME retrieved \in Retrievals, NEW a \in Collected, NEW b \in Collected,
         a.id[1] = b.id[1], a.id[2] = b.id[2], a.id[3] = b.id[3]
  PROVE  a = b
<1> DEFINE IsCase(e) == e = CaseItem
           IsAlert(e) == \E i \in DOMAIN retrieved.alerts : e = Item("alert", i, 0, retrieved.alerts[i])
           IsContext(e) == \E kind \in {"event", "node"}, i \in Nat, j \in Nat : e = Item(kind, i, j, Plain)
<1>1. (IsCase(a) \/ IsAlert(a) \/ IsContext(a)) /\ (IsCase(b) \/ IsAlert(b) \/ IsContext(b))
  BY CollectedItem
<1>2. \A e : /\ IsCase(e) => e.id[1] = "case"
             /\ IsAlert(e) => e.id[1] = "alert"
             /\ IsContext(e) => e.id[1] \in {"event", "node"}
  BY ItemFields DEF CaseItem
<1>3. CASE IsCase(a) /\ IsCase(b)
  BY <1>3
<1>4. CASE IsAlert(a) /\ IsAlert(b)
  BY <1>4, ItemFields
<1>5. CASE IsContext(a) /\ IsContext(b)
  BY <1>5, ItemFields
<1> HIDE DEF IsCase, IsAlert, IsContext
<1> QED  BY <1>1, <1>2, <1>3, <1>4, <1>5

LEMMA CollectedIsRanked ==
  ASSUME retrieved \in Retrievals
  PROVE  Ranked(Collected)
<1>1. IsFiniteSet(Collected)
  <2>1. IsFiniteSet({CaseItem})
    BY FS_Singleton
  <2>2. IsFiniteSet(DOMAIN retrieved.alerts) /\ IsFiniteSet(DOMAIN retrieved.entities)
    <3>1. \A n \in Nat : IsFiniteSet(1..n)
      BY FS_Interval
    <3> QED  BY <3>1, RetrievedTypes
  <2>3. IsFiniteSet(AlertItems)
    <3> DEFINE f == [i \in DOMAIN retrieved.alerts |-> Item("alert", i, 0, retrieved.alerts[i])]
    <3>1. AlertItems = {f[i] : i \in DOMAIN retrieved.alerts}
      BY DEF AlertItems
    <3> HIDE DEF f
    <3> QED  BY <2>2, <3>1, ImageIsFinite
  <2>4. IsFiniteSet(EventItems)
    <3> DEFINE f == [i \in DOMAIN retrieved.entities |-> {Item("event", i, j, Plain) : j \in MostRecent(i)}]
    <3>1. EventItems = UNION {f[i] : i \in DOMAIN retrieved.entities}
      BY DEF EventItems
    <3>2. ASSUME NEW i \in DOMAIN retrieved.entities PROVE IsFiniteSet(f[i])
      <4>1. IsFiniteSet(1..retrieved.entities[i].events)
        <5>1. retrieved.entities[i].events \in Int /\ 1 \in Int
          BY RetrievedTypes
        <5> QED  BY <5>1, FS_Interval
      <4>2. IsFiniteSet(MostRecent(i))
        <5>1. MostRecent(i) \in SUBSET (1..retrieved.entities[i].events)
          BY DEF MostRecent
        <5> QED  BY <4>1, <5>1, FS_Subset
      <4> DEFINE g == [j \in MostRecent(i) |-> Item("event", i, j, Plain)]
      <4>3. f[i] = {g[j] : j \in MostRecent(i)}
        OBVIOUS
      <4> HIDE DEF f, g
      <4> QED  BY <4>2, <4>3, ImageIsFinite
    <3> HIDE DEF f
    <3>3. IsFiniteSet({f[i] : i \in DOMAIN retrieved.entities})
      BY <2>2, ImageIsFinite
    <3> QED  BY <3>1, <3>2, <3>3, FS_UNION
  <2>5. IsFiniteSet(NodeItems)
    <3> DEFINE f == [i \in WithEdges |-> Item("node", i, 0, Plain)]
    <3>1. NodeItems = {f[i] : i \in WithEdges}
      BY DEF NodeItems
    <3>2. WithEdges \in SUBSET DOMAIN retrieved.entities
      BY DEF WithEdges
    <3> HIDE DEF f
    <3>3. IsFiniteSet(WithEdges)
      BY <2>2, <3>2, FS_Subset
    <3> QED  BY <3>1, <3>3, ImageIsFinite
  <2> QED  BY <2>1, <2>3, <2>4, <2>5, FS_Union DEF Collected
<1>2. \A a \in Collected : Placed(a)
  BY CollectedIsPlaced
<1>3. ASSUME NEW a \in Collected, NEW b \in Collected, a # b
      PROVE  Precedes(a, b) \/ Precedes(b, a)
  <2>1. \A k, l \in {"case", "alert", "event", "node"} : kind_priority[k] = kind_priority[l] => k = l
    BY DEF kind_priority
  <2>2. /\ a.id[1] \in {"case", "alert", "event", "node"} /\ b.id[1] \in {"case", "alert", "event", "node"}
        /\ kind_priority[a.id[1]] \in Nat /\ a.id[2] \in Nat /\ a.id[3] \in Nat
        /\ kind_priority[b.id[1]] \in Nat /\ b.id[2] \in Nat /\ b.id[3] \in Nat
    BY <1>2, PriorityIsNumber DEF Placed
  <2>3. ~(kind_priority[a.id[1]] = kind_priority[b.id[1]] /\ a.id[2] = b.id[2] /\ a.id[3] = b.id[3])
    BY <1>3, <2>1, <2>2, PlaceTellsItem
  <2> QED  BY <2>2, <2>3 DEF Precedes
<1> QED  BY <1>1, <1>2, <1>3 DEF Ranked

-----------------------------------------------------------------------------
(* What the cap keeps: the case, and an alert if there is room for two.     *)
LEMMA CaseComesFirst ==
  ASSUME retrieved \in Retrievals
  PROVE  CaseItem \in Collected /\ Preceding(Collected, CaseItem) = {}
<1>1. CaseItem \in Collected
  BY DEF Collected
<1>2. ASSUME NEW a \in Collected, Precedes(a, CaseItem) PROVE FALSE
  <2>1. a.id[1] \in {"case", "alert", "event", "node"} /\ a # CaseItem
    BY <1>1, <1>2, CollectedIsPlaced, PrecedesIsStrict DEF Placed
  <2>2. a.id[1] \in {"alert", "event", "node"}
    BY <2>1, CollectedItem, ItemFields
  <2>3. CaseItem.id[1] = "case"
    BY ItemFields DEF CaseItem
  <2>4. kind_priority[a.id[1]] \in {1, 2, 3} /\ kind_priority["case"] = 0
    BY <2>2 DEF kind_priority
  <2> QED  BY <1>2, <2>3, <2>4 DEF Precedes
<1> QED  BY <1>1, <1>2 DEF Preceding

LEMMA EvidenceKept ==
  ASSUME retrieved \in Retrievals
  PROVE  /\ build_evidence \in SUBSET Collected /\ Ranked(build_evidence)
         /\ CaseItem \in build_evidence /\ Preceding(build_evidence, CaseItem) = {}
         /\ retrieved.alerts # << >> /\ retrieved.max_items > 1 => OfKind(build_evidence, "alert") # {}
<1>1. build_evidence \in SUBSET Collected
  BY DEF build_evidence, Capped
<1>2. Ranked(build_evidence)
  BY <1>1, CollectedIsRanked, PartOfRanked
<1>3. retrieved.max_items \in Nat \ {0}
  BY RetrievedTypes
<1>4. CaseItem \in build_evidence
  <2>1. Cardinality(Preceding(Collected, CaseItem)) = 0
    BY CaseComesFirst, FS_EmptySet
  <2> QED  BY <1>3, <2>1, CaseComesFirst DEF build_evidence, Capped
<1>5. Preceding(build_evidence, CaseItem) = {}
  BY <1>1, CaseComesFirst DEF Preceding
<1>6. ASSUME retrieved.alerts # << >>, retrieved.max_items > 1
      PROVE  OfKind(build_evidence, "alert") # {}
  <2> DEFINE alert == Item("alert", 1, 0, retrieved.alerts[1])
  <2>1. 1 \in DOMAIN retrieved.alerts
    <3>1. PICK m \in 0..MaxAlerts : retrieved.alerts \in [1..m -> AlertTexts]
      BY DEF Retrievals, SeqOf
    <3>2. m # 0
      BY <1>6, <3>1
    <3> QED  BY <3>1, <3>2, TriageAssumption DEF TriageAssumption
  <2>2. alert \in Collected
    BY <2>1 DEF Collected, AlertItems
  <2>3. alert.id[1] = "alert" /\ alert.id[2] = 1 /\ alert.id[3] = 0
    BY ItemFields
  <2> HIDE DEF alert
  <2>4. ASSUME NEW a \in Preceding(Collected, alert) PROVE a = CaseItem
    <3>1. a \in Collected /\ Precedes(a, alert)
      BY DEF Preceding
    <3>2. kind_priority["alert"] = 1 /\ kind_priority["event"] = 2 /\ kind_priority["node"] = 3
      BY DEF kind_priority
    <3>3. CASE \E i \in DOMAIN retrieved.alerts : i \in Nat /\ a = Item("alert", i, 0, retrieved.alerts[i])
      <4>1. PICK i \in DOMAIN retrieved.alerts : i \in Nat /\ a = Item("alert", i, 0, retrieved.alerts[i])
        BY <3>3
      <4>2. a.id[1] = "alert" /\ a.id[2] = i /\ a.id[3] = 0
        BY <4>1, ItemFields
      <4>3. i >= 1
        BY RetrievedTypes
      <4> QED  BY <2>3, <3>1, <3>2, <4>1, <4>2, <4>3 DEF Precedes
    <3>4. CASE \E kind \in {"event", "node"}, i \in Nat, j \in Nat : a = Item(kind, i, j, Plain)
      <4>1. a.id[1] \in {"event", "node"}
        BY <3>4, ItemFields
      <4> QED  BY <2>3, <3>1, <3>2, <4>1 DEF Precedes
    <3> QED  BY <3>1, <3>3, <3>4, CollectedItem
  <2>5. Cardinality(Preceding(Collected, alert)) <= 1
    <3>1. IsFiniteSet({CaseItem}) /\ Cardinality({CaseItem}) = 1
      BY FS_Singleton
    <3>2. Preceding(Collected, alert) \in SUBSET {CaseItem}
      BY <2>4
    <3> QED  BY <3>1, <3>2, FS_Subset
  <2>6. Cardinality(Preceding(Collected, alert)) \in Nat
    <3>1. Preceding(Collected, alert) \in SUBSET Collected
      BY DEF Preceding
    <3> QED  BY <3>1, CollectedIsRanked, FS_Subset, FS_CardinalityType DEF Ranked
  <2>7. alert \in build_evidence
    BY <1>3, <1>6, <2>2, <2>5, <2>6 DEF build_evidence, Capped
  <2> QED  BY <2>3, <2>7 DEF OfKind
<1> QED  BY <1>1, <1>2, <1>4, <1>5, <1>6

-----------------------------------------------------------------------------
(* The template's report on any list of evidence.                           *)
LEMMA PartsAreItems ==
  ASSUME NEW items
  PROVE  /\ Parts(items) \in SUBSET items
         /\ OfKind(items, "case") \in SUBSET Parts(items)
BY DEF Parts, Capped, OfKind

(* Each technique is mapped, and to what was retrieved.                     *)
LEMMA MappingIsWhole ==
  ASSUME NEW items, Ranked(items)
  PROVE  /\ {m[1] : m \in Mapping(items)} = TechniquesOf(items)
         /\ \A m \in Mapping(items) : m[2] \in {item.id : item \in items}
<1>1. ASSUME NEW m \in Mapping(items)
      PROVE  m[1] \in TechniquesOf(items) /\ m[2] \in {item.id : item \in items}
  <2>1. PICK item \in items : \E t \in item.text.techniques : m = <<t, item.id>>
    BY DEF Mapping
  <2> QED  BY <2>1 DEF TechniquesOf
<1>2. ASSUME NEW t \in TechniquesOf(items)
      PROVE  \E m \in Mapping(items) : m[1] = t
  <2> DEFINE carriers == {item \in items : t \in item.text.techniques}
  <2>1. carriers # {} /\ carriers \in SUBSET items
    BY DEF TechniquesOf
  <2>2. PICK item \in carriers : Preceding(carriers, item) = {}
    <3> HIDE DEF carriers
    <3> QED  BY <2>1, FirstItem, PartOfRanked
  <2>3. t \notin TechniquesOf(Preceding(items, item))
    BY <2>2 DEF TechniquesOf, Preceding
  <2>4. <<t, item.id>> \in Mapping(items)
    BY <2>3 DEF Mapping
  <2>5. <<t, item.id>>[1] = t
    OBVIOUS
  <2> QED  BY <2>4, <2>5
<1> QED  BY <1>1, <1>2

(* As many stops more as the text of a part has.                            *)
LEMMA StopsOfOneMore ==
  ASSUME NEW S, Ranked(S), NEW p \in S
  PROVE  SentenceOf(S, p) = 1 + Cardinality(Stops(Preceding(S, p))) + p.text.stops
<1> DEFINE before == Preceding(S, p)
           own == {p} \X (1..p.text.stops)
<1>1. /\ before \in SUBSET S /\ p \notin before
      /\ p.text.stops \in Nat /\ \A q \in before : q.text.stops \in Nat
  <2>1. Placed(p) /\ \A q \in S : Placed(q)
    BY DEF Ranked
  <2> QED  BY <2>1, PrecedesIsStrict DEF Preceding, Placed
<1>2. IsFiniteSet(before)
  BY <1>1, FS_Subset DEF Ranked
<1>3. IsFiniteSet(Stops(before)) /\ Cardinality(Stops(before)) \in Nat
  <2> HIDE DEF before
  <2> QED  BY <1>1, <1>2, StopsAreFinite
<1>4. IsFiniteSet(own) /\ Cardinality(own) = p.text.stops
  <2>1. IsFiniteSet({p}) /\ Cardinality({p}) = 1
    BY FS_Singleton
  <2>2. PICK n \in Nat : n = p.text.stops
    BY <1>1
  <2>3. IsFiniteSet(1..n) /\ Cardinality(1..n) = n
    <3>1. IsFiniteSet(1..n) /\ Cardinality(1..n) = IF 1 > n THEN 0 ELSE n - 1 + 1
      BY FS_Interval, 1 \in Int, n \in Int
    <3> QED  BY <3>1
  <2>4. IsFiniteSet({p} \X (1..n)) /\ Cardinality({p} \X (1..n)) = Cardinality({p}) * Cardinality(1..n)
    BY <2>1, <2>3, FS_Product
  <2>5. Cardinality({p} \X (1..n)) = n
    BY <2>1, <2>3, <2>4
  <2> QED  BY <2>2, <2>4, <2>5
<1>5. Stops(before \cup {p}) = Stops(before) \cup own
  BY DEF Stops
<1>6. Stops(before) \cap own = {}
  BY <1>1 DEF Stops
<1> HIDE DEF before, own
<1>7. /\ Cardinality(Stops(before) \cup own)
           = Cardinality(Stops(before)) + Cardinality(own) - Cardinality(Stops(before) \cap own)
      /\ Cardinality(Stops(before) \cap own) = 0
  BY <1>3, <1>4, <1>6, FS_Union, FS_EmptySet
<1>8. SentenceOf(S, p) = 1 + Cardinality(Stops(before) \cup own)
  BY <1>5 DEF SentenceOf, before
<1>9. SentenceOf(S, p) = 1 + Cardinality(Stops(before)) + p.text.stops
  BY <1>1, <1>3, <1>4, <1>7, <1>8
<1> QED  BY <1>9 DEF before

(* The report of the template: a sentence with the citation of one of its   *)
(* parts is grounded, that part is cited, and the mapping stays.            *)
LEMMA TemplateReport ==
  ASSUME NEW items, Ranked(items), UsesMock, NEW report, report = generate_triage_report(items)
  PROVE  /\ \A u \in report.unsupported :
              \E k \in 1..(1 + Cardinality(Stops(Parts(items)))) :
                /\ u[1] = IF Sentences(Parts(items))[k] = {} THEN "uncited" ELSE "unresolvable"
                /\ \A p \in Parts(items) : SentenceOf(Parts(items), p) # k
         /\ report.mapping = Mapping(items)
         /\ \A p \in Parts(items) :
              SentenceOf(Parts(items), p) \in 1..(1 + Cardinality(Stops(Parts(items)))) => p.id \in report.cited
         /\ report.objective = _infer_likely_objective(TechniquesOf(items), OfKind(items, "alert"))
<1> DEFINE K == 1..(1 + Cardinality(Stops(Parts(items))))
           sentences == Sentences(Parts(items))
           raw0 == mock_grounded_summary(items)
           valid == {item.id : item \in items}
           grounded == {k \in K : sentences[k] \cap valid # {}}
<1>1. /\ raw0.sentences = sentences /\ raw0.mapping = Mapping(items)
      /\ raw0.objective = _infer_likely_objective(TechniquesOf(items), OfKind(items, "alert"))
      /\ DOMAIN sentences = K
  BY DEF mock_grounded_summary, Sentences
<1>2. \A p \in Parts(items) : p.id \in valid /\ \A k \in K : SentenceOf(Parts(items), p) = k => p.id \in sentences[k]
  BY PartsAreItems DEF Sentences
<1>3. \A m \in Mapping(items) : m[2] \in valid
  BY MappingIsWhole
<1>4. report = validate_and_ground(raw0, items)
  BY DEF generate_triage_report, generate
<1> HIDE DEF K, sentences, raw0, valid
<1>5. {m \in raw0.mapping : m[2] \in valid} = Mapping(items)
  BY <1>1, <1>3
<1>6. \A k \in K \ grounded : \A p \in Parts(items) : SentenceOf(Parts(items), p) # k
  BY <1>2
<1>7. /\ report.mapping = Mapping(items)
      /\ report.objective = raw0.objective
  BY <1>4, <1>5 DEF validate_and_ground, valid
<1>8. /\ report.unsupported =
           {<<IF sentences[k] = {} THEN "uncited" ELSE "unresolvable", k>> : k \in K \ grounded} \cup
           {<<"unmapped", m[1]>> : m \in raw0.mapping \ {m \in raw0.mapping : m[2] \in valid}}
      /\ report.cited = ((UNION ToSet(sentences)) \cap valid) \cup
                        {m[2] : m \in {m \in raw0.mapping : m[2] \in valid}}
  BY <1>1, <1>4 DEF validate_and_ground, valid
<1>9. ASSUME NEW u \in report.unsupported
      PROVE  \E k \in K : /\ u[1] = IF sentences[k] = {} THEN "uncited" ELSE "unresolvable"
                          /\ \A p \in Parts(items) : SentenceOf(Parts(items), p) # k
  <2>1. {<<"unmapped", m[1]>> : m \in raw0.mapping \ {m \in raw0.mapping : m[2] \in valid}} = {}
    BY <1>1, <1>3
  <2> HIDE DEF grounded
  <2>2. PICK k \in K \ grounded : u = <<IF sentences[k] = {} THEN "uncited" ELSE "unresolvable", k>>
    BY <1>8, <2>1
  <2>3. u[1] = IF sentences[k] = {} THEN "uncited" ELSE "unresolvable"
    BY <2>2
  <2> QED  BY <1>6, <2>3
<1>10. ASSUME NEW p \in Parts(items), SentenceOf(Parts(items), p) \in K
       PROVE  p.id \in report.cited
  <2>1. PICK k \in K : SentenceOf(Parts(items), p) = k
    BY <1>10
  <2>2. p.id \in sentences[k] /\ p.id \in valid
    BY <1>2, <2>1
  <2>3. sentences[k] \in ToSet(sentences)
    BY <1>1 DEF ToSet
  <2>4. (UNION ToSet(sentences)) \cap valid \subseteq report.cited
    BY <1>8
  <2> QED  BY <2>2, <2>3, <2>4
<1>11. /\ \A u \in report.unsupported :
            \E k \in K : /\ u[1] = IF sentences[k] = {} THEN "uncited" ELSE "unresolvable"
                         /\ \A p \in Parts(items) : SentenceOf(Parts(items), p) # k
       /\ report.mapping = Mapping(items)
       /\ \A p \in Parts(items) : SentenceOf(Parts(items), p) \in K => p.id \in report.cited
       /\ report.objective = _infer_likely_objective(TechniquesOf(items), OfKind(items, "alert"))
  BY <1>1, <1>7, <1>9, <1>10
<1> USE DEF K, sentences
<1> QED  BY <1>11

(* The template's report on whatever was retrieved and kept.               *)
LEMMA TemplateGroundsItself == TriageInit => MockGroundsItself
<1> SUFFICES ASSUME retrieved \in Retrievals, UsesMock
             PROVE  LET report == generate_triage_report(build_evidence)
                        texts == {retrieved.alerts[i].stops : i \in DOMAIN retrieved.alerts}
                    IN /\ \A u \in report.unsupported : u[1] \in {"uncited", "unresolvable"}
                       /\ (\A p \in Parts(build_evidence) : p.text.tokens \subseteq {p.text.stops}) =>
                            \A u \in report.unsupported : u[1] = "uncited"
                       /\ retrieved.case.stops = 0 /\ texts \subseteq {0, 1} => report.unsupported = {}
                       /\ {m[1] : m \in report.mapping} = TechniquesOf(build_evidence)
                       /\ {p.id : p \in Parts(build_evidence)} \subseteq report.cited
                       /\ retrieved.alerts # << >> /\ retrieved.max_items > 1 =>
                            report.objective[1] # "insufficient_evidence"
  BY DEF MockGroundsItself, TriageInit
<1>1. PICK items : items = build_evidence
  OBVIOUS
<1>2. PICK report : report = generate_triage_report(items)
  OBVIOUS
<1>3. items \in SUBSET Collected /\ Ranked(items) /\ CaseItem \in items /\ Preceding(items, CaseItem) = {}
  BY <1>1, EvidenceKept
<1>4. PICK S : S = Parts(items)
  OBVIOUS
<1>5. /\ S \in SUBSET items /\ Ranked(S) /\ CaseItem \in S /\ Preceding(S, CaseItem) = {}
      /\ IsFiniteSet(Stops(S)) /\ Cardinality(Stops(S)) \in Nat
      /\ \A p \in S : Preceding(S, p) \cup {p} \in SUBSET S
  <2>1. S \in SUBSET items /\ CaseItem \in S
    <3>1. CaseItem.id[1] = "case"
      BY ItemFields DEF CaseItem
    <3> QED  BY <1>3, <1>4, <3>1, PartsAreItems DEF OfKind
  <2>2. Ranked(S) /\ Preceding(S, CaseItem) = {}
    BY <1>3, <2>1, PartOfRanked DEF Preceding
  <2>3. IsFiniteSet(S) /\ \A p \in S : p.text.stops \in Nat
    BY <2>2 DEF Ranked, Placed
  <2>4. \A p \in S : Preceding(S, p) \cup {p} \in SUBSET S
    BY DEF Preceding
  <2> QED  BY <2>1, <2>2, <2>3, <2>4, StopsAreFinite
<1> DEFINE K == 1..(1 + Cardinality(Stops(S)))
<1>6. /\ \A u \in report.unsupported :
           \E k \in K : /\ u[1] = IF Sentences(S)[k] = {} THEN "uncited" ELSE "unresolvable"
                        /\ \A p \in S : SentenceOf(S, p) # k
      /\ report.mapping = Mapping(items)
      /\ \A p \in S : SentenceOf(S, p) \in K => p.id \in report.cited
      /\ report.objective = _infer_likely_objective(TechniquesOf(items), OfKind(items, "alert"))
  BY <1>2, <1>3, <1>4, TemplateReport
<1>7. \A u \in report.unsupported : u[1] \in {"uncited", "unresolvable"}
  BY <1>6
<1>8. ASSUME \A p \in S : p.text.tokens \subseteq {p.text.stops}, NEW u \in report.unsupported
      PROVE  u[1] = "uncited"
  <2>1. PICK k \in K : /\ u[1] = IF Sentences(S)[k] = {} THEN "uncited" ELSE "unresolvable"
                       /\ \A p \in S : SentenceOf(S, p) # k
    BY <1>6
  <2>2. ASSUME NEW p \in S, k \in TokenSentences(S, p) PROVE FALSE
    <3>1. PICK i \in p.text.tokens : k = 1 + Cardinality(Stops(Preceding(S, p))) + i
      BY <2>2 DEF TokenSentences
    <3>2. i = p.text.stops
      BY <1>8
    <3> QED  BY <1>5, <2>1, <3>1, <3>2, StopsOfOneMore
  <2>3. Sentences(S)[k] = {}
    BY <2>1, <2>2 DEF Sentences
  <2> QED  BY <2>1, <2>3
<1>9. ASSUME retrieved.case.stops = 0, {retrieved.alerts[i].stops : i \in DOMAIN retrieved.alerts} \subseteq {0, 1}
      PROVE  report.unsupported = {}
  <2>1. CaseItem.text.stops = 0
    BY <1>9, ItemFields DEF CaseItem
  <2>2. ASSUME NEW p \in S PROVE p.text.stops \in {0, 1}
    <3>1. p \in Collected
      BY <1>3, <1>5
    <3>2. Plain.stops = 0
      BY DEF Plain, AlertText
    <3> QED  BY <1>9, <2>1, <3>1, <3>2, CollectedItem, ItemFields
  <2>3. ASSUME NEW k \in K PROVE \E p \in S : SentenceOf(S, p) = k
    BY <1>5, <2>1, <2>2, EverySentenceCited
  <2> QED  BY <1>6, <2>3
<1>10. {m[1] : m \in report.mapping} = TechniquesOf(items)
  BY <1>3, <1>6, MappingIsWhole
<1>11. {p.id : p \in S} \subseteq report.cited
  <2>1. ASSUME NEW p \in S PROVE p.id \in report.cited
    <3>1. PICK upto \in SUBSET S : upto = Preceding(S, p) \cup {p}
      BY <1>5
    <3>2. Stops(upto) \in SUBSET Stops(S)
      BY DEF Stops
    <3>3. Cardinality(Stops(upto)) \in Nat /\ Cardinality(Stops(upto)) <= Cardinality(Stops(S))
      BY <1>5, <3>2, FS_Subset, FS_CardinalityType
    <3>4. SentenceOf(S, p) \in K
      BY <1>5, <3>1, <3>3 DEF SentenceOf
    <3> QED  BY <1>6, <3>4
  <2> QED  BY <2>1
<1>12. ASSUME retrieved.alerts # << >>, retrieved.max_items > 1
       PROVE  report.objective[1] # "insufficient_evidence"
  <2>1. PICK alerts, techniques : alerts = OfKind(items, "alert") /\ techniques = TechniquesOf(items)
    OBVIOUS
  <2>2. alerts # {}
    BY <1>1, <1>12, <2>1, EvidenceKept
  <2> DEFINE reached == {i \in DOMAIN Stages : Stages[i][1] \cap techniques # {}}
  <2>3. DOMAIN Stages = 1..8
    BY DEF Stages
  <2>4. \A i \in 1..8 : Stages[i][2] # "insufficient_evidence"
    BY DEF Stages
  <2>5. reached # {} => Min(reached) \in 1..8
    <3>1. reached \in SUBSET (1..8) /\ 8 \in Nat
      BY <2>3
    <3> HIDE DEF reached
    <3> QED  BY <3>1, LeastOfSome
  <2> DEFINE benign == \A alert \in alerts : ~alert.text.likely
             calm == IF benign THEN "likely_benign_activity" ELSE "suspicious_activity_requires_review"
  <2>6. report.objective = IF reached # {} THEN <<Stages[Min(reached)][2], benign>> ELSE <<calm, benign>>
    BY <1>6, <2>1, <2>2 DEF _infer_likely_objective
  <2>7. calm # "insufficient_evidence"
    OBVIOUS
  <2> HIDE DEF reached, calm, benign
  <2>8. report.objective[1] = IF reached # {} THEN Stages[Min(reached)][2] ELSE calm
    BY <2>6
  <2> QED  BY <2>4, <2>5, <2>7, <2>8
<1> QED  BY <1>1, <1>2, <1>4, <1>7, <1>8, <1>9, <1>10, <1>11, <1>12

(* Whatever the texts of a case and its alerts, with tokens in brackets     *)
(* anywhere in them, and wherever the cap cuts the evidence: every technique*)
(* is mapped and every text shown is cited; every sentence is grounded where*)
(* no text of an alert stops twice nor the case's at all; none is taken for *)
(* an unresolvable citation unless a token stands before the last stop of   *)
(* its text; and an alert that is kept decides.                             *)
THEOREM MockAlwaysGroundsItself == PlatformSpec => []MockGroundsItself
<1> DEFINE Open == TriageInit \/ retrieved = NothingRetrieved
<1>1. PlatformInit => Open
  BY DEF PlatformInit
<1>2. Open /\ [PlatformNext]_platformVars => Open'
  BY DEF PlatformNext, platformVars, TriageInit
<1>3. Open => MockGroundsItself
  <2>1. NothingRetrieved.draft.objective # NoDraft.objective
    BY DEF NothingRetrieved, NoDraft
  <2>2. retrieved = NothingRetrieved => ~UsesMock
    BY <2>1 DEF UsesMock
  <2> QED  BY <2>2, TemplateGroundsItself DEF MockGroundsItself
<1>4. PlatformSpec => PlatformInit /\ [][PlatformNext]_platformVars
  BY DEF PlatformSpec, platformVars
<1> HIDE DEF Open
<1> QED  BY <1>1, <1>2, <1>3, <1>4, PTL
=============================================================================
