---------------------------- MODULE CloudSession ----------------------------
(***************************************************************************)
(* Who is signed in, as the browser tabs of one Cloud Manager user see it: *)
(* the navigation guard (permission.js), the interceptors of every request *)
(* (utils/request.js), the store of a tab (store/modules/user.js), the     *)
(* pages under /home and the frame of the pages behind them.               *)
(*                                                                         *)
(* Three things can disagree: the name kept in localStorage, which the     *)
(* tabs share; the status each tab caches; and the session of the server,  *)
(* which ends without telling anyone.  The guard may wait for an answer    *)
(* before it lets a navigation through, and the user can navigate again    *)
(* meanwhile.                                                              *)
(***************************************************************************)
EXTENDS Naturals

CONSTANTS
    Tabs,      \* the tabs the user has open
    MaxSteps   \* bound: how many things the user does in all

ASSUME StepsAssumption == MaxSteps \in Nat

VARIABLES
    stored,      \* localStorage 'name'
    tabs,        \* per tab: the page, the navigation under way, the store
    calls,       \* the requests that are not yet handled by their tab
    session,     \* the server holds a session for the cookie
    registered,  \* the federated organization exists
    steps        \* what the user has done so far

vars == <<stored, tabs, calls, session, registered, steps>>

-----------------------------------------------------------------------------
(* Pages.  "other" stands for any page of the frame beside the first one.  *)

whiteList == {"login", "welcome", "register"}
Protected == {"site", "other"}
Paths == whiteList \cup Protected

\* The links of each page: the Begin button and the header of /home, the
\* sidebar, the title and the breadcrumb of the frame.
BeginLinks == [p \in {"welcome"} |-> {"login"}]
HeaderLinks == {"login"}
MenuLinks == Protected
TitleLinks == {"welcome"}
CrumbLinks == Protected
Links(page) ==
    CASE page = "welcome" -> BeginLinks[page] \cup HeaderLinks
      [] page \in {"login", "register"} -> HeaderLinks
      [] page \in Protected -> MenuLinks \cup TitleLinks \cup CrumbLinks
      [] OTHER -> {}

\* localStorage answers null for a name never written; written back by the
\* created hooks it becomes a string, which is true.
Stored == {"absent", "", "null", "user"}
Truthy == {"null", "user"}
WrittenBack(name) == IF name = "absent" THEN "null" ELSE name

Statuses == {"", "registered", "unregistered"}
Tab == [at : Paths \cup {"start"},   \* the page on show
        want : Paths \cup {""},      \* the navigation the guard has not let go
        status : Statuses,           \* store siteStatus
        shown : Stored,              \* store loginName
        busy : BOOLEAN]              \* the overlay that takes every click

Fresh == [at |-> "start", want |-> "", status |-> "", shown |-> "", busy |-> FALSE]

Ops == {"guard", "find", "login", "register", "logout", "work"}
Answers == {"waiting", "ok", "none", "refused", "gone", "lost"}
Call == [tab : Tabs, op : Ops, to : Paths \cup {""}, answer : Answers, heard : BOOLEAN]

\* What a handler of tab t reads and writes: the stored name, its tab and
\* the requests it sends.
World(t, name, tab) == [name |-> name, tab |-> tab, sent |-> {}, by |-> t]

\* A request raises the overlay.
Request(w, op, to) ==
    [w EXCEPT !.tab.busy = TRUE,
              !.sent = @ \cup {[tab |-> w.by, op |-> op, to |-> to,
                                answer |-> "waiting", heard |-> TRUE]}]

\* store user.js: the name of the tab; with localStorage, in whose write
\* every caller ends.
SetLoginName(w, name) == [w EXCEPT !.tab.shown = name, !.name = name]

\* The created hooks of home.vue and topbar.vue run when the frame changes.
FrameCreated(w) ==
    [w EXCEPT !.tab.shown = w.name, !.name = WrittenBack(w.name)]

-----------------------------------------------------------------------------
(* Navigation.  A move is what becomes of a navigation: a page is entered, *)
(* or waits for the guard, or the navigation ends or is ignored.           *)

Entering(page) == [kind |-> "enter", page |-> page]
Asking(page) == [kind |-> "ask", page |-> page]
Dropped == [kind |-> "drop", page |-> ""]
Ignored == [kind |-> "ignore", page |-> ""]

\* The end of a chain of redirections; one to the page on show is dropped.
Settled(tab, page) == IF page = tab.at THEN Dropped ELSE Entering(page)

\* The guard without a name.
Unnamed(tab, to) == Settled(tab, IF to \in whiteList THEN to ELSE "welcome")

\* A redirection runs the guard again, before the name is cleared.
Redirected(tab, name, from, goal) ==
    CASE goal = tab.at -> IF tab.want = from THEN Dropped ELSE Ignored
      [] goal # tab.at /\ name \notin Truthy -> Unnamed(tab, goal)
      [] goal # tab.at /\ name \in Truthy ->
            IF tab.status = "" THEN Asking(goal) ELSE Entering(goal)

\* Mutated forms: a redirection to no page; anyone who is not told to be
\* unregistered is let in.
GoalNowhere(status, to) ==
    IF status = "registered"
    THEN IF to \in whiteList THEN "site" ELSE to
    ELSE IF to \in whiteList THEN to ELSE ""
GoalUnchecked(status, to) ==
    IF status # "unregistered"
    THEN IF to \in whiteList THEN "site" ELSE to
    ELSE IF to \in whiteList THEN to ELSE "welcome"

\* Where the cached status lets a navigation end.
Goal(status, to) ==
    IF status = "registered"
    THEN IF to \in whiteList THEN "site" ELSE to
    ELSE IF to \in whiteList THEN to ELSE "welcome"

\* Mutated form: a redirection is not pushed.
RouteHandlerStays(tab, name, to) ==
    IF Goal(tab.status, to) = to /\ tab.want = to THEN Entering(to) ELSE Ignored

\* next() of a navigation that another has replaced does nothing; a
\* redirection is pushed all the same.
RouteHandler(tab, name, to) ==
    LET goal == Goal(tab.status, to)
    IN CASE goal # to -> Redirected(tab, name, to, goal)
         [] goal = to /\ tab.want = to -> Entering(to)
         [] goal = to /\ tab.want # to -> Ignored

\* The guard before each navigation; getStatus lets it wait for an answer.
\* A push of the page on show is no navigation.
Guard(tab, name, to) ==
    CASE to = tab.at -> Ignored
      [] to # tab.at /\ name \notin Truthy -> Unnamed(tab, to)
      [] to # tab.at /\ name \in Truthy ->
            IF tab.status = "" THEN Asking(to)
            ELSE RouteHandler([tab EXCEPT !.want = to], name, to)

\* A page of the frame asks the server for what it shows as it is created.
Enter(w, page) ==
    LET newFrame == w.tab.at = "start" \/ (w.tab.at \in Protected) # (page \in Protected)
        there == [w EXCEPT !.tab.at = page, !.tab.want = ""]
        framed == IF newFrame THEN FrameCreated(there) ELSE there
    IN IF page \in Protected THEN Request(framed, "work", "") ELSE framed

Moved(w, move) ==
    CASE move.kind = "enter" -> Enter(w, move.page)
      [] move.kind = "ask" ->
            Request([w EXCEPT !.tab.want = move.page], "guard", move.page)
      [] move.kind = "drop" -> [w EXCEPT !.tab.want = ""]
      [] move.kind = "ignore" -> w

\* A status that is not "registered" clears the name, after the move.
Cleared(w, before) == IF before = "registered" THEN w ELSE SetLoginName(w, "")

Push(w, to) ==
    LET moved == Moved(w, Guard(w.tab, w.name, to))
    IN IF to # w.tab.at /\ w.name \in Truthy /\ w.tab.status # ""
       THEN Cleared(moved, w.tab.status) ELSE moved

-----------------------------------------------------------------------------
Init ==
    /\ stored \in {"absent", "", "user"}
    /\ tabs = [t \in Tabs |-> Fresh]
    /\ calls = {}
    /\ session \in BOOLEAN
    /\ registered \in BOOLEAN
    /\ steps = 0

\* Tab t takes over what its handler has done, and no longer holds done.
Commit(w, done) ==
    \E v \in {w} :
        /\ stored' = v.name
        /\ tabs' = [tabs EXCEPT ![v.by] = v.tab]
        /\ calls' = (calls \ done) \cup v.sent

UserActs == steps < MaxSteps /\ steps' = steps + 1
Here(t) == World(t, stored, tabs[t])
Clickable(t) == tabs[t].at # "start" /\ ~tabs[t].busy

\* The requests that change something at the server, and may still do so.
Acts(c) == c.answer = "waiting" /\ c.op \in {"login", "logout", "register"}

\* A tab is opened or loaded again at an address: its answers go unheard.
Load(t, to) ==
    /\ UserActs
    /\ \E w \in {Push(World(t, stored, Fresh), to)} :
        /\ stored' = w.name
        /\ tabs' = [tabs EXCEPT ![t] = w.tab]
        /\ calls' = {c \in calls : c.tab # t} \cup w.sent \cup
              {[c EXCEPT !.heard = FALSE] : c \in {m \in calls : m.tab = t /\ Acts(m)}}
    /\ UNCHANGED <<session, registered>>

\* The address bar takes another page, under the overlay or not.
Visit(t, to) ==
    /\ UserActs
    /\ tabs[t].at # "start"
    /\ Commit(Push(Here(t), to), {})
    /\ UNCHANGED <<session, registered>>

Follow(t, to) ==
    /\ UserActs
    /\ Clickable(t) /\ to \in Links(tabs[t].at)
    /\ Commit(Push(Here(t), to), {})
    /\ UNCHANGED <<session, registered>>

\* Buttons that send a request: Sign in with both fields filled in, the
\* confirmation of the registration, Sign out, and any operation of a page.
HandleLogin(t) == tabs[t].at = "login"
SureAction(t) == tabs[t].at = "register"
ToLogout(t) == tabs[t].at \in Protected \/ tabs[t].shown \in Truthy
Button(t, op) ==
    CASE op = "login" -> HandleLogin(t)
      [] op = "register" -> SureAction(t)
      [] op = "logout" -> ToLogout(t)
      [] op = "work" -> tabs[t].at \in Protected
Click(t, op) ==
    /\ UserActs
    /\ Clickable(t) /\ Button(t, op)
    /\ Commit(Request(Here(t), op, ""), {})
    /\ UNCHANGED <<session, registered>>

-----------------------------------------------------------------------------
(* The server, and the network before and behind it.                       *)

\* The answer reaches the tab or is lost on its way.
Answered(c, answer) ==
    IF c.heard
    THEN \E a \in {answer, "lost"} : calls' = (calls \ {c}) \cup {[c EXCEPT !.answer = a]}
    ELSE calls' = calls \ {c}

\* UserInterceptor: only login is answered without a session.
Refuse(c) ==
    /\ c.answer = "waiting" /\ c.op # "login" /\ ~session
    /\ Answered(c, "gone")
    /\ UNCHANGED <<stored, tabs, session, registered, steps>>

Find(c) ==
    /\ c.answer = "waiting" /\ c.op \in {"guard", "find"} /\ session
    /\ Answered(c, IF registered THEN "ok" ELSE "none")
    /\ UNCHANGED <<stored, tabs, session, registered, steps>>

Login(c) ==
    /\ c.answer = "waiting" /\ c.op = "login"
    /\ \/ session' = TRUE /\ Answered(c, "ok")
       \/ session' = session /\ Answered(c, "refused")
    /\ UNCHANGED <<stored, tabs, registered, steps>>

Logout(c) ==
    /\ c.answer = "waiting" /\ c.op = "logout" /\ session
    /\ session' = FALSE
    /\ Answered(c, "ok")
    /\ UNCHANGED <<stored, tabs, registered, steps>>

RegisterOrganization(c) ==
    /\ c.answer = "waiting" /\ c.op = "register" /\ session
    /\ registered' = TRUE
    /\ Answered(c, IF registered THEN "refused" ELSE "ok")
    /\ UNCHANGED <<stored, tabs, session, steps>>

Work(c) ==
    /\ c.answer = "waiting" /\ c.op = "work" /\ session
    /\ \E answer \in {"ok", "refused"} : Answered(c, answer)
    /\ UNCHANGED <<stored, tabs, session, registered, steps>>

Serve(c) ==
    Refuse(c) \/ Find(c) \/ Login(c) \/ Logout(c) \/ RegisterOrganization(c) \/ Work(c)

\* A request does not reach the server.
Lose(c) ==
    /\ c.answer = "waiting"
    /\ Answered(c, "lost")
    /\ UNCHANGED <<stored, tabs, session, registered, steps>>

Expire ==
    /\ session
    /\ session' = FALSE
    /\ UNCHANGED <<stored, tabs, calls, registered, steps>>

-----------------------------------------------------------------------------
(* What a tab does with an answer.                                         *)

\* Mutated form: the page stays when the session is gone.
InterceptedStays(w, answer) ==
    LET free == [w EXCEPT !.tab.busy = FALSE]
    IN IF answer = "gone" THEN SetLoginName(free, "") ELSE free

\* The response interceptor: any answer takes the overlay down; one that
\* says there is no session signs the tab out; one that never came ends in
\* an exception of the message it should show, before it would sign out.
Intercepted(w, answer) ==
    LET free == [w EXCEPT !.tab.busy = FALSE]
    IN IF answer = "gone" THEN Push(SetLoginName(free, ""), "welcome") ELSE free

\* Mutated form: a failure is not caught.
GuardAnsweredUncaught(w, c) ==
    LET status == IF c.answer = "ok" THEN "registered" ELSE "unregistered"
        known == [w EXCEPT !.tab.status = status]
    IN IF c.answer \in {"ok", "none"}
       THEN Cleared(Moved(known, RouteHandler(known.tab, w.name, c.to)), status) ELSE w

\* The guard goes on with what it knows: a failure leaves the status as it is.
GuardAnswered(w, c) ==
    LET status == CASE c.answer = "ok" -> "registered"
                    [] c.answer = "none" -> "unregistered"
                    [] OTHER -> w.tab.status
        known == [w EXCEPT !.tab.status = status]
    IN Cleared(Moved(known, RouteHandler(known.tab, w.name, c.to)), status)

LoginThen(w, c) == IF c.answer = "ok" THEN Push(SetLoginName(w, "user"), "register") ELSE w

RegisterThen(w, c) ==
    IF c.answer = "ok"
    THEN Request([w EXCEPT !.tab.status = "registered"], "find", "")
    ELSE w

FindThen(w, c) ==
    CASE c.answer = "ok" -> Push(w, "site")
      [] c.answer = "none" -> Push(w, "register")
      [] OTHER -> w

\* home.vue pushes before the name is cleared, topbar.vue after.
LogoutThen(w, c) ==
    IF c.answer # "ok" THEN w
    ELSE IF w.tab.at \in Protected THEN Push(SetLoginName(w, ""), "welcome")
    ELSE SetLoginName(Push(w, "welcome"), "")

Handled(w, c) ==
    CASE c.op = "guard" -> GuardAnswered(w, c)
      [] c.op = "login" -> LoginThen(w, c)
      [] c.op = "register" -> RegisterThen(w, c)
      [] c.op = "find" -> FindThen(w, c)
      [] c.op = "logout" -> LogoutThen(w, c)
      [] c.op = "work" -> w

Receive(c) ==
    /\ c.answer # "waiting"
    /\ \E w \in {Intercepted(Here(c.tab), c.answer)} : Commit(Handled(w, c), {c})
    /\ UNCHANGED <<session, registered, steps>>

-----------------------------------------------------------------------------
Next ==
    \/ \E t \in Tabs, to \in Paths : Load(t, to) \/ Visit(t, to) \/ Follow(t, to)
    \/ \E t \in Tabs, op \in {"login", "register", "logout", "work"} : Click(t, op)
    \/ \E c \in calls : Serve(c) \/ Lose(c) \/ Receive(c)
    \/ Expire

\* Every request is answered or times out, and every answer is handled.
Fairness ==
    /\ WF_vars(\E c \in calls : Serve(c))
    /\ WF_vars(\E c \in calls : Receive(c))

Spec == Init /\ [][Next]_vars /\ Fairness

-----------------------------------------------------------------------------
TypeOK ==
    /\ stored \in Stored
    /\ tabs \in [Tabs -> Tab]
    /\ calls \subseteq Call
    /\ session \in BOOLEAN /\ registered \in BOOLEAN
    /\ steps \in 0..MaxSteps

\* A page of the frame is on show only when the organization is registered:
\* whatever the tab has cached, and whichever of two navigations ends last.
ProtectedNeedsOrganization ==
    \A t \in Tabs : tabs[t].at \in Protected => registered

\* The overlay never outlives the requests: the user is not locked out of a
\* tab whose requests have all come back, failed ones included.
OverlayHasRequest ==
    \A t \in Tabs : tabs[t].busy => \E c \in calls : c.tab = t /\ c.heard

\* A navigation that waits has a request of the guard that will end it: the
\* user is never left before a page that does not come.
WaitingHasRequest ==
    \A t \in Tabs : tabs[t].want # "" =>
        \E c \in calls : c.tab = t /\ c.op = "guard" /\ c.heard /\ c.to = tabs[t].want

\* The two together: nobody waits for what will not come.
NobodyWaitsInVain == OverlayHasRequest /\ WaitingHasRequest

\* Every navigation comes to an end.
NavigationEnds == \A t \in Tabs : (tabs[t].want # "") ~> (tabs[t].want = "")

\* A tab that is told there is no session is put out of the frame, whatever
\* navigation it has under way.
PutOut ==
    \A t \in Tabs : (\E c \in calls : c.tab = t /\ c.answer = "gone")
        ~> (tabs[t].at \notin Protected)
=============================================================================
