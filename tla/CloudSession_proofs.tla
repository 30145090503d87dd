------------------------- MODULE CloudSession_proofs -------------------------
(***************************************************************************)
(* Theorems about the sessions of Cloud Manager's tabs, for every set of   *)
(* tabs and every number of clicks.  A handler works on a world, the state *)
(* of its tab and what it sends: each piece a handler is made of takes     *)
(* worlds that fit to worlds that fit.                                     *)
(***************************************************************************)
EXTENDS CloudSession, TLAPS

Worlds == [name : Stored, tab : Tab, sent : SUBSET Call, by : Tabs]

\* A world that fits: what its tab shows or believes is true of the server,
\* and what it sends is a question that has not been answered.
Fits(w) ==
    /\ w \in Worlds
    /\ w.tab.at \in Protected \/ w.tab.status = "registered" => registered
    /\ \A c \in w.sent : c.answer = "waiting" /\ (c.op = "guard" => c.to \in Paths)

\* The requests K and those the world sends end what its tab waits for, but
\* for a navigation to x.
Served(w, K, x) ==
    /\ w.tab.busy => \E c \in K \cup w.sent : c.tab = w.by /\ c.heard
    /\ w.tab.want \notin {"", x} =>
        \E c \in K \cup w.sent :
            c.tab = w.by /\ c.op = "guard" /\ c.heard /\ c.to = w.tab.want

Sound(w, K, x) == Fits(w) /\ Served(w, K, x)

\* The tab, what it has been answered, and what it waits for.
IInv ==
    /\ TypeOK
    /\ \A t \in Tabs : tabs[t].at \in Protected \/ tabs[t].status = "registered" => registered
    /\ \A c \in calls :
        /\ c.op = "guard" => c.to \in Paths
        /\ c.answer = "ok" /\ c.op \in {"guard", "find", "register"} => registered
    /\ NobodyWaitsInVain

-----------------------------------------------------------------------------
(* The pieces of the handlers                                              *)

LEMMA SetLoginNameSound ==
    ASSUME NEW w, NEW K, NEW x, Sound(w, K, x), NEW name \in Stored
    PROVE  /\ Sound(SetLoginName(w, name), K, x)
           /\ SetLoginName(w, name).by = w.by
           /\ SetLoginName(w, name).tab.want = w.tab.want
           /\ SetLoginName(w, name).tab.at = w.tab.at
  BY DEF Sound, Fits, Served, SetLoginName, Worlds, Tab

LEMMA FrameCreatedSound ==
    ASSUME NEW w, NEW K, NEW x, Sound(w, K, x)
    PROVE  Sound(FrameCreated(w), K, x) /\ FrameCreated(w).by = w.by
  BY DEF Sound, Fits, Served, FrameCreated, WrittenBack, Worlds, Tab, Stored

LEMMA RequestSound ==
    ASSUME NEW w, NEW K, NEW x, Fits(w), NEW op \in Ops, NEW to \in Paths \cup {""},
           op = "guard" => to \in Paths,
           w.tab.want \notin {"", x} =>
              \/ op = "guard" /\ to = w.tab.want
              \/ \E c \in K \cup w.sent :
                    c.tab = w.by /\ c.op = "guard" /\ c.heard /\ c.to = w.tab.want
    PROVE  Sound(Request(w, op, to), K, x) /\ Request(w, op, to).by = w.by
<1> DEFINE call == [tab |-> w.by, op |-> op, to |-> to, answer |-> "waiting", heard |-> TRUE]
           v == Request(w, op, to)
<1>1. call \in Call
  BY DEF Fits, Worlds, Call, Answers
<1>2. /\ v.name = w.name /\ v.by = w.by /\ v.sent = w.sent \cup {call}
      /\ v.tab = [w.tab EXCEPT !.busy = TRUE] /\ v \in Worlds
  BY <1>1 DEF Request, Fits, Worlds, Tab
<1>3. v.tab.at = w.tab.at /\ v.tab.status = w.tab.status /\ v.tab.want = w.tab.want
  BY <1>2 DEF Fits, Worlds, Tab
<1>4. Fits(v)
  <2>1. ASSUME NEW c \in v.sent
        PROVE  c.answer = "waiting" /\ (c.op = "guard" => c.to \in Paths)
    <3>1. CASE c \in w.sent
      BY <3>1 DEF Fits
    <3>2. CASE c = call
      BY <3>2
    <3>3. QED
      BY <1>2, <2>1, <3>1, <3>2
  <2>2. v.tab.at \in Protected \/ v.tab.status = "registered" => registered
    BY <1>3 DEF Fits
  <2>3. QED
    BY <1>2, <2>1, <2>2 DEF Fits
<1>5. call \in K \cup v.sent /\ call.tab = v.by /\ call.heard
  BY <1>2
<1>6. v.tab.want \notin {"", x} =>
        \E c \in K \cup v.sent : c.tab = v.by /\ c.op = "guard" /\ c.heard /\ c.to = v.tab.want
  BY <1>2, <1>3, <1>5
<1>7. QED
  BY <1>2, <1>4, <1>5, <1>6 DEF Sound, Served

LEMMA EnterSound ==
    ASSUME NEW w, NEW K, NEW x, NEW y, Sound(w, K, x), NEW page \in Paths,
           page \in Protected => registered
    PROVE  Sound(Enter(w, page), K, y) /\ Enter(w, page).by = w.by
<1> DEFINE there == [w EXCEPT !.tab.at = page, !.tab.want = ""]
           framed == IF w.tab.at = "start" \/ (w.tab.at \in Protected) # (page \in Protected)
                     THEN FrameCreated(there) ELSE there
<1>1. Sound(there, K, y) /\ there.by = w.by
  BY DEF Sound, Fits, Served, Worlds, Tab
<1>2. Sound(framed, K, y) /\ framed.by = w.by
  BY <1>1, FrameCreatedSound
<1>3. Enter(w, page) = IF page \in Protected THEN Request(framed, "work", "") ELSE framed
  BY DEF Enter
<1>4. "work" \in Ops /\ "" \in Paths \cup {""}
  BY DEF Ops
<1>5. Fits(framed) /\ (framed.tab.want \notin {"", y} =>
        \E c \in K \cup framed.sent :
            c.tab = framed.by /\ c.op = "guard" /\ c.heard /\ c.to = framed.tab.want)
  BY <1>2 DEF Sound, Served
<1>6. Sound(Request(framed, "work", ""), K, y) /\ Request(framed, "work", "").by = framed.by
  <2> HIDE DEF framed
  <2>1. QED
    BY <1>4, <1>5, RequestSound
<1>7. QED
  BY <1>2, <1>3, <1>6

-----------------------------------------------------------------------------
(* Navigation                                                              *)

\* A move that may be made in a tab: a page of the frame is entered only
\* when the tab takes the organization for registered.
MoveFits(tab, move) ==
    /\ move.kind \in {"enter", "ask", "drop", "ignore"}
    /\ move.kind \in {"enter", "ask"} => move.page \in Paths
    /\ move.kind = "enter" /\ move.page \in Protected => tab.status = "registered"

LEMMA PathsFacts ==
    /\ whiteList \subseteq Paths /\ Protected \subseteq Paths
    /\ whiteList \cap Protected = {}
    /\ "" \notin Paths /\ "start" \notin Paths
    /\ {"login", "welcome", "register"} \subseteq whiteList /\ "site" \in Protected
  BY DEF Paths, whiteList, Protected

LEMMA GoalFits ==
    ASSUME NEW status, NEW to \in Paths
    PROVE  /\ Goal(status, to) \in Paths
           /\ Goal(status, to) \in Protected => status = "registered"
  BY PathsFacts DEF Goal, Paths

LEMMA UnnamedFits ==
    ASSUME NEW tab, NEW to \in Paths
    PROVE  MoveFits(tab, Unnamed(tab, to)) /\ Unnamed(tab, to).kind # "ignore"
<1> DEFINE page == IF to \in whiteList THEN to ELSE "welcome"
<1>1. page \in Paths /\ page \notin Protected
  BY PathsFacts
<1>2. Unnamed(tab, to) = IF page = tab.at THEN Dropped ELSE Entering(page)
  BY DEF Unnamed, Settled
<1>3. MoveFits(tab, Dropped) /\ Dropped.kind # "ignore"
  BY DEF MoveFits, Dropped
<1>4. MoveFits(tab, Entering(page)) /\ Entering(page).kind # "ignore"
  <2> HIDE DEF page
  <2>1. QED
    BY <1>1 DEF MoveFits, Entering
<1>5. QED
  BY <1>2, <1>3, <1>4

LEMMA RedirectedFits ==
    ASSUME NEW tab, NEW name, NEW from, NEW goal \in Paths,
           goal \in Protected => tab.status = "registered"
    PROVE  /\ MoveFits(tab, Redirected(tab, name, from, goal))
           /\ tab.want = from => Redirected(tab, name, from, goal).kind # "ignore"
<1>1. CASE goal = tab.at
  BY <1>1 DEF Redirected, MoveFits, Dropped, Ignored
<1>2. CASE goal # tab.at /\ name \notin Truthy
  BY <1>2, UnnamedFits DEF Redirected
<1>3. CASE goal # tab.at /\ name \in Truthy
  BY <1>3 DEF Redirected, MoveFits, Asking, Entering
<1>4. QED
  BY <1>1, <1>2, <1>3

LEMMA RouteHandlerFits ==
    ASSUME NEW tab, NEW name, NEW to \in Paths
    PROVE  /\ MoveFits(tab, RouteHandler(tab, name, to))
           /\ tab.want = to => RouteHandler(tab, name, to).kind # "ignore"
<1> DEFINE goal == Goal(tab.status, to)
<1>1. goal \in Paths /\ (goal \in Protected => tab.status = "registered")
  BY GoalFits
<1>2. CASE goal # to
  <2>1. RouteHandler(tab, name, to) = Redirected(tab, name, to, goal)
    BY <1>2 DEF RouteHandler
  <2>2. QED
    BY <1>1, <2>1, RedirectedFits
<1>3. CASE goal = to /\ tab.want = to
  BY <1>1, <1>3 DEF RouteHandler, MoveFits, Entering
<1>4. CASE goal = to /\ tab.want # to
  BY <1>4 DEF RouteHandler, MoveFits, Ignored
<1>5. QED
  BY <1>2, <1>3, <1>4

LEMMA GuardFits ==
    ASSUME NEW tab \in Tab, NEW name, NEW to \in Paths
    PROVE  MoveFits(tab, Guard(tab, name, to))
<1>1. CASE to = tab.at
  BY <1>1 DEF Guard, MoveFits, Ignored
<1>2. CASE to # tab.at /\ name \notin Truthy
  BY <1>2, UnnamedFits DEF Guard
<1>3. CASE to # tab.at /\ name \in Truthy /\ tab.status = ""
  BY <1>3 DEF Guard, MoveFits, Asking
<1>4. CASE to # tab.at /\ name \in Truthy /\ tab.status # ""
  <2> DEFINE waiting == [tab EXCEPT !.want = to]
  <2>1. waiting.status = tab.status
    BY DEF Tab
  <2>2. Guard(tab, name, to) = RouteHandler(waiting, name, to)
    BY <1>4 DEF Guard
  <2>3. MoveFits(waiting, RouteHandler(waiting, name, to))
    BY RouteHandlerFits
  <2>4. QED
    BY <2>1, <2>2, <2>3 DEF MoveFits
<1>5. QED
  BY <1>1, <1>2, <1>3, <1>4

\* A move leaves the tab waiting for what was asked, or for nothing new.
LEMMA MovedSound ==
    ASSUME NEW w, NEW K, NEW x, NEW y, Sound(w, K, x), NEW move, MoveFits(w.tab, move),
           move.kind = "ignore" => x = y \/ w.tab.want # x
    PROVE  Sound(Moved(w, move), K, y) /\ Moved(w, move).by = w.by
<1>1. CASE move.kind = "enter"
  <2>1. move.page \in Paths /\ (move.page \in Protected => registered)
    BY <1>1 DEF MoveFits, Sound, Fits
  <2>2. QED
    BY <1>1, <2>1, EnterSound DEF Moved
<1>2. CASE move.kind = "ask"
  <2> DEFINE v == [w EXCEPT !.tab.want = move.page]
  <2>1. move.page \in Paths
    BY <1>2 DEF MoveFits
  <2>2. Fits(v) /\ v.by = w.by /\ v.tab.want = move.page
    BY <2>1 DEF Sound, Fits, Worlds, Tab
  <2>3. Moved(w, move) = Request(v, "guard", move.page)
    BY <1>2 DEF Moved
  <2>4. "guard" \in Ops
    BY DEF Ops
  <2>5. QED
    <3> HIDE DEF v
    <3>1. /\ Sound(Request(v, "guard", move.page), K, y)
          /\ Request(v, "guard", move.page).by = v.by
      BY <2>1, <2>2, <2>4, RequestSound
    <3>2. QED
      BY <2>2, <2>3, <3>1
<1>3. CASE move.kind = "drop"
  <2> DEFINE v == [w EXCEPT !.tab.want = ""]
  <2>1. Moved(w, move) = v
    BY <1>3 DEF Moved
  <2>2. Fits(v) /\ v.by = w.by /\ v.tab.want = "" /\ v.tab.busy = w.tab.busy /\ v.sent = w.sent
    BY DEF Sound, Fits, Worlds, Tab
  <2>3. QED
    BY <2>1, <2>2 DEF Sound, Served
<1>4. CASE move.kind = "ignore"
  <2>1. Moved(w, move) = w
    BY <1>4 DEF Moved
  <2>2. QED
    BY <1>4, <2>1 DEF Sound, Served
<1>5. QED
  BY <1>1, <1>2, <1>3, <1>4 DEF MoveFits

LEMMA ClearedSound ==
    ASSUME NEW w, NEW K, NEW x, Sound(w, K, x), NEW before
    PROVE  Sound(Cleared(w, before), K, x) /\ Cleared(w, before).by = w.by
<1>1. "" \in Stored
  BY DEF Stored
<1>2. QED
  BY <1>1, SetLoginNameSound DEF Cleared

LEMMA PushSound ==
    ASSUME NEW w, NEW K, NEW x, Sound(w, K, x), NEW to \in Paths
    PROVE  Sound(Push(w, to), K, x) /\ Push(w, to).by = w.by
<1> DEFINE moved == Moved(w, Guard(w.tab, w.name, to))
<1>1. w.tab \in Tab
  BY DEF Sound, Fits, Worlds
<1>2. MoveFits(w.tab, Guard(w.tab, w.name, to))
  BY <1>1, GuardFits
<1>3. Sound(moved, K, x) /\ moved.by = w.by
  BY <1>2, MovedSound
<1>4. Sound(Cleared(moved, w.tab.status), K, x) /\ Cleared(moved, w.tab.status).by = w.by
  <2> HIDE DEF moved
  <2>1. QED
    BY <1>3, ClearedSound
<1>5. QED
  BY <1>3, <1>4 DEF Push

-----------------------------------------------------------------------------
(* Answers                                                                 *)

\* The navigation an answer of the guard is about; no page for the others.
About(c) == IF c.op = "guard" THEN c.to ELSE ""

LEMMA HereSound ==
    ASSUME IInv, NEW t \in Tabs
    PROVE  Sound(Here(t), calls, "") /\ Here(t).by = t
<1>1. tabs[t] \in Tab /\ stored \in Stored
  BY DEF IInv, TypeOK
<1>2. /\ Here(t).by = t /\ Here(t).tab = tabs[t] /\ Here(t).sent = {}
      /\ Here(t) \in Worlds
  BY <1>1 DEF Here, World, Worlds
<1>3. Fits(Here(t))
  BY <1>2 DEF Fits, IInv
<1>4. Served(Here(t), calls, "")
  <2>1. tabs[t].busy => \E c \in calls : c.tab = t /\ c.heard
    BY DEF IInv, NobodyWaitsInVain, OverlayHasRequest
  <2>2. tabs[t].want # "" =>
          \E c \in calls : c.tab = t /\ c.op = "guard" /\ c.heard /\ c.to = tabs[t].want
    BY DEF IInv, NobodyWaitsInVain, WaitingHasRequest
  <2>3. Here(t).tab.busy => \E c \in calls \cup Here(t).sent : c.tab = Here(t).by /\ c.heard
    BY <1>2, <2>1
  <2>4. Here(t).tab.want \notin {"", ""} => \E c \in calls \cup Here(t).sent :
          c.tab = Here(t).by /\ c.op = "guard" /\ c.heard /\ c.to = Here(t).tab.want
    BY <1>2, <2>2
  <2>5. QED
    BY <2>3, <2>4 DEF Served
<1>5. QED
  BY <1>2, <1>3, <1>4 DEF Sound

LEMMA InterceptedSound ==
    ASSUME IInv, NEW c \in calls
    PROVE  /\ Sound(Intercepted(Here(c.tab), c.answer), calls \ {c}, About(c))
           /\ Intercepted(Here(c.tab), c.answer).by = c.tab
<1> DEFINE w == Here(c.tab)
           free == [w EXCEPT !.tab.busy = FALSE]
           K == calls \ {c}
<1>1. c.tab \in Tabs
  BY DEF IInv, TypeOK, Call
<1>2. Sound(w, calls, "") /\ w.by = c.tab /\ w.sent = {}
  BY <1>1, HereSound DEF Here, World
<1>3. /\ Fits(free) /\ free.by = c.tab /\ free.sent = {}
      /\ free.tab.want = w.tab.want /\ free.tab.busy = FALSE
  <2> HIDE DEF w
  <2>1. QED
    BY <1>2 DEF Sound, Fits, Worlds, Tab
<1>4. Served(free, K, About(c))
  <2> HIDE DEF w, free
  <2>1. SUFFICES ASSUME w.tab.want \notin {"", About(c)}
                 PROVE  \E d \in K : d.tab = c.tab /\ d.op = "guard" /\ d.heard /\ d.to = w.tab.want
    BY <1>3 DEF Served
  <2>2. PICK d \in calls : d.tab = c.tab /\ d.op = "guard" /\ d.heard /\ d.to = w.tab.want
    BY <1>2, <2>1 DEF Sound, Served
  <2>3. d # c
    BY <2>1, <2>2 DEF About
  <2>4. QED
    BY <2>2, <2>3
<1>5. Sound(free, K, About(c))
  BY <1>3, <1>4 DEF Sound
<1>6. /\ Sound(SetLoginName(free, ""), K, About(c))
      /\ SetLoginName(free, "").by = c.tab
  <2>1. "" \in Stored
    BY DEF Stored
  <2>2. QED
    <3> HIDE DEF free, K
    <3>1. QED
      BY <1>3, <1>5, <2>1, SetLoginNameSound
<1>7. /\ Sound(Push(SetLoginName(free, ""), "welcome"), K, About(c))
      /\ Push(SetLoginName(free, ""), "welcome").by = c.tab
  <2> HIDE DEF free, K
  <2>1. "welcome" \in Paths
    BY PathsFacts
  <2>2. QED
    BY <1>6, <2>1, PushSound
<1>8. Intercepted(w, c.answer) =
        IF c.answer = "gone" THEN Push(SetLoginName(free, ""), "welcome") ELSE free
  BY DEF Intercepted
<1>9. QED
  BY <1>3, <1>5, <1>7, <1>8

LEMMA GuardAnsweredSound ==
    ASSUME IInv, NEW c \in calls, c.op = "guard", NEW w, NEW K, Sound(w, K, c.to)
    PROVE  Sound(GuardAnswered(w, c), K, "") /\ GuardAnswered(w, c).by = w.by
<1> DEFINE status == CASE c.answer = "ok" -> "registered"
                       [] c.answer = "none" -> "unregistered"
                       [] OTHER -> w.tab.status
           known == [w EXCEPT !.tab.status = status]
           move == RouteHandler(known.tab, w.name, c.to)
<1>1. c.to \in Paths /\ (c.answer = "ok" => registered)
  BY DEF IInv
<1>2. /\ status \in Statuses
      /\ status = "registered" => registered
  BY <1>1 DEF Sound, Fits, Worlds, Tab, Statuses
<1>3. Sound(known, K, c.to) /\ known.by = w.by
  <2> HIDE DEF status
  <2>1. /\ known \in Worlds /\ known.by = w.by /\ known.sent = w.sent
        /\ known.tab.at = w.tab.at /\ known.tab.status = status
        /\ known.tab.want = w.tab.want /\ known.tab.busy = w.tab.busy
    BY <1>2 DEF Sound, Fits, Worlds, Tab
  <2>2. Fits(known)
    BY <1>2, <2>1 DEF Sound, Fits
  <2>3. QED
    BY <2>1, <2>2 DEF Sound, Served
<1>4. MoveFits(known.tab, move) /\ (known.tab.want = c.to => move.kind # "ignore")
  <2> HIDE DEF known
  <2>1. QED
    BY <1>1, RouteHandlerFits
<1>5. Sound(Moved(known, move), K, "") /\ Moved(known, move).by = w.by
  <2> HIDE DEF known, move
  <2>1. move.kind = "ignore" => c.to = "" \/ known.tab.want # c.to
    BY <1>4
  <2>2. Sound(Moved(known, move), K, "") /\ Moved(known, move).by = known.by
    BY <1>3, <1>4, <2>1, MovedSound, Zenon
  <2>3. QED
    BY <1>3, <2>2
<1>6. Sound(Cleared(Moved(known, move), status), K, "") /\ Cleared(Moved(known, move), status).by = w.by
  <2> HIDE DEF known, move, status
  <2>1. QED
    BY <1>5, ClearedSound
<1>7. QED
  BY <1>6 DEF GuardAnswered

LEMMA HandledSound ==
    ASSUME IInv, NEW c \in calls, NEW w, NEW K, Sound(w, K, About(c))
    PROVE  Sound(Handled(w, c), K, "") /\ Handled(w, c).by = w.by
<1>1. CASE c.op = "guard"
  BY <1>1, GuardAnsweredSound DEF Handled, About
<1>2. CASE c.op = "login"
  <2>1. Sound(w, K, "") /\ "user" \in Stored /\ "register" \in Paths
    BY <1>2, PathsFacts DEF About, Stored
  <2>2. Sound(SetLoginName(w, "user"), K, "") /\ SetLoginName(w, "user").by = w.by
    BY <2>1, SetLoginNameSound
  <2>3. /\ Sound(Push(SetLoginName(w, "user"), "register"), K, "")
        /\ Push(SetLoginName(w, "user"), "register").by = w.by
    BY <2>1, <2>2, PushSound
  <2>4. QED
    BY <1>2, <2>1, <2>3 DEF Handled, LoginThen
<1>3. CASE c.op = "register"
  <2> DEFINE v == [w EXCEPT !.tab.status = "registered"]
  <2>1. Sound(w, K, "")
    BY <1>3 DEF About
  <2>2. CASE c.answer = "ok"
    <3>1. registered
      BY <1>3, <2>2 DEF IInv
    <3>2. /\ Fits(v) /\ v.by = w.by /\ v.sent = w.sent /\ v.tab.want = w.tab.want
      BY <2>1, <3>1 DEF Sound, Fits, Worlds, Tab, Statuses
    <3>3. v.tab.want \notin {"", ""} => \E d \in K \cup v.sent :
            d.tab = v.by /\ d.op = "guard" /\ d.heard /\ d.to = v.tab.want
      <4> HIDE DEF v
      <4>1. QED
        BY <2>1, <3>2 DEF Sound, Served
    <3>4. "find" \in Ops /\ "find" # "guard"
      BY DEF Ops
    <3>5. Sound(Request(v, "find", ""), K, "") /\ Request(v, "find", "").by = v.by
      <4> HIDE DEF v
      <4>1. QED
        BY <3>2, <3>3, <3>4, RequestSound
    <3>6. QED
      BY <1>3, <2>2, <3>2, <3>5 DEF Handled, RegisterThen
  <2>3. CASE c.answer # "ok"
    BY <1>3, <2>1, <2>3 DEF Handled, RegisterThen
  <2>4. QED
    BY <2>2, <2>3
<1>4. CASE c.op = "find"
  <2>1. Sound(w, K, "") /\ "site" \in Paths /\ "register" \in Paths
    BY <1>4, PathsFacts DEF About
  <2>2. /\ Sound(Push(w, "site"), K, "") /\ Push(w, "site").by = w.by
        /\ Sound(Push(w, "register"), K, "") /\ Push(w, "register").by = w.by
    BY <2>1, PushSound
  <2>3. Handled(w, c) = FindThen(w, c)
    BY <1>4 DEF Handled
  <2>4. FindThen(w, c) \in {Push(w, "site"), Push(w, "register"), w}
    BY DEF FindThen
  <2>5. QED
    BY <2>1, <2>2, <2>3, <2>4
<1>5. CASE c.op = "logout"
  <2>1. Sound(w, K, "") /\ "" \in Stored /\ "welcome" \in Paths
    BY <1>5, PathsFacts DEF About, Stored
  <2>2. /\ Sound(SetLoginName(w, ""), K, "") /\ SetLoginName(w, "").by = w.by
        /\ Sound(Push(w, "welcome"), K, "") /\ Push(w, "welcome").by = w.by
    BY <2>1, SetLoginNameSound, PushSound
  <2>3. /\ Sound(Push(SetLoginName(w, ""), "welcome"), K, "")
        /\ Push(SetLoginName(w, ""), "welcome").by = w.by
    BY <2>1, <2>2, PushSound
  <2>4. /\ Sound(SetLoginName(Push(w, "welcome"), ""), K, "")
        /\ SetLoginName(Push(w, "welcome"), "").by = w.by
    BY <2>1, <2>2, SetLoginNameSound
  <2>5. QED
    BY <1>5, <2>1, <2>3, <2>4 DEF Handled, LogoutThen
<1>6. CASE c.op = "work"
  BY <1>6 DEF Handled, About
<1>7. QED
  BY <1>1, <1>2, <1>3, <1>4, <1>5, <1>6 DEF IInv, TypeOK, Call, Ops

-----------------------------------------------------------------------------
(* The steps.  CallFits is what the invariant says of one request.         *)

CallFits(c) ==
    /\ c \in Call
    /\ c.op = "guard" => c.to \in Paths
    /\ c.answer = "ok" /\ c.op \in {"guard", "find", "register"} => registered

\* A handler of one tab keeps the invariant, if it holds no request of
\* another tab and what it leaves is served by what it still holds.
LEMMA HandlerKeeps ==
    ASSUME IInv, NEW w, NEW K, NEW rest, Sound(w, K, ""), K \subseteq rest,
           \A c \in rest : CallFits(c),
           \A c \in calls : c.tab # w.by => c \in rest,
           stored' = w.name, tabs' = [tabs EXCEPT ![w.by] = w.tab],
           calls' = rest \cup w.sent, UNCHANGED <<session, registered>>,
           steps' \in 0..MaxSteps
    PROVE  IInv'
<1>1. /\ w.name \in Stored /\ w.tab \in Tab /\ w.by \in Tabs /\ w.sent \subseteq Call
  BY DEF Sound, Fits, Worlds
<1>2. \A t \in Tabs : tabs'[t] = IF t = w.by THEN w.tab ELSE tabs[t]
  BY DEF IInv, TypeOK
<1>3. \A c \in calls' : CallFits(c)
  BY <1>1 DEF Sound, Fits, CallFits
<1>4. TypeOK'
  <2>1. stored' \in Stored
    BY <1>1
  <2>2. tabs' \in [Tabs -> Tab]
    BY <1>1 DEF IInv, TypeOK
  <2>3. calls' \subseteq Call
    BY <1>3 DEF CallFits
  <2>4. session' \in BOOLEAN /\ registered' \in BOOLEAN
    BY DEF IInv, TypeOK
  <2>5. QED
    BY <2>1, <2>2, <2>3, <2>4 DEF TypeOK
<1>5. ASSUME NEW t \in Tabs
      PROVE  tabs'[t].at \in Protected \/ tabs'[t].status = "registered" => registered'
  <2>1. CASE t = w.by
    BY <1>2, <2>1 DEF Sound, Fits
  <2>2. CASE t # w.by
    BY <1>2, <2>2 DEF IInv
  <2>3. QED
    BY <2>1, <2>2
<1>6. \A c \in calls' :
        /\ c.op = "guard" => c.to \in Paths
        /\ c.answer = "ok" /\ c.op \in {"guard", "find", "register"} => registered'
  BY <1>3 DEF CallFits
<1>7. ASSUME NEW t \in Tabs, tabs'[t].busy
      PROVE  \E c \in calls' : c.tab = t /\ c.heard
  <2>1. CASE t = w.by
    <3>1. PICK c \in K \cup w.sent : c.tab = w.by /\ c.heard
      BY <1>2, <1>7, <2>1 DEF Sound, Served
    <3>2. QED
      BY <2>1, <3>1
  <2>2. CASE t # w.by
    <3>1. PICK c \in calls : c.tab = t /\ c.heard
      BY <1>2, <1>7, <2>2 DEF IInv, NobodyWaitsInVain, OverlayHasRequest
    <3>2. QED
      BY <2>2, <3>1
  <2>3. QED
    BY <2>1, <2>2
<1>8. ASSUME NEW t \in Tabs, tabs'[t].want # ""
      PROVE  \E c \in calls' : c.tab = t /\ c.op = "guard" /\ c.heard /\ c.to = tabs'[t].want
  <2>1. CASE t = w.by
    <3>1. PICK c \in K \cup w.sent :
            c.tab = w.by /\ c.op = "guard" /\ c.heard /\ c.to = w.tab.want
      BY <1>2, <1>8, <2>1 DEF Sound, Served
    <3>2. QED
      BY <1>2, <2>1, <3>1
  <2>2. CASE t # w.by
    <3>1. PICK c \in calls : c.tab = t /\ c.op = "guard" /\ c.heard /\ c.to = tabs[t].want
      BY <1>2, <1>8, <2>2 DEF IInv, NobodyWaitsInVain, WaitingHasRequest
    <3>2. QED
      BY <1>2, <2>2, <3>1
  <2>3. QED
    BY <2>1, <2>2
<1>9. NobodyWaitsInVain'
  BY <1>7, <1>8 DEF NobodyWaitsInVain, OverlayHasRequest, WaitingHasRequest
<1>10. QED
  BY <1>4, <1>5, <1>6, <1>9 DEF IInv

LEMMA CallsFit ==
    ASSUME IInv
    PROVE  \A c \in calls : CallFits(c)
  BY DEF IInv, TypeOK, CallFits

LEMMA CommitKeeps ==
    ASSUME IInv, NEW w, NEW done, Sound(w, calls \ done, ""), Commit(w, done),
           \A c \in done : c.tab = w.by, UNCHANGED <<session, registered>>,
           steps' \in 0..MaxSteps
    PROVE  IInv'
<1> DEFINE rest == calls \ done
<1>1. /\ stored' = w.name /\ tabs' = [tabs EXCEPT ![w.by] = w.tab]
      /\ calls' = rest \cup w.sent
  BY DEF Commit
<1>2. (\A c \in rest : CallFits(c)) /\ (\A c \in calls : c.tab # w.by => c \in rest)
  BY CallsFit
<1>3. Sound(w, rest, "") /\ rest \subseteq rest
  OBVIOUS
<1>4. QED
  <2> HIDE DEF rest
  <2>1. QED
    BY <1>1, <1>2, <1>3, HandlerKeeps

\* An answer, or the loss of a request or of an answer.
LEMMA AnsweredKeeps ==
    ASSUME IInv, NEW c \in calls, NEW answer \in Answers, Answered(c, answer),
           UNCHANGED <<stored, tabs, steps>>,
           session' \in BOOLEAN, registered' \in BOOLEAN, registered => registered',
           answer = "ok" /\ c.op \in {"guard", "find", "register"} => registered'
    PROVE  IInv'
<1>1. ASSUME NEW d \in calls
      PROVE  CallFits(d)'
  <2>1. CallFits(d)
    BY CallsFit
  <2>2. QED
    BY <2>1 DEF CallFits
<1>2. \A t \in Tabs : tabs'[t].at \in Protected \/ tabs'[t].status = "registered" => registered'
  BY DEF IInv
<1>3. ASSUME NEW new \in SUBSET Call, calls' = (calls \ {c}) \cup new,
             \A d \in new : CallFits(d)',
             c.heard => \E d \in new : d.tab = c.tab /\ d.op = c.op /\ d.to = c.to /\ d.heard
      PROVE  IInv'
  <2>1. \A d \in calls' : CallFits(d)'
    BY <1>1, <1>3
  <2>2. ASSUME NEW d \in calls, d.heard
        PROVE  \E e \in calls' : e.tab = d.tab /\ e.op = d.op /\ e.to = d.to /\ e.heard
    <3>1. CASE d = c
      BY <1>3, <2>2, <3>1
    <3>2. CASE d # c
      BY <1>3, <2>2, <3>2
    <3>3. QED
      BY <3>1, <3>2
  <2>3. TypeOK'
    BY <2>1 DEF IInv, TypeOK, CallFits
  <2>4. OverlayHasRequest'
    <3>1. SUFFICES ASSUME NEW t \in Tabs, tabs[t].busy
                   PROVE  \E e \in calls' : e.tab = t /\ e.heard
      BY DEF OverlayHasRequest
    <3>2. PICK d \in calls : d.tab = t /\ d.heard
      BY <3>1 DEF IInv, NobodyWaitsInVain, OverlayHasRequest
    <3>3. QED
      BY <2>2, <3>2
  <2>5. WaitingHasRequest'
    <3>1. SUFFICES ASSUME NEW t \in Tabs, tabs[t].want # ""
                   PROVE  \E e \in calls' :
                            e.tab = t /\ e.op = "guard" /\ e.heard /\ e.to = tabs[t].want
      BY DEF WaitingHasRequest
    <3>2. PICK d \in calls : d.tab = t /\ d.op = "guard" /\ d.heard /\ d.to = tabs[t].want
      BY <3>1 DEF IInv, NobodyWaitsInVain, WaitingHasRequest
    <3>3. QED
      BY <2>2, <3>2
  <2>6. \A d \in calls' :
          /\ d.op = "guard" => d.to \in Paths
          /\ d.answer = "ok" /\ d.op \in {"guard", "find", "register"} => registered'
    BY <2>1 DEF CallFits
  <2>7. QED
    BY <1>2, <2>3, <2>4, <2>5, <2>6 DEF IInv, NobodyWaitsInVain
<1>4. CASE ~c.heard
  <2> DEFINE none == {}
  <2>1. calls' = (calls \ {c}) \cup none
    BY <1>4 DEF Answered
  <2>2. none \in SUBSET Call /\ \A e \in none : CallFits(e)'
    OBVIOUS
  <2>3. QED
    <3> HIDE DEF none
    <3>1. QED
      BY <1>3, <1>4, <2>1, <2>2
<1>5. CASE c.heard
  <2>1. PICK a \in {answer, "lost"} : calls' = (calls \ {c}) \cup {[c EXCEPT !.answer = a]}
    BY <1>5 DEF Answered
  <2> DEFINE d == [c EXCEPT !.answer = a]
  <2>2. a \in Answers /\ (a = "ok" => answer = "ok")
    BY DEF Answers
  <2>3. c \in Call /\ (c.op = "guard" => c.to \in Paths)
    BY CallsFit DEF CallFits
  <2>4. /\ d \in Call /\ d.tab = c.tab /\ d.op = c.op /\ d.to = c.to
        /\ d.heard = c.heard /\ d.answer = a
    BY <2>2, <2>3 DEF Call
  <2>5. CallFits(d)'
    <3> HIDE DEF d
    <3>1. QED
      BY <2>2, <2>3, <2>4 DEF CallFits
  <2>6. QED
    <3> HIDE DEF d
    <3>1. {d} \in SUBSET Call /\ calls' = (calls \ {c}) \cup {d} /\ \A e \in {d} : CallFits(e)'
      BY <2>1, <2>4, <2>5 DEF d
    <3>2. \E e \in {d} : e.tab = c.tab /\ e.op = c.op /\ e.to = c.to /\ e.heard
      BY <1>5, <2>4
    <3>3. QED
      BY <1>3, <3>1, <3>2
<1>6. QED
  BY <1>4, <1>5

-----------------------------------------------------------------------------
(* The invariant                                                           *)

LEMMA InitIInv == Init => IInv
<1> SUFFICES ASSUME Init PROVE IInv
  OBVIOUS
<1>1. Fresh \in Tab /\ Fresh.at \notin Protected /\ Fresh.status = "" /\ Fresh.want = "" /\ ~Fresh.busy
  BY DEF Fresh, Tab, Statuses, Stored, Protected
<1>2. \A t \in Tabs : tabs[t] = Fresh
  BY DEF Init
<1>3. TypeOK
  <2>1. stored \in Stored /\ tabs \in [Tabs -> Tab]
    BY <1>1 DEF Init, Stored
  <2>2. calls \subseteq Call /\ session \in BOOLEAN /\ registered \in BOOLEAN
    BY DEF Init
  <2>3. steps \in 0..MaxSteps
    <3>1. steps = 0
      BY DEF Init
    <3>2. MaxSteps \in Nat
      BY StepsAssumption
    <3>3. QED
      BY <3>1, <3>2
  <2>4. QED
    BY <2>1, <2>2, <2>3 DEF TypeOK
<1>4. \A t \in Tabs : tabs[t].at \in Protected \/ tabs[t].status = "registered" => registered
  BY <1>1, <1>2
<1>5. NobodyWaitsInVain
  BY <1>1, <1>2 DEF NobodyWaitsInVain, OverlayHasRequest, WaitingHasRequest
<1>6. calls = {}
  BY DEF Init
<1>7. QED
  BY <1>3, <1>4, <1>5, <1>6 DEF IInv

LEMMA UserActsSteps ==
    ASSUME IInv, UserActs
    PROVE  steps' \in 0..MaxSteps
  BY StepsAssumption DEF IInv, TypeOK, UserActs

LEMMA LoadKeeps ==
    ASSUME IInv, NEW t \in Tabs, NEW to \in Paths, Load(t, to)
    PROVE  IInv'
<1> DEFINE w0 == World(t, stored, Fresh)
           w == Push(w0, to)
           unheard == {[c EXCEPT !.heard = FALSE] : c \in {m \in calls : m.tab = t /\ Acts(m)}}
           rest == {c \in calls : c.tab # t} \cup unheard
<1>1. /\ stored' = w.name /\ tabs' = [tabs EXCEPT ![t] = w.tab]
      /\ calls' = rest \cup w.sent
      /\ UNCHANGED <<session, registered>> /\ UserActs
  BY DEF Load
<1>2. Sound(w0, {}, "") /\ w0.by = t
  <2>1. /\ Fresh \in Tab /\ Fresh.at \notin Protected /\ Fresh.status = ""
        /\ Fresh.want = "" /\ ~Fresh.busy
    BY DEF Fresh, Tab, Statuses, Stored, Protected
  <2>2. stored \in Stored
    BY DEF IInv, TypeOK
  <2>3. w0.name = stored /\ w0.tab = Fresh /\ w0.sent = {} /\ w0.by = t /\ w0 \in Worlds
    BY <2>1, <2>2 DEF World, Worlds
  <2>4. QED
    <3> HIDE DEF w0
    <3>1. QED
      BY <2>1, <2>3 DEF Sound, Fits, Served
<1>3. Sound(w, {}, "") /\ w.by = t
  <2> HIDE DEF w0
  <2>1. QED
    BY <1>2, PushSound
<1>4. \A c \in rest : CallFits(c)
  <2>1. ASSUME NEW c \in unheard
        PROVE  CallFits(c)
    <3>1. PICK m \in calls : m.tab = t /\ Acts(m) /\ c = [m EXCEPT !.heard = FALSE]
      BY <2>1
    <3>2. CallFits(m)
      BY CallsFit
    <3>3. /\ c \in Call /\ c.op = m.op /\ c.to = m.to /\ c.answer = m.answer
      BY <3>1, <3>2 DEF CallFits, Call
    <3>4. QED
      BY <3>2, <3>3 DEF CallFits
  <2>2. QED
    BY <2>1, CallsFit
<1>5. \A c \in calls : c.tab # w.by => c \in rest
  BY <1>3
<1>6. steps' \in 0..MaxSteps
  BY <1>1, UserActsSteps
<1>7. {} \subseteq rest /\ tabs' = [tabs EXCEPT ![w.by] = w.tab]
  BY <1>1, <1>3
<1>8. QED
  <2> HIDE DEF rest, w
  <2>1. QED
    BY <1>1, <1>3, <1>4, <1>5, <1>6, <1>7, HandlerKeeps

\* Visit and Follow push the page they go to.
LEMMA PushKeeps ==
    ASSUME IInv, NEW t \in Tabs, NEW to \in Paths, UserActs,
           Commit(Push(Here(t), to), {}), UNCHANGED <<session, registered>>
    PROVE  IInv'
<1> DEFINE w == Push(Here(t), to)
<1>1. Sound(Here(t), calls, "") /\ Here(t).by = t
  BY HereSound
<1>2. Sound(w, calls, "") /\ w.by = t
  BY <1>1, PushSound
<1> DEFINE done == {}
<1>3. calls \ done = calls /\ steps' \in 0..MaxSteps
  BY UserActsSteps
<1>4. Sound(w, calls \ done, "") /\ Commit(w, done) /\ \A c \in done : c.tab = w.by
  BY <1>2, <1>3
<1>5. QED
  <2> HIDE DEF w, done
  <2>1. QED
    BY <1>3, <1>4, CommitKeeps

LEMMA ClickKeeps ==
    ASSUME IInv, NEW t \in Tabs, NEW op \in {"login", "register", "logout", "work"}, Click(t, op)
    PROVE  IInv'
<1> DEFINE w == Request(Here(t), op, "")
           done == {}
<1>1. /\ UserActs /\ Commit(w, done) /\ UNCHANGED <<session, registered>>
  BY DEF Click
<1>2. Sound(Here(t), calls, "") /\ Here(t).by = t
  BY HereSound
<1>3. op \in Ops /\ op # "guard"
  BY DEF Ops
<1>4. Fits(Here(t)) /\ (Here(t).tab.want \notin {"", ""} => \E c \in calls \cup Here(t).sent :
        c.tab = Here(t).by /\ c.op = "guard" /\ c.heard /\ c.to = Here(t).tab.want)
  BY <1>2 DEF Sound, Served
<1>5. Sound(w, calls, "") /\ w.by = t
  BY <1>2, <1>3, <1>4, RequestSound
<1>6. calls \ done = calls /\ steps' \in 0..MaxSteps
  BY <1>1, UserActsSteps
<1>7. Sound(w, calls \ done, "") /\ \A c \in done : c.tab = w.by
  BY <1>5, <1>6
<1>8. QED
  <2> HIDE DEF w, done
  <2>1. QED
    BY <1>1, <1>6, <1>7, CommitKeeps

LEMMA ReceiveKeeps ==
    ASSUME IInv, NEW c \in calls, Receive(c)
    PROVE  IInv'
<1> DEFINE v == Intercepted(Here(c.tab), c.answer)
           w == Handled(v, c)
           done == {c}
<1>1. Commit(w, done) /\ UNCHANGED <<session, registered, steps>>
  BY DEF Receive
<1>2. Sound(v, calls \ {c}, About(c)) /\ v.by = c.tab
  BY InterceptedSound
<1>3. Sound(w, calls \ done, "") /\ w.by = c.tab
  <2> HIDE DEF v
  <2>1. Sound(Handled(v, c), calls \ {c}, "") /\ Handled(v, c).by = v.by
    BY <1>2, HandledSound
  <2>2. QED
    BY <1>2, <2>1
<1>4. steps' \in 0..MaxSteps /\ \A d \in done : d.tab = w.by
  BY <1>1, <1>3 DEF IInv, TypeOK
<1>5. QED
  <2> HIDE DEF w, done
  <2>1. QED
    BY <1>1, <1>3, <1>4, CommitKeeps

LEMMA ServeKeeps ==
    ASSUME IInv, NEW c \in calls, Serve(c) \/ Lose(c)
    PROVE  IInv'
<1>1. session \in BOOLEAN /\ registered \in BOOLEAN
  BY DEF IInv, TypeOK
<1>2. {"gone", "ok", "none", "refused", "lost"} \subseteq Answers
  BY DEF Answers
<1>3. CASE Refuse(c)
  BY <1>1, <1>2, <1>3, AnsweredKeeps DEF Refuse
<1>4. CASE Find(c)
  <2>1. PICK answer \in Answers :
          answer = (IF registered THEN "ok" ELSE "none") /\ Answered(c, answer)
    BY <1>2, <1>4 DEF Find
  <2>2. UNCHANGED <<stored, tabs, session, registered, steps>>
    BY <1>4 DEF Find
  <2>3. answer = "ok" => registered
    BY <2>1
  <2>4. QED
    BY <1>1, <2>1, <2>2, <2>3, AnsweredKeeps
<1>5. CASE Login(c)
  <2>1. PICK answer \in Answers : Answered(c, answer) /\ session' \in BOOLEAN
    BY <1>1, <1>2, <1>5 DEF Login
  <2>2. c.op \notin {"guard", "find", "register"} /\ UNCHANGED <<stored, tabs, registered, steps>>
    BY <1>5 DEF Login
  <2>3. QED
    BY <1>1, <2>1, <2>2, AnsweredKeeps
<1>6. CASE Logout(c)
  BY <1>1, <1>2, <1>6, AnsweredKeeps DEF Logout
<1>7. CASE RegisterOrganization(c)
  <2>1. PICK answer \in Answers : Answered(c, answer)
    BY <1>2, <1>7 DEF RegisterOrganization
  <2>2. UNCHANGED <<stored, tabs, session, steps>> /\ registered' = TRUE
    BY <1>7 DEF RegisterOrganization
  <2>3. QED
    BY <1>1, <2>1, <2>2, AnsweredKeeps
<1>8. CASE Work(c)
  <2>1. PICK answer \in Answers : Answered(c, answer)
    BY <1>2, <1>8 DEF Work
  <2>2. /\ c.op \notin {"guard", "find", "register"}
        /\ UNCHANGED <<stored, tabs, session, registered, steps>>
    BY <1>8 DEF Work
  <2>3. QED
    BY <1>1, <2>1, <2>2, AnsweredKeeps
<1>9. CASE Lose(c)
  BY <1>1, <1>2, <1>9, AnsweredKeeps DEF Lose
<1>10. QED
  BY <1>3, <1>4, <1>5, <1>6, <1>7, <1>8, <1>9 DEF Serve

LEMMA NextIInv == IInv /\ [Next]_vars => IInv'
<1> SUFFICES ASSUME IInv, [Next]_vars PROVE IInv'
  OBVIOUS
<1>1. CASE \E t \in Tabs, to \in Paths : Load(t, to)
  BY <1>1, LoadKeeps
<1>2. CASE \E t \in Tabs, to \in Paths : Visit(t, to) \/ Follow(t, to)
  BY <1>2, PushKeeps DEF Visit, Follow
<1>3. CASE \E t \in Tabs, op \in {"login", "register", "logout", "work"} : Click(t, op)
  BY <1>3, ClickKeeps
<1>4. CASE \E c \in calls : Serve(c) \/ Lose(c)
  BY <1>4, ServeKeeps
<1>5. CASE \E c \in calls : Receive(c)
  BY <1>5, ReceiveKeeps
<1>6. CASE Expire
  <2>1. UNCHANGED <<stored, tabs, calls, registered, steps>> /\ session' \in BOOLEAN
    BY <1>6 DEF Expire
  <2>2. TypeOK' /\ NobodyWaitsInVain'
    BY <2>1 DEF IInv, TypeOK, NobodyWaitsInVain, OverlayHasRequest, WaitingHasRequest
  <2>3. QED
    BY <2>1, <2>2 DEF IInv
<1>7. CASE UNCHANGED vars
  <2>1. TypeOK' /\ NobodyWaitsInVain'
    BY <1>7 DEF vars, IInv, TypeOK, NobodyWaitsInVain, OverlayHasRequest, WaitingHasRequest
  <2>2. QED
    BY <1>7, <2>1 DEF vars, IInv
<1>8. QED
  BY <1>1, <1>2, <1>3, <1>4, <1>5, <1>6, <1>7 DEF Next

LEMMA IInvHolds == Spec => []IInv
  BY InitIInv, NextIInv, PTL DEF Spec

\* The variables keep their types: what localStorage, the tabs and the
\* requests hold are values the code writes.
THEOREM TypeCorrect == Spec => []TypeOK
<1>1. IInv => TypeOK
  BY DEF IInv
<1>2. QED
  BY IInvHolds, <1>1, PTL

\* A page of the frame is never on show before the organization is
\* registered, whatever the tab has cached and however the answers of the
\* guard and the user's navigations overtake each other.
THEOREM ProtectedSafe == Spec => []ProtectedNeedsOrganization
<1>1. IInv => ProtectedNeedsOrganization
  BY DEF IInv, ProtectedNeedsOrganization
<1>2. QED
  BY IInvHolds, <1>1, PTL

\* The overlay and the waiting navigation of a tab always have a request
\* that will end them: no order of answers and clicks locks the user out.
THEOREM NobodyLockedOut == Spec => []NobodyWaitsInVain
<1>1. IInv => NobodyWaitsInVain
  BY DEF IInv
<1>2. QED
  BY IInvHolds, <1>1, PTL
=============================================================================
