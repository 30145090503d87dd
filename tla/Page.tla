-------------------------------- MODULE Page --------------------------------
(***************************************************************************)
(* What every page of the two front ends has in common: the requests it    *)
(* has sent, the overlay utils/request.js raises while one is under way,   *)
(* and the answers, which come one by one and in any order.                *)
(*                                                                         *)
(* The overlay takes the clicks of the user, but the first answer takes it *)
(* down: a page that sends two requests is open to clicks when one of them *)
(* is answered, and then a request can be sent again before the first is   *)
(* answered, overlap with it and be overtaken by it.                       *)
(***************************************************************************)
EXTENDS Naturals, FiniteSets, Sequences, Functions

CONSTANTS
    MaxSteps,  \* bound: how many things the user does, and requests that fail
    MaxCalls   \* bound: how many requests are under way when the user clicks

VARIABLES
    view,      \* the data of the page's components
    server,    \* what the manager stores, as far as the page shows it
    calls,     \* the requests not yet handled, in the order they were sent
    busy,      \* the overlay is up
    steps,     \* how many things the user has done
    mishaps    \* history: what can leave the page behind the server

pageVars == <<view, server, calls, busy, steps, mishaps>>

Mishaps ==
    {"failed",      \* a request failed, or its answer was lost
     "overlapped",  \* a request was sent while one of its kind was under way
     "crossed"}     \* a request was answered before an older one of its kind

-----------------------------------------------------------------------------
(* Sequences.                                                              *)

\* s without what is at place i.
Without(s, i) == SubSeq(s, 1, i - 1) \o SubSeq(s, i + 1, Len(s))

\* A set in some order, one and the same whenever it is asked for.
Enumerated(S) == CHOOSE f \in Bijection(1 .. Cardinality(S), S) : TRUE

\* The numbers of a set in their order, and the rows at these places.
Ascending(S) ==
    CHOOSE f \in [1 .. Cardinality(S) -> S] : \A i, j \in DOMAIN f : i < j => f[i] < f[j]
Picked(rows, places) == [n \in DOMAIN Ascending(places) |-> rows[Ascending(places)[n]]]

-----------------------------------------------------------------------------
(* Requests.  Those to the addresses request.js lists raise no overlay.    *)

Waiting == [code |-> "waiting"]
Failed == [code |-> "failed"]
Refused == [code |-> "refused"]
Ok(data) == [code |-> "ok", data |-> data]

\* part is the component of the page that asks, where it has several alike.
Call(op, arg, quiet, part) ==
    [op |-> op, arg |-> arg, quiet |-> quiet, part |-> part, answer |-> Waiting]
Ask(op, arg) == Call(op, arg, FALSE, 0)
AskQuietly(op, arg) == Call(op, arg, TRUE, 0)
AskFrom(part, op, arg) == Call(op, arg, FALSE, part)

SentOps(asked) == {<<asked[k].op, asked[k].part>> : k \in DOMAIN asked}
Loud(asked) == \E k \in DOMAIN asked : ~asked[k].quiet
Overlaps(outstanding, asked) ==
    IF SentOps(outstanding) \cap SentOps(asked) = {} THEN {} ELSE {"overlapped"}

\* The page as it is created, with the requests of its created hooks.
Created(asked) ==
    /\ calls = asked
    /\ busy = Loud(asked)
    /\ steps = 0
    /\ mishaps = {}

\* A page can raise the overlay by itself.
Raised(asked) ==
    /\ calls' = calls \o asked
    /\ busy' = TRUE
    /\ mishaps' = mishaps \cup Overlaps(calls, asked)
    /\ UNCHANGED server

\* One thing the user does, which sends these requests.  A click needs the
\* overlay down; a timer or a watcher does not.
Sends(asked) ==
    /\ calls' = calls \o asked
    /\ busy' = (busy \/ Loud(asked))
    /\ mishaps' = mishaps \cup Overlaps(calls, asked)
    /\ UNCHANGED server

UserActs == steps < MaxSteps /\ steps' = steps + 1
Click(asked) == UserActs /\ ~busy /\ Len(calls) < MaxCalls /\ Sends(asked)

\* Typing, or leaving a dialog: it sends nothing, and need not be counted
\* where there is little to type or to leave.
Uncounted ==
    /\ steps < MaxSteps /\ ~busy /\ Len(calls) < MaxCalls
    /\ UNCHANGED <<server, calls, busy, steps, mishaps>>

-----------------------------------------------------------------------------
(* Answers.                                                                *)

IsWaiting(i) == calls[i].answer = Waiting
Reply(i, answer) ==
    /\ IsWaiting(i)
    /\ calls' = [calls EXCEPT ![i].answer = answer]
    /\ UNCHANGED <<view, busy, steps, mishaps>>

\* The request or its answer is lost, or the manager refuses it: that makes
\* a difference for the overlay when the request is a quiet one, and for the
\* handlers that look at what the manager said.  The bound is one failure,
\* which counts as a step.
FailsWith(i, answer) ==
    /\ "failed" \notin mishaps /\ UserActs
    /\ calls' = [calls EXCEPT ![i].answer = answer]
    /\ mishaps' = mishaps \cup {"failed"}
    /\ UNCHANGED <<view, server, busy>>

Fail(i) == FailsWith(i, Failed)
Refuse(i) == IsWaiting(i) /\ FailsWith(i, Refused)

\* The answer of call i is for this handler.
Got(i, op) == calls[i].op = op /\ calls[i].answer.code = "ok"
GotFailure(i, op) == calls[i].op = op /\ calls[i].answer = Failed
Data(i) == calls[i].answer.data

\* The answer of a question whose answer does not change while it is on its
\* way: it is served as it arrives.
Arrives(i, op) == calls[i].op = op /\ IsWaiting(i)

Crosses(i) ==
    IF \E k \in 1 .. (i - 1) : calls[k].op = calls[i].op /\ calls[k].part = calls[i].part THEN {"crossed"} ELSE {}

\* Mutated form: a request that failed leaves the overlay up.
HandledBusy(i, asked) ==
    /\ calls' = Without(calls, i) \o asked
    /\ busy' = (Loud(asked) \/ (busy /\ (calls[i].quiet \/ calls[i].answer = Failed)))
    /\ mishaps' = mishaps \cup Crosses(i) \cup Overlaps(Without(calls, i), asked)
    /\ UNCHANGED <<server, steps>>

\* The handler of call i is done and has sent these requests.
Handled(i, asked) ==
    /\ calls' = Without(calls, i) \o asked
    /\ busy' = (Loud(asked) \/ (busy /\ calls[i].quiet /\ calls[i].answer # Failed))
    /\ mishaps' = mishaps \cup Crosses(i) \cup Overlaps(Without(calls, i), asked)
    /\ UNCHANGED <<server, steps>>

\* A handler that raises or lowers the overlay by itself.
HandledUnder(i, asked, overlay) ==
    /\ calls' = Without(calls, i) \o asked
    /\ busy' = overlay
    /\ mishaps' = mishaps \cup Crosses(i) \cup Overlaps(Without(calls, i), asked)
    /\ UNCHANGED <<server, steps>>

\* A failure no handler looks at.
Ignores(i) ==
    /\ calls[i].answer \in {Failed, Refused}
    /\ Handled(i, <<>>)
    /\ UNCHANGED view

-----------------------------------------------------------------------------
(* Tables.                                                                 *)

\* A table shows one page of the rows the manager keeps, in their order.
Chunk(rows, size, page) ==
    SubSeq(rows, (page - 1) * size + 1,
           IF page * size < Len(rows) THEN page * size ELSE Len(rows))
PagesOf(total, size) == 1 .. ((total + size - 1) \div size)

\* Nothing is under way, and nothing has gone wrong on the way here.
Settled == calls = <<>> /\ mishaps = {}

\* What is under way are requests of the page; nothing was done past the bounds.
CallsOK(requests) ==
    /\ \A i \in DOMAIN calls :
        /\ calls[i].op \in requests /\ calls[i].quiet \in BOOLEAN
        /\ calls[i].answer.code \in {"waiting", "failed", "refused", "ok"}
    /\ busy \in BOOLEAN /\ mishaps \subseteq Mishaps /\ steps \in Nat

\* The page has an answer for everything it asked, so its overlay is down.
OverlayHasCall == busy => \E i \in DOMAIN calls : ~calls[i].quiet
=============================================================================
