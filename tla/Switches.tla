------------------------------ MODULE Switches ------------------------------
(***************************************************************************)
(* The page of the functions (switch.vue): the switch of the site          *)
(* authorization.  The switch flips as it is clicked, before the user has  *)
(* confirmed anything; it is put back, or not, by asking for the state     *)
(* again, which raises no overlay.  Turned on for the first time, a        *)
(* scenario must be chosen, once and for all.  One field of view is        *)
(* history: surprised, the state arrived while a dialog was open.          *)
(***************************************************************************)
EXTENDS Page, SequencesExt

CONSTANT Scenarios   \* the scenarios offered

Requests == {"state", "status", "scenario"}

\* The function at the manager.
Functions == [on : BOOLEAN, scenario : Scenarios \cup {""}]

-----------------------------------------------------------------------------
\* Its id is not known before the first answer.
init == <<AskQuietly("state", "")>>

Init ==
    /\ server \in {f \in Functions : f.on => f.scenario # ""}
    /\ view = [sitestatus |-> FALSE, descriptions |-> "", known |-> FALSE,
               dialogs |-> {}, selectRadio |-> "",
               params |-> [known |-> FALSE, on |-> FALSE],
               surprised |-> FALSE]
    /\ Created(init)

\* The dialog on top takes the clicks: that of the switch, the choice of a
\* scenario, the confirmation of the choice.
Controls(v) ==
    CASE v.dialogs = {} -> {"switch"}
      [] v.dialogs = {"switch"} -> {"ok", "cancel"}
      [] v.dialogs = {"select"} ->
            {"radio", "cancel"} \cup (IF v.selectRadio # "" THEN {"open"} ELSE {})
      [] v.dialogs = {"select", "sure"} -> {"sure", "cancel"}

toswitch ==
    LET on == ~view.sitestatus
    IN /\ "switch" \in Controls(view)
       /\ Click(<<>>)
       /\ view' = [view EXCEPT !.sitestatus = on, !.dialogs = {"switch"},
                               !.params = [known |-> view.known, on |-> on]]

updated(v) == <<Ask("status", v.params)>>

okAction ==
    /\ "ok" \in Controls(view)
    /\ IF view.sitestatus /\ view.descriptions = ""
       THEN /\ Click(<<>>)
            /\ view' = [view EXCEPT !.selectRadio = "", !.dialogs = {"select"}]
       ELSE /\ Click(updated(view))
            /\ UNCHANGED view

Closed(v) == [v EXCEPT !.dialogs = {}]

\* Mutated form: the switch stays as it was clicked.
cancelActionFlipped ==
    /\ "cancel" \in Controls(view)
    /\ Click(<<>>)
    /\ view' = Closed(view)

cancelAction ==
    /\ "cancel" \in Controls(view)
    /\ Click(init)
    /\ view' = Closed(view)

Choose(scenario) ==
    /\ "radio" \in Controls(view) /\ scenario # view.selectRadio
    /\ Click(<<>>)
    /\ view' = [view EXCEPT !.selectRadio = scenario]

openVisible ==
    /\ "open" \in Controls(view)
    /\ Click(<<>>)
    /\ view' = [view EXCEPT !.dialogs = {"select", "sure"}]

selectSure ==
    /\ "sure" \in Controls(view)
    /\ Click(<<Ask("scenario", [known |-> view.params.known, scenario |-> view.selectRadio])>>)
    /\ UNCHANGED view

-----------------------------------------------------------------------------
(* The manager.  A scenario is stored once, and turns the function on.     *)

ServeState(i) == calls[i].op = "state" /\ Reply(i, Ok(server)) /\ UNCHANGED server

updateStatus(i) ==
    /\ calls[i].op = "status"
    /\ IF calls[i].arg.known
       THEN Reply(i, Ok(TRUE)) /\ server' = [server EXCEPT !.on = calls[i].arg.on]
       ELSE Reply(i, Refused) /\ UNCHANGED server

updateScenario(i) ==
    /\ calls[i].op = "scenario"
    /\ IF calls[i].arg.known /\ server.scenario = ""
       THEN Reply(i, Ok(TRUE)) /\ server' = [on |-> TRUE, scenario |-> calls[i].arg.scenario]
       ELSE Reply(i, Refused) /\ UNCHANGED server

-----------------------------------------------------------------------------
StateThen(i) ==
    /\ Got(i, "state")
    /\ view' = [view EXCEPT !.sitestatus = Data(i).on, !.descriptions = Data(i).scenario,
                            !.known = TRUE,
                            !.surprised = @ \/ view.dialogs # {}]
    /\ Handled(i, <<>>)

StatusThen(i) ==
    /\ Got(i, "status")
    /\ view' = [view EXCEPT !.dialogs = @ \ {"switch"}]
    /\ Handled(i, init)

StatusCatch(i) ==
    /\ calls[i].op = "status" /\ calls[i].answer \in {Failed, Refused}
    /\ view' = Closed(view)
    /\ Handled(i, init)

ScenarioThen(i) ==
    /\ Got(i, "scenario")
    /\ view' = [view EXCEPT !.dialogs = @ \ {"select", "sure"}]
    /\ Handled(i, updated(view))

NoCatch(i) == calls[i].op # "status" /\ Ignores(i)

-----------------------------------------------------------------------------
Next ==
    \/ toswitch \/ okAction \/ cancelAction \/ openVisible \/ selectSure
    \/ \E scenario \in Scenarios : Choose(scenario)
    \/ \E i \in DOMAIN calls :
          \/ ServeState(i) \/ updateStatus(i) \/ updateScenario(i) \/ Fail(i)
          \/ StateThen(i) \/ StatusThen(i) \/ StatusCatch(i) \/ ScenarioThen(i) \/ NoCatch(i)

Spec == Init /\ [][Next]_pageVars

-----------------------------------------------------------------------------
\* A switch that was flipped and not confirmed, or refused, comes back: with
\* no dialog open and everything answered it shows what is stored.
SwitchIsStored ==
    Settled /\ view.dialogs = {} =>
        view.sitestatus = server.on /\ view.descriptions = server.scenario

\* The authorization is never on without a scenario, for which the manager
\* would count it as off: the page sees to it, for the manager turns it on
\* without one.  It does not when the state arrives while the dialog is open
\* and flips the switch behind it.
OnHasScenario == server.on /\ ~view.surprised => server.scenario # ""
=============================================================================
