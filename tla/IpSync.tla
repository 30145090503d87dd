------------------------------- MODULE IpSync -------------------------------
(***************************************************************************)
(* How the network settings of the sites of one institution are kept the   *)
(* same in Cloud Manager and in its FATE Manager.  A user of the FATE      *)
(* Manager asks for a change and an administrator of Cloud Manager decides *)
(* it (a case); an administrator changes the settings himself (an edit).   *)
(* The FATE Manager polls for both.  Two databases, one table of cases     *)
(* between them, no transaction over both.                                 *)
(***************************************************************************)
EXTENDS Integers, FiniteSets

CONSTANTS
    Sites,          \* joined sites of the institution
    Entrances,      \* network access entrances
    Flags,          \* values of polling_status and secure_status
    Exchanges,      \* exchanges, each with its vip entrance
    Choices,        \* Choices[t]: the settings that are entered in thread t
    Users,          \* threads of the FATE Manager with requests of users
    Deciders,       \* threads of Cloud Manager that decide cases
    Editors,        \* threads of Cloud Manager that edit sites
    MaxRows,        \* bound on the rows of t_federated_ip_manager
    MaxFaults,      \* bound on failed requests and tasks
    Registered,     \* Registered[s]: the settings s was registered with
    None            \* "no value"

ASSUME BoundAssumption == MaxRows \in Nat /\ MaxFaults \in Nat

VARIABLES
    cloud,      \* cloud[s]: the rows of s in t_federated_site_manager and t_party
    cases,      \* rows of t_federated_ip_manager
    local,      \* local[s]: FateSiteInfo of s
    logs,       \* t_fate_change_log
    req,        \* req[t]: the request of thread t, None between requests
    task,       \* where TaskDetector is, None between rounds
    faults      \* number of failures so far

vars == <<cloud, cases, local, logs, req, task, faults>>

\* The settings that are asked for together.
Net == [entrances: Entrances, polling: Flags, secure: Flags]
Maybe(S) == S \cup {None}

ASSUME ChoicesAssumption == Choices \in [Users \cup Editors -> SUBSET Net]

ASSUME NoneAssumption == None \notin Exchanges \cup Net

\* The site row has the entrances, the party row all of net.
CloudSite == [entrances: Entrances, net: Net, exchange: Exchanges]
Shown(c) == [c.net EXCEPT !.entrances = c.entrances]

\* netNew and exchangeNew wait for a user to take them over.
SiteInfo == [net: Net, exchange: Exchanges, editable: BOOLEAN,
             netNew: Maybe(Net), exchangeNew: Maybe(Exchanges)]

Dealt == {"agreed", "rejected"}
Edited == {"not synced", "synced"}
Case == [id: 1..MaxRows, site: Sites, old: Net, net: Net, exchange: {None},
         status: Dealt \cup {"no deal"}]
Edit == [id: 1..MaxRows, site: Sites, old: Net, net: Maybe(Net), exchange: Maybe(Exchanges),
         status: Edited]
Row == Case \cup Edit
Log == [case: 1..MaxRows, site: Sites, net: Net, status: Dealt \cup {"no deal"}]

Threads == Users \cup Deciders \cup Editors

\* The rows of a table are numbered in the order they are inserted.
IsNextId(n) ==
    /\ \A c \in cases : c.id < n
    /\ \A m \in 1..(n - 1) : \E c \in cases : c.id = m
NoFields == [net |-> None, exchange |-> None]

ASSUME RegisteredAssumption ==
    Registered \in [Sites -> CloudSite] /\ \A s \in Sites : Registered[s].net = Shown(Registered[s])

Init ==
    /\ cloud = Registered
    /\ local = [s \in Sites |-> [net |-> Registered[s].net, exchange |-> Registered[s].exchange,
                                 editable |-> TRUE, netNew |-> None, exchangeNew |-> None]]
    /\ cases = {}
    /\ logs = {}
    /\ req = [t \in Threads |-> None]
    /\ task = None
    /\ faults = 0

At(t, place) == req[t] # None /\ req[t].at = place
Go(t, r) == req' = [req EXCEPT ![t] = r]

-----------------------------------------------------------------------------
(* A user of the FATE Manager asks for new settings                        *)

UpdateSiteCheck(t, s, n) ==
    /\ req[t] = None
    /\ local[s].editable
    /\ Go(t, [at |-> "posted", site |-> s, net |-> n])
    /\ UNCHANGED <<cloud, cases, local, logs, task, faults>>

\* Cloud Manager looks up the site and its party, then inserts the case.
AcceptIpModifyRead(t) ==
    /\ At(t, "posted")
    /\ Go(t, [at |-> "read", site |-> req[t].site, net |-> req[t].net,
              old |-> Shown(cloud[req[t].site])])
    /\ UNCHANGED <<cloud, cases, local, logs, task, faults>>

AcceptIpModifyInsert(t) ==
    /\ At(t, "read")
    /\ \E n \in 1..MaxRows :
        /\ IsNextId(n)
        /\ cases' = cases \cup {[id |-> n, site |-> req[t].site, old |-> req[t].old,
                                 net |-> req[t].net, exchange |-> None, status |-> "no deal"]}
        /\ Go(t, [at |-> "answered", site |-> req[t].site, net |-> req[t].net, case |-> n])
    /\ UNCHANGED <<cloud, local, logs, task, faults>>

UpdateSiteLog(t) ==
    /\ At(t, "answered")
    /\ logs' = logs \cup {[case |-> req[t].case, site |-> req[t].site, net |-> req[t].net,
                           status |-> "no deal"]}
    /\ Go(t, [at |-> "logged", site |-> req[t].site])
    /\ UNCHANGED <<cloud, cases, local, task, faults>>

UpdateSiteLock(t) ==
    /\ At(t, "logged")
    /\ local' = [local EXCEPT ![req[t].site].editable = FALSE]
    /\ Go(t, None)
    /\ UNCHANGED <<cloud, cases, logs, task, faults>>

-----------------------------------------------------------------------------
(* An administrator decides a case                                         *)

UnagreedCases == {c \in cases : c.status \in {"no deal", "rejected"}}

\* The case is found by its id as long as it is not dealt with.
OpenCases == {c \in cases : c.status = "no deal"}

DealIpModifyRead(t, c, verdict) ==
    /\ req[t] = None
    /\ c \in OpenCases
    /\ Go(t, [at |-> "deal", case |-> c, verdict |-> verdict])
    /\ UNCHANGED <<cloud, cases, local, logs, task, faults>>

AllTouched(c) ==
    /\ c.net.entrances # c.old.entrances
    /\ c.net.polling # c.old.polling
    /\ c.net.secure # c.old.secure

\* Whether the party and its routes are updated.  The code compares the new
\* secure status with the old polling status.
RouteTouched(c) ==
    \/ c.net.entrances # c.old.entrances
    \/ c.net.polling # c.old.polling
    \/ c.net.secure # c.old.polling

Agreed(s, c) ==
    [entrances |-> c.net.entrances,
     net |-> IF RouteTouched(c) THEN c.net ELSE cloud[s].net,
     exchange |-> cloud[s].exchange]

\* The site and the party are written whatever has become of the case; the
\* case only while it is still open.
DealIpModifyCommit(t) ==
    /\ At(t, "deal")
    /\ LET c == req[t].case
           v == req[t].verdict
       IN  /\ cloud' = IF v = "agreed" THEN [cloud EXCEPT ![c.site] = Agreed(c.site, c)]
                       ELSE cloud
           /\ cases' = {IF r.id = c.id /\ r \in OpenCases THEN [r EXCEPT !.status = v] ELSE r :
                            r \in cases}
    /\ Go(t, None)
    /\ UNCHANGED <<local, logs, task, faults>>

-----------------------------------------------------------------------------
(* An administrator edits a site                                           *)

UpdatePartyRead(t, s, n, x) ==
    /\ req[t] = None
    /\ Go(t, [at |-> "edit", site |-> s, net |-> n, exchange |-> x, seen |-> cloud[s]])
    /\ UNCHANGED <<cloud, cases, local, logs, task, faults>>

\* What the edit changes, as the row of the history says it.
Differing(n, x, seen) ==
    [net |-> IF n = Shown(seen) THEN None ELSE n,
     exchange |-> IF x = seen.exchange THEN None ELSE x]

\* Nothing happens when nothing differs.
UpdatePartyCommit(t) ==
    /\ At(t, "edit")
    /\ LET s == req[t].site
           d == Differing(req[t].net, req[t].exchange, req[t].seen)
       IN  IF d = NoFields THEN UNCHANGED <<cloud, cases>>
           ELSE /\ cloud' = [cloud EXCEPT ![s] =
                       [entrances |-> IF d.net = None THEN @.entrances ELSE d.net.entrances,
                        net |-> IF d.net = None THEN @.net ELSE d.net,
                        exchange |-> IF d.exchange = None THEN @.exchange ELSE d.exchange]]
                /\ \E n \in 1..MaxRows :
                    /\ IsNextId(n)
                    /\ cases' = cases \cup {[id |-> n, site |-> s, old |-> Shown(req[t].seen),
                                             net |-> d.net, exchange |-> d.exchange,
                                             status |-> "not synced"]}
    /\ Go(t, None)
    /\ UNCHANGED <<local, logs, task, faults>>

-----------------------------------------------------------------------------
(* A user takes over what Cloud Manager has edited                         *)

TakeOverRead(t, s) ==
    /\ req[t] = None
    /\ Go(t, [at |-> "take", site |-> s, seen |-> local[s]])
    /\ UNCHANGED <<cloud, cases, local, logs, task, faults>>

TakenUnset(net, seen) == IF seen.netNew = seen.net THEN net ELSE seen.netNew

\* Only what differs from the settings seen is written.
TakenNet(net, seen) ==
    IF seen.netNew = None THEN net
    ELSE [f \in DOMAIN net |-> IF seen.netNew[f] = seen.net[f] THEN net[f] ELSE seen.netNew[f]]

TakenExchange(exchange, seen) ==
    IF seen.exchangeNew \in {None, seen.exchange} THEN exchange ELSE seen.exchangeNew

TakenOver(info, seen) ==
    [info EXCEPT !.net = TakenNet(info.net, seen),
                 !.exchange = TakenExchange(info.exchange, seen),
                 !.netNew = None, !.exchangeNew = None]

TakeOverWrite(t) ==
    /\ At(t, "take")
    /\ local' = [local EXCEPT ![req[t].site] = TakenOver(@, req[t].seen)]
    /\ Go(t, None)
    /\ UNCHANGED <<cloud, cases, logs, task, faults>>

-----------------------------------------------------------------------------
(* TaskDetector of the FATE Manager: get_change_log_task, then             *)
(* apply_exchange_task                                                     *)

TaskAt(place) == task # None /\ task.at = place

StartRound ==
    /\ task = None
    /\ task' = [at |-> "logs", todo |-> {l \in logs : l.status = "no deal"}]
    /\ UNCHANGED <<cloud, cases, local, logs, req, faults>>

IsRefusal(status) == status \notin {"no deal", "agreed"}

\* resp.status > NO
IsAnswer(status) == status \in Dealt

\* A case that is not dealt with is asked for again in the next round.
QueryIpModify ==
    /\ TaskAt("logs")
    /\ \E l \in task.todo, c \in cases :
        /\ c.id = l.case
        /\ task' = IF IsAnswer(c.status)
                   THEN [at |-> "log", todo |-> task.todo \ {l}, log |-> l, status |-> c.status]
                   ELSE [at |-> "logs", todo |-> task.todo \ {l}]
    /\ UNCHANGED <<cloud, cases, local, logs, req, faults>>

UpdateChangeLog ==
    /\ TaskAt("log")
    /\ logs' = {IF l.case = task.log.case THEN [l EXCEPT !.status = task.status] ELSE l : l \in logs}
    /\ task' = [task EXCEPT !.at = "site"]
    /\ UNCHANGED <<cloud, cases, local, req, faults>>

AppliedAlways(net, log, status) == log.net

\* The settings asked for are used if they were agreed.
Applied(net, log, status) == IF status = "agreed" THEN log.net ELSE net

\* The site can be edited again.
Released(info, log, status) ==
    [info EXCEPT !.editable = TRUE, !.net = Applied(info.net, log, status)]

UpdateSiteInfo ==
    /\ TaskAt("site")
    /\ local' = [local EXCEPT ![task.log.site] = Released(@, task.log, task.status)]
    /\ task' = [at |-> "logs", todo |-> task.todo]
    /\ UNCHANGED <<cloud, cases, logs, req, faults>>

\* Of the edits of a site that were not fetched, only the last is returned.
Unsynced == {c \in cases : c.status = "not synced"}
LastUpdates == {c \in Unsynced : \A d \in Unsynced : d.site = c.site => d.id <= c.id}

QueryUpdateIpModify ==
    /\ TaskAt("logs")
    /\ task.todo = {}
    /\ task' = [at |-> "fetched", updates |-> LastUpdates]
    /\ UNCHANGED <<cloud, cases, local, logs, req, faults>>

MarkSynced ==
    /\ TaskAt("fetched")
    /\ cases' = {IF c \in Unsynced THEN [c EXCEPT !.status = "synced"] ELSE c : c \in cases}
    /\ task' = [task EXCEPT !.at = "store"]
    /\ UNCHANGED <<cloud, local, logs, req, faults>>

\* safe_save reads the row of the site and writes all of it back.
SafeSaveRead ==
    /\ TaskAt("store")
    /\ \E c \in task.updates :
        task' = [at |-> "save", updates |-> task.updates \ {c}, update |-> c, seen |-> local[c.site]]
    /\ UNCHANGED <<cloud, cases, local, logs, req, faults>>

Stored(seen, c) ==
    [seen EXCEPT !.netNew = IF c.net = None THEN @ ELSE c.net,
                 !.exchangeNew = IF c.exchange = None THEN @ ELSE c.exchange]

SafeSaveWrite ==
    /\ TaskAt("save")
    /\ local' = [local EXCEPT ![task.update.site] = Stored(task.seen, task.update)]
    /\ task' = [at |-> "store", updates |-> task.updates]
    /\ UNCHANGED <<cloud, cases, logs, req, faults>>

EndRound ==
    /\ TaskAt("store")
    /\ task.updates = {}
    /\ task' = None
    /\ UNCHANGED <<cloud, cases, local, logs, req, faults>>

-----------------------------------------------------------------------------
(* Failures: a call or an answer is lost, a database refuses, a process is *)
(* restarted.  Each request and each of the two tasks ends where it is;    *)
(* the transactions of Cloud Manager roll back.                            *)

RequestFails(t) ==
    /\ faults < MaxFaults
    /\ faults' = faults + 1
    /\ req[t] # None
    /\ Go(t, None)
    /\ UNCHANGED <<cloud, cases, local, logs, task>>

TaskFails ==
    /\ faults < MaxFaults
    /\ faults' = faults + 1
    /\ task # None
    /\ task' = IF task.at \in {"logs", "log", "site"} THEN [at |-> "logs", todo |-> {}] ELSE None
    /\ UNCHANGED <<cloud, cases, local, logs, req>>

-----------------------------------------------------------------------------

UserStep(t) ==
    \/ \E s \in Sites, n \in Choices[t] : UpdateSiteCheck(t, s, n)
    \/ AcceptIpModifyRead(t)
    \/ AcceptIpModifyInsert(t)
    \/ UpdateSiteLog(t)
    \/ UpdateSiteLock(t)
    \/ \E s \in Sites : TakeOverRead(t, s)
    \/ TakeOverWrite(t)

DeciderStep(t) ==
    \/ \E c \in cases, v \in Dealt : DealIpModifyRead(t, c, v)
    \/ DealIpModifyCommit(t)

EditorStep(t) ==
    \/ \E s \in Sites, n \in Choices[t], x \in Exchanges : UpdatePartyRead(t, s, n, x)
    \/ UpdatePartyCommit(t)

TaskStep ==
    \/ StartRound
    \/ QueryIpModify
    \/ UpdateChangeLog
    \/ UpdateSiteInfo
    \/ QueryUpdateIpModify
    \/ MarkSynced
    \/ SafeSaveRead
    \/ SafeSaveWrite
    \/ EndRound

Next ==
    \/ \E t \in Users : UserStep(t)
    \/ \E t \in Deciders : DeciderStep(t)
    \/ \E t \in Editors : EditorStep(t)
    \/ TaskStep
    \/ \E t \in Threads : RequestFails(t)
    \/ TaskFails

Spec == Init /\ [][Next]_vars

\* TaskDetector is on a timer that never stops, and its requests time out.
FairSpec == Spec /\ WF_vars(TaskStep)

-----------------------------------------------------------------------------
(* Properties                                                              *)

UserRequest ==
    [at: {"posted"}, site: Sites, net: Net]
        \cup [at: {"read"}, site: Sites, net: Net, old: Net]
        \cup [at: {"answered"}, site: Sites, net: Net, case: 1..MaxRows]
        \cup [at: {"logged"}, site: Sites]
        \cup [at: {"take"}, site: Sites, seen: SiteInfo]
DeciderRequest == [at: {"deal"}, case: Case, verdict: Dealt]
EditorRequest == [at: {"edit"}, site: Sites, net: Net, exchange: Exchanges, seen: CloudSite]
TaskState ==
    [at: {"logs"}, todo: SUBSET Log]
        \cup [at: {"log", "site"}, todo: SUBSET Log, log: Log, status: Dealt]
        \cup [at: {"fetched", "store"}, updates: SUBSET Edit]
        \cup [at: {"save"}, updates: SUBSET Edit, update: Edit, seen: SiteInfo]

ASSUME IdleAssumption == None \notin UserRequest \cup TaskState

\* The tables and the requests in progress are well formed: in particular no
\* value a FATE Manager uses is empty.
TypeOK ==
    /\ cloud \in [Sites -> CloudSite]
    /\ cases \subseteq Row
    /\ local \in [Sites -> SiteInfo]
    /\ logs \subseteq Log
    /\ req \in [Threads -> Maybe(UserRequest \cup DeciderRequest \cup EditorRequest)]
    /\ task \in Maybe(TaskState)
    /\ faults \in 0..MaxFaults

\* A case is decided once: of two administrators who agree and reject at the
\* same time, or of one who decides again, the second leaves the case alone
\* (dealIpModify).
DecidedOnce ==
    [][\A c \in cases : c.status \in Dealt => c \in cases']_vars

\* A FATE Manager uses only settings Cloud Manager has decided on: each is the
\* one the site was registered with, or comes from a case that was agreed or
\* from an edit (get_change_log_task, get_site_detail, apply_exchange_task).
Fields == {"entrances", "polling", "secure"}
DecidedFor(s, f, v) ==
    \/ v = Registered[s].net[f]
    \/ \E c \in cases : /\ c.site = s
                        /\ c.status \in Edited \cup {"agreed"}
                        /\ c.net # None
                        /\ c.net[f] = v
UsedIsDecided ==
    \A s \in Sites, f \in Fields : DecidedFor(s, f, local[s].net[f])

\* All that was asked for s is decided, and the FATE Manager knows.
Settled(s) ==
    /\ \A c \in cases : c.site = s =>
        \E l \in logs : l.case = c.id /\ l.status = c.status /\ c.status \in Dealt
    /\ ~ (TaskAt("site") /\ task.log.site = s)

\* The one agreed case that dealIpModify does not bring to the party: it changes
\* the secure status alone, to what the polling status is, and the code compares
\* the new secure status with the old polling status
\* (FederatedIpManagerService.java:150).  The FATE Manager applies it.
Overlooked(s) ==
    \E c \in cases : /\ c.site = s /\ c.status = "agreed"
                     /\ c.net = [c.old EXCEPT !.secure = c.old.polling]
                     /\ c.old = Shown(cloud[s])
                     /\ c.net = local[s].net

\* As long as nothing fails and Cloud Manager does not edit the site itself, the
\* site and the party in Cloud Manager have the same entrances and, once all
\* requests are settled, the FATE Manager has the settings of Cloud Manager:
\* all of them, unless the last case that was agreed is overlooked as above.
\* Then the two differ, in the secure status and in nothing else, until a case
\* changes another setting (dealIpModify, get_change_log_task).
SettledAgree ==
    faults = 0 => \A s \in Sites : Settled(s) =>
        /\ cloud[s].net = Shown(cloud[s])
        /\ local[s].net = cloud[s].net \/ Overlooked(s)

\* Every decision about a case the FATE Manager knows reaches its change log,
\* whatever answers get lost on the way.
DecisionIsLogged ==
    \A n \in 1..MaxRows :
        (\E l \in logs, c \in cases : l.case = n /\ c.id = n /\ c.status \in Dealt)
            ~> (\E l \in logs : l.case = n /\ l.status \in Dealt)
=============================================================================
