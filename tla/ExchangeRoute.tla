--------------------------- MODULE ExchangeRoute ---------------------------
(***************************************************************************)
(* How Cloud Manager keeps the route tables of the roll sites.  A roll     *)
(* site belongs to an exchange and holds a table of its own, outside the   *)
(* database; the database says which parties a roll site is to route, with *)
(* one row for a party however many roll sites it is on.  A request reads, *)
(* writes the tables one by one by gRPC, and then commits; a timer reads   *)
(* the tables back.                                                        *)
(***************************************************************************)
EXTENDS Integers

CONSTANTS
    RollSites,      \* ids of roll sites
    Exchanges,      \* ids of exchanges
    Parties,        \* party ids
    Addresses,      \* network access of a party
    Threads,        \* server threads
    Deployments,    \* Cloud Manager starts with one of these: roll sites, no party
    MaxEvents,      \* bound on requests, failures and crossings together
    None            \* "no value"

ASSUME BoundAssumption == MaxEvents \in Nat
ASSUME DeploymentAssumption == Deployments \subseteq [RollSites -> Exchanges \cup {"unused"}]

VARIABLES
    known,      \* exchanges in t_federated_exchange
    roll,       \* roll[r]: exchange of r in t_roll_site; ids are not used again
    party,      \* party[p]: row of p in t_party, None if there is none
    linked,     \* t_roll_site_party
    site,       \* site[p]: exchange and address of the joined site p, else None
    table,      \* table[r][p]: where roll site r routes p
    req,        \* req[t]: the request of thread t, None between requests
    sync,       \* where syncRouteTableInfo is, None between rounds
    events,     \* number of requests, failures and crossings so far
    mishaps     \* what has happened that a table may not survive

db == <<known, roll, party, linked, site>>
history == <<events, mishaps>>
vars == <<known, roll, party, linked, site, table, req, sync, events, mishaps>>

Maybe(S) == S \cup {None}
PartyRow == [addr: Addresses, status: {"reset", "published", "modified", "deleted"}]
JoinedSite == [exchange: Exchanges, addr: Addresses]
Table == [Parties -> Maybe(Addresses)]
Links == RollSites \X Parties
NotManaged == {"unused", "deleted"}

ASSUME NoneAssumption == None \notin Exchanges \cup Addresses \cup PartyRow \cup JoinedSite
ASSUME ExchangeAssumption == Exchanges \cap NotManaged = {}

Nothing == [p \in Parties |-> None]

Init ==
    /\ roll \in Deployments
    /\ known = {roll[r] : r \in RollSites} \cap Exchanges
    /\ party = Nothing
    /\ linked = {}
    /\ site = Nothing
    /\ table = [r \in RollSites |-> Nothing]
    /\ req = [t \in Threads |-> None]
    /\ sync = None
    /\ events = 0
    /\ mishaps = {}

Managed(x) == {r \in RollSites : roll[r] = x}
IsManaged(r) == roll[r] \notin NotManaged
Joined(p) == site[p] # None

\* findPartyByRollSiteId, and the roll sites of selectPartyDetails.
On(r) == {p \in Parties : <<r, p>> \in linked /\ party[p] # None}
RollsOf(p) == {r \in RollSites : IsManaged(r) /\ <<r, p>> \in linked}

-----------------------------------------------------------------------------
(* A request: the tables it will push, in two rounds, then what it does to *)
(* the database.                                                           *)

Push == [roll: RollSites, table: Table]
Effect ==
    [rows: [Parties -> Maybe(PartyRow)],    \* rows updated or inserted
     gone: SUBSET Parties,                  \* rows deleted
     cut: SUBSET Links,                     \* relations deleted, then
     tied: SUBSET Links,                    \* relations inserted
     homes: [RollSites -> Maybe(Exchanges)], dropped: SUBSET RollSites,
     opened: SUBSET Exchanges, closed: SUBSET Exchanges,
     joined: [Parties -> Maybe(JoinedSite)], left: SUBSET Parties]
Request == [first: SUBSET Push, second: SUBSET Push, effect: Effect, fresh: SUBSET Parties]

ASSUME RequestAssumption == None \notin Request

Keep == [rows |-> Nothing, gone |-> {}, cut |-> {}, tied |-> {}, homes |-> [r \in RollSites |-> None],
         dropped |-> {}, opened |-> {}, closed |-> {}, joined |-> Nothing, left |-> {}]

Busy(t) == req[t] # None

\* Marks what the properties about undisturbed requests leave out.
AnyBusy == \E t \in Threads : Busy(t)
Crossing == AnyBusy \/ (sync # None /\ sync.at # "next")
Forgetting(effect) ==
    IF \E l \in linked \ effect.cut : l[2] \in effect.gone THEN {"forgotten"} ELSE {}

Cost == IF Crossing THEN 2 ELSE 1
Idle == {t \in Threads : ~Busy(t) /\ events + Cost <= MaxEvents}

Begin(t, first, second, effect) ==
    /\ t \in Idle
    /\ events' = events + Cost
    /\ req' = [req EXCEPT ![t] = [first |-> first, second |-> second, effect |-> effect,
                                  fresh |-> {p \in Parties : party[p] = None}]]
    /\ mishaps' = mishaps \cup (IF Crossing THEN {"crossed"} ELSE {}) \cup Forgetting(effect)
    /\ UNCHANGED <<db, table, sync>>

\* updateRouteTableJsonString.
PushTable(t) ==
    /\ Busy(t)
    /\ \E push \in IF req[t].first # {} THEN req[t].first ELSE req[t].second :
        /\ table' = [table EXCEPT ![push.roll] = push.table]
        /\ req' = [req EXCEPT ![t].first = @ \ {push},
                              ![t].second = IF req[t].first = {} THEN @ \ {push} ELSE @]
    /\ UNCHANGED <<db, sync, history>>

\* A row that is gone meanwhile is not updated, and one that has appeared
\* meanwhile refuses the insertion: the request is undone.
RowAfter(q, p) ==
    IF p \in q.effect.gone THEN None
    ELSE IF q.effect.rows[p] # None /\ (party[p] # None \/ p \in q.fresh) THEN q.effect.rows[p]
    ELSE party[p]
Duplicate(q) == \E p \in q.fresh : q.effect.rows[p] # None /\ party[p] # None

Commit(t) ==
    /\ Busy(t)
    /\ req[t].first = {} /\ req[t].second = {}
    /\ LET e == req[t].effect
       IN  IF Duplicate(req[t])
           THEN UNCHANGED db
           ELSE /\ party' = [p \in Parties |-> RowAfter(req[t], p)]
                /\ linked' = (linked \ e.cut) \cup e.tied
                /\ roll' = [r \in RollSites |-> IF e.homes[r] # None THEN e.homes[r]
                                                ELSE IF r \in e.dropped THEN "deleted"
                                                ELSE roll[r]]
                /\ known' = (known \ e.closed) \cup e.opened
                /\ site' = [p \in Parties |-> IF p \in e.left THEN None
                                              ELSE IF e.joined[p] # None THEN e.joined[p]
                                              ELSE site[p]]
    /\ req' = [req EXCEPT ![t] = None]
    /\ UNCHANGED <<table, sync, history>>

\* A push, its answer or a statement fails: the database rolls back, the
\* tables pushed so far stay.
Fail(t) ==
    /\ Busy(t)
    /\ events < MaxEvents
    /\ events' = events + 1
    /\ mishaps' = mishaps \cup {"failed"}
    /\ req' = [req EXCEPT ![t] = None]
    /\ UNCHANGED <<db, table, sync>>

-----------------------------------------------------------------------------
(* What requests push and write                                            *)

\* The table a roll site is given for parties S: those without a row, reset
\* or to be deleted are not in it.
Routed(S, rows) ==
    [p \in Parties |->
        IF p \in S /\ rows[p] # None /\ rows[p].status \in {"published", "modified"}
        THEN rows[p].addr ELSE None]

\* updateInfo: what was waiting on roll sites R is published, what was to be
\* deleted is taken off them.
Settled(S) ==
    [p \in Parties |->
        IF p \in S /\ party[p] # None /\ party[p].status = "modified"
        THEN [party[p] EXCEPT !.status = "published"] ELSE None]
Dropped(R) ==
    {l \in linked : l[1] \in R /\ party[l[2]] # None /\ party[l[2]].status = "deleted"}
OnAny(R) == UNION {On(r) : r \in R}

\* updateRouteTableExcludeParty and updateRouteTableAttachParty.
Excluding(p, R) == {[roll |-> r, table |-> Routed(On(r) \ {p}, party)] : r \in R}
AttachingUnlinked(p, row, R) ==
    {[roll |-> r, table |-> Routed(On(r), [party EXCEPT ![p] = row])] : r \in R}
Attaching(p, row, R) ==
    {[roll |-> r, table |-> Routed(On(r) \cup {p}, [party EXCEPT ![p] = row])] : r \in R}

\* p leaves roll sites "from" and comes to roll sites "to" with the given row.
Moved(p, row, from, to) ==
    [Keep EXCEPT !.rows = [Settled(OnAny(from \cup to) \ {p}) EXCEPT ![p] = row],
                 !.cut = Dropped(from \cup to) \cup (from \X {p}),
                 !.tied = to \X {p}]

-----------------------------------------------------------------------------
(* An administrator arranges exchanges and roll sites                      *)

\* What is sent with a roll site: parties that have not joined, new, edited
\* or marked for deletion.  The table of a roll site that is not managed yet
\* is shown to the administrator and sent back.
Modified == [addr: Addresses, status: {"modified"}]
Bean(r, p) ==
    (IF table[r][p] # None /\ roll[r] = "unused"
     THEN {[addr |-> table[r][p], status |-> "published"]} ELSE {None})
    \cup (IF Joined(p) THEN {} ELSE Modified)
    \cup (IF Joined(p) \/ p \notin On(r) THEN {} ELSE {[party[p] EXCEPT !.status = "deleted"]})
Beans(r) == {B \in [Parties -> Maybe(PartyRow)] : \A p \in Parties : B[p] \in Bean(r, p)}
Sent(B) == {p \in Parties : B[p] # None}

\* Parties that more than one roll site is sent with get the row sent last.
AddExchange(t, x, R, B) ==
    /\ x \notin known
    /\ R # {}
    /\ \A r \in R : roll[r] = "unused" /\ \A p \in Sent(B[r]) : ~Joined(p)
    /\ \E rows \in [Parties -> Maybe(PartyRow)] :
        /\ \A p \in Parties :
            IF \E r \in R : p \in Sent(B[r])
            THEN \E r \in R : p \in Sent(B[r]) /\ rows[p] = B[r][p]
            ELSE rows[p] = None
        /\ Begin(t, {}, {}, [Keep EXCEPT !.rows = rows, !.opened = {x},
                    !.homes = [r \in RollSites |-> IF r \in R THEN x ELSE None],
                    !.tied = {l \in R \X Parties : l[2] \in Sent(B[l[1]])}])

\* syncActivationParty: the joined sites of the exchange that were not sent.
Unsent(x, B) ==
    {p \in Parties : Joined(p) /\ site[p].exchange = x /\ party[p] # None /\ p \notin Sent(B)}
PublishedOf(B) == {p \in Sent(B) : B[p].status = "published"}

AddRollSite(t, r, x, B) ==
    /\ x \in known
    /\ roll[r] = "unused"
    /\ \A p \in Sent(B) : Joined(p) => site[p].exchange = x
    /\ LET New == Unsent(x, B)
           given == [p \in Parties |->
                        IF p \in New THEN party[p].addr
                        ELSE IF p \in PublishedOf(B) THEN B[p].addr ELSE None]
       IN  Begin(t, IF New = {} THEN {} ELSE {[roll |-> r, table |-> given]}, {},
                 [Keep EXCEPT !.rows = B, !.homes[r] = x, !.tied = {r} \X (Sent(B) \cup New)])

UpdateRollSite(t, r, B) ==
    /\ IsManaged(r)
    /\ Sent(B) # {}
    /\ Begin(t, {}, {}, [Keep EXCEPT !.rows = B, !.tied = {r} \X Sent(B)])

PublishRollSite(t, r) ==
    /\ IsManaged(r)
    /\ Begin(t, {[roll |-> r, table |-> Routed(On(r), party)]}, {},
             [Keep EXCEPT !.rows = Settled(On(r)), !.cut = Dropped({r})])

Cleared(R) == {[roll |-> r, table |-> Nothing] : r \in R}

DeleteRollSite(t, r) ==
    /\ IsManaged(r)
    /\ Begin(t, Cleared({r}), {}, [Keep EXCEPT !.cut = {r} \X Parties, !.dropped = {r}])

DeleteExchange(t, x) ==
    /\ x \in known
    /\ \A p \in Parties : Joined(p) => site[p].exchange # x
    /\ Begin(t, Cleared(Managed(x)), {},
             [Keep EXCEPT !.cut = Managed(x) \X Parties, !.dropped = Managed(x), !.closed = {x}])

-----------------------------------------------------------------------------
(* A site joins, changes and leaves                                        *)

\* syncPartyToExchangeRollSite, at the end of shortLinkActivateSite.
Activate(t, p, x, a) ==
    LET row == [addr |-> a, status |-> "published"]
        from == IF party[p] = None THEN {} ELSE RollsOf(p)
    IN  /\ x \in known
        /\ ~Joined(p)
        /\ Begin(t, Excluding(p, from), Attaching(p, row, Managed(x)),
                 [Moved(p, row, from, Managed(x)) EXCEPT
                    !.joined[p] = [exchange |-> x, addr |-> a]])

\* resetParty, at the start of reactivateSite.
Reset(t, p) ==
    /\ Joined(p) /\ party[p] # None
    /\ Begin(t, Excluding(p, RollsOf(p)), {},
             [Moved(p, [party[p] EXCEPT !.status = "reset"], RollsOf(p), {}) EXCEPT !.left = {p}])

\* The routes of a site that has not joined are not found: they stay.
DeleteSite(t, p) ==
    LET from == IF Joined(p) THEN RollsOf(p) ELSE {}
    IN  /\ party[p] # None
        /\ Begin(t, Excluding(p, from), {},
                 [Moved(p, None, from, {}) EXCEPT !.gone = {p}, !.left = {p}])

\* updatePartyInfo, when dealIpModify agrees to a case.
UpdatePartyInfo(t, p, a) ==
    LET row == [addr |-> a, status |-> "published"]
    IN  /\ Joined(p) /\ party[p] # None
        /\ Begin(t, Attaching(p, row, RollsOf(p)), {},
                 [Keep EXCEPT !.rows[p] = row, !.joined[p] = [site[p] EXCEPT !.addr = a]])

\* updateIpManagerPartyInfo: the address is compared with the site's.
EditedRow(p, a) == IF a = site[p].addr THEN party[p] ELSE [party[p] EXCEPT !.addr = a]

EditAddress(t, p, a) ==
    /\ Joined(p) /\ party[p] # None
    /\ a # site[p].addr
    /\ Begin(t, Attaching(p, [EditedRow(p, a) EXCEPT !.status = "published"],
                          Managed(site[p].exchange)), {},
             [Keep EXCEPT !.rows[p] = EditedRow(p, a), !.joined[p] = [site[p] EXCEPT !.addr = a]])

EditExchange(t, p, x, a) ==
    LET row == EditedRow(p, a)
        from == Managed(site[p].exchange)
    IN  /\ Joined(p) /\ party[p] # None
        /\ x \in known
        /\ x # site[p].exchange
        /\ Begin(t, Excluding(p, from),
                 Attaching(p, [row EXCEPT !.status = "published"], Managed(x)),
                 [Moved(p, row, from, Managed(x)) EXCEPT
                    !.cut = @ \cup (RollSites \X {p}),
                    !.joined[p] = [exchange |-> x, addr |-> a]])

-----------------------------------------------------------------------------
(* The tables are read back                                                *)

\* What a party becomes that is in the table of r: a published row takes the
\* address over, another is written as it was read.
TakenAlways(row, a) == [row EXCEPT !.addr = a]
TakenOver(row, a) == IF row.status = "published" THEN [row EXCEPT !.addr = a] ELSE row
FoundUnset(a) == [addr |-> a, status |-> None]
Found(a) == [addr |-> a, status |-> "published"]

\* queryExchange of a managed roll site, all in one transaction.
QueryExchange(t, r) ==
    LET given == {p \in Parties : table[r][p] # None}
    IN  /\ IsManaged(r)
        /\ Begin(t, {}, {},
             [Keep EXCEPT
                !.rows = [p \in Parties |->
                    IF p \in given \cap On(r) /\ party[p].addr # table[r][p]
                    THEN TakenOver(party[p], table[r][p])
                    ELSE IF p \in given /\ party[p] = None THEN Found(table[r][p])
                    ELSE None],
                !.tied = {r} \X given,
                !.cut = {r} \X {p \in On(r) \ given : party[p].status = "published"}])

\* syncRouteTableInfo, every statement committed as it is made.
SyncStart ==
    /\ sync = None
    /\ sync' = [at |-> "next", todo |-> {r \in RollSites : IsManaged(r)}]
    /\ UNCHANGED <<db, table, req, history>>

SyncGet(r) ==
    /\ sync # None
    /\ sync.at = "next"
    /\ r \in sync.todo
    /\ sync' = [at |-> "got", todo |-> sync.todo \ {r}, roll |-> r, given |-> table[r]]
    /\ IF AnyBusy
       THEN /\ events < MaxEvents
            /\ events' = events + 1
            /\ mishaps' = mishaps \cup {"crossed"}
       ELSE UNCHANGED history
    /\ UNCHANGED <<db, table, req>>

\* A roll site that does not answer is passed over.
SyncPass(r) ==
    /\ sync # None
    /\ sync.at = "next"
    /\ r \in sync.todo
    /\ events < MaxEvents
    /\ events' = events + 1
    /\ mishaps' = mishaps \cup {"failed"}
    /\ sync' = [sync EXCEPT !.todo = @ \ {r}]
    /\ UNCHANGED <<db, table, req>>

SyncRead ==
    /\ sync # None
    /\ sync.at = "got"
    /\ sync' = [at |-> "read", todo |-> sync.todo, roll |-> sync.roll, given |-> sync.given,
                seen |-> [p \in Parties |-> IF p \in On(sync.roll) THEN party[p] ELSE None],
                left |-> Parties]
    /\ UNCHANGED <<db, table, req, history>>

SyncRow(p) ==
    LET seen == sync.seen[p]
        a == sync.given[p]
    IN  party' = IF a = None \/ (seen # None /\ (seen.addr = a \/ party[p] = None)) THEN party
                 ELSE IF seen # None THEN [party EXCEPT ![p] = TakenOver(seen, a)]
                 ELSE IF party[p] = None THEN [party EXCEPT ![p] = Found(a)]
                 ELSE party

SyncLinkOnly(p) ==
    linked' = IF sync.given[p] # None /\ sync.seen[p] = None
              THEN linked \cup {<<sync.roll, p>>} ELSE linked

SyncLink(p) ==
    LET seen == sync.seen[p]
        l == <<sync.roll, p>>
    IN  linked' = IF sync.given[p] # None /\ seen = None THEN linked \cup {l}
                  ELSE IF sync.given[p] = None /\ seen # None /\ seen.status = "published"
                  THEN linked \ {l}
                  ELSE linked

SyncParty(p) ==
    /\ sync # None
    /\ sync.at = "read"
    /\ p \in sync.left
    /\ SyncRow(p)
    /\ SyncLink(p)
    /\ sync' = [sync EXCEPT !.left = @ \ {p}]
    /\ UNCHANGED <<known, roll, site, table, req, history>>

SyncNext ==
    /\ sync # None
    /\ \/ sync.at = "read" /\ sync.left = {}
       \/ sync.at = "next" /\ sync.todo = {}
    /\ sync' = IF sync.todo = {} THEN None ELSE [at |-> "next", todo |-> sync.todo]
    /\ UNCHANGED <<db, table, req, history>>

SyncStep ==
    \/ SyncStart
    \/ \E r \in RollSites : SyncGet(r)
    \/ SyncRead
    \/ \E p \in Parties : SyncParty(p)
    \/ SyncNext

-----------------------------------------------------------------------------

Arrange(t) ==
    \/ \E x \in Exchanges : \E R \in SUBSET {r \in RollSites : roll[r] = "unused"} :
        \E B \in [R -> UNION {Beans(r) : r \in R}] :
            (\A r \in R : B[r] \in Beans(r)) /\ AddExchange(t, x, R, B)
    \/ \E r \in RollSites : \E B \in Beans(r) :
        UpdateRollSite(t, r, B) \/ \E x \in Exchanges : AddRollSite(t, r, x, B)
    \/ \E r \in RollSites : PublishRollSite(t, r) \/ DeleteRollSite(t, r) \/ QueryExchange(t, r)
    \/ \E x \in Exchanges : DeleteExchange(t, x)

Change(t) ==
    \E p \in Parties :
        \/ Reset(t, p) \/ DeleteSite(t, p)
        \/ \E a \in Addresses : UpdatePartyInfo(t, p, a) \/ EditAddress(t, p, a)
        \/ \E a \in Addresses, x \in Exchanges : Activate(t, p, x, a) \/ EditExchange(t, p, x, a)

Next ==
    \/ \E t \in Idle : Arrange(t) \/ Change(t)
    \/ \E t \in Threads : PushTable(t) \/ Commit(t) \/ Fail(t)
    \/ SyncStep
    \/ \E r \in RollSites : SyncPass(r)

\* The timer fires every five minutes and calls by gRPC end.
Spec == Init /\ [][Next]_vars /\ WF_vars(SyncStep)

-----------------------------------------------------------------------------
(* Properties                                                              *)

SyncState ==
    {None}
    \cup [at: {"next"}, todo: SUBSET RollSites]
    \cup [at: {"got"}, todo: SUBSET RollSites, roll: RollSites, given: Table]
    \cup [at: {"read"}, todo: SUBSET RollSites, roll: RollSites, given: Table,
          seen: [Parties -> Maybe(PartyRow)], left: SUBSET Parties]

\* Every variable has values of its kind.
TypeOK ==
    /\ known \subseteq Exchanges
    /\ roll \in [RollSites -> Exchanges \cup NotManaged]
    /\ party \in [Parties -> Maybe(PartyRow)]
    /\ linked \subseteq Links
    /\ site \in [Parties -> Maybe(JoinedSite)]
    /\ table \in [RollSites -> Table]
    /\ req \in [Threads -> Maybe(Request)]
    /\ sync \in SyncState
    /\ events \in 0..MaxEvents
    /\ mishaps \subseteq {"failed", "crossed", "forgotten"}

\* Between requests a joined site has a published row, every roll site of its
\* exchange routes it where it said it is, and no other roll site routes it,
\* whichever requests came before (unless one failed, crossed another or the
\* timer, or forgot a route).
RoutedBy(r, p) ==
    IF roll[r] = site[p].exchange
    THEN <<r, p>> \in linked /\ table[r][p] = site[p].addr
    ELSE <<r, p>> \notin linked /\ table[r][p] = None
JoinedIsRouted ==
    mishaps = {} /\ ~AnyBusy =>
        \A p \in Parties : Joined(p) =>
            /\ party[p] = [addr |-> site[p].addr, status |-> "published"]
            /\ \A r \in RollSites : RoutedBy(r, p)

\* What an administrator has edited and not published is not overwritten by
\* what the roll sites still have.
WaitingEditsKept ==
    [][req' = req /\ "crossed" \notin mishaps =>
        \A p \in Parties : party[p] # None /\ party[p].status # "published" => party'[p] = party[p]]_vars

\* Once the requests have ended, the database comes to list the parties that
\* a roll site routes, and to list none as published that it does not route.
Agreeing(r) ==
    \A p \in Parties :
        /\ table[r][p] # None => p \in On(r)
        /\ p \in On(r) /\ party[p].status = "published" => table[r][p] # None
SyncConverges ==
    <>[]~AnyBusy => <>[](\A r \in RollSites : IsManaged(r) => Agreeing(r))
=============================================================================
