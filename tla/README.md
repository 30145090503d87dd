# FATE Cloud: a TLA+ model

FATE Cloud registers the sites of a federated-learning network and keeps them in
step. **Cloud Manager** (Java, `cloud-manager/`) is the central service: it gives
party ids to sites, lets institutions see each other, and pushes routes to the
exchanges. Each institution runs a **FATE Manager** (Python, `fate-manager/`) that
activates its sites against Cloud Manager and polls it. Each of the two has a
front end (Vue, `front-end/`) whose pages send several requests at once and write
what the answers bring into one state. This directory models the parts whose
correctness depends on the order in which requests, commits, answers and clicks
happen. TLC checks the models on small instances, TLAPS proves the theorems for all
of them.

## 1. Inventory

| Component | State it keeps | Operations | What is hard about it | What makes it correct |
|---|---|---|---|---|
| Site registry (`FederatedSiteManagerService`, its facade, `CheckSignature`) | `t_federated_site_manager` (status 1 not joined, 2 joined, 3 removed) | add, update, delete, activate with a long or a short link, reactivate, delete an institution | conditions are checked in queries of their own, before the transaction that writes; whole rows are written back; party ids are used again | a party id belongs to one registered site; a removed site stays removed |
| Group sets (`FederatedGroupSetService`) | `t_federated_group_set` (total, used, status), `t_federated_group_range_detail` | add, update, delete | `used` is read, then written back plus or minus one; `updateGroup` is not a transaction | disjoint ranges; every site inside the ranges of its group set; `used` counts the sites |
| Authority (`FederatedAuthorityService`) | `t_federated_site_authority`: a history of rows, the current ones marked generation 1 | apply, review, cancel | check-then-insert; a cancel that returns in the middle of its loop and commits | one current row for a pair; a review or a cancel acts once |
| IP changes (`FederatedIpManagerService`, FATE Manager's `site_service`, `task_service`) | `t_federated_ip_manager` cases; FATE Manager's `ChangeLog`, `FateSiteInfo`, roll-site tables | request, review, poll; edits in Cloud Manager pulled by FATE Manager | two databases, no common transaction, replies get lost | both sides agree in the end on what was decided |
| Exchange and roll sites (`FederatedExchangeService`) | `t_exchange`, `t_roll_site`, `t_party`, their relation, the remote route tables | add, update, delete, publish, periodic sync | one party row shared by many roll sites; remote pushes inside local transactions | a published party is in the route table |
| FATE Manager users (`FederatedFateManagerUserService`) | `t_fate_manager_user` (status 1, 2, 3) | add, update, activate, delete, reactivate | deletes the sites of the institution in a statement of its own | see the registry |
| Cloud Manager users | `t_cloud_manager_user` | add, delete, login | "the last user" is counted before the delete | one user remains |
| Site monitor, job statistics | daily counters | push, query | retried pushes | a day is counted once |
| Certificates, product versions, functions, organisation, models, drop-downs | plain tables | create, read, update, delete | nothing concurrent of interest | - |
| FATE Manager services: site, task, user, login, monitoring | a database of its own | registration, heart beats, job windows, tokens | tasks on a timer beside user requests | see IP changes |
| Session of Cloud Manager's front end (`permission.js`, `request.js`, `store`, the frame) | the name in localStorage, shared by the tabs; the status each tab caches; the navigation under way | sign in and out, register, every link, the guard, the interceptors | the guard waits for an answer before it lets a navigation through; the session ends without telling anyone; two tabs share the name and not the status | who is not registered sees no page of the frame; nobody waits for what will not come |
| Pages of Cloud Manager: sites, exchanges, addresses | lists, tables below them, forms and dialogs | add, edit, submit, decide, publish, delete | one overlay for all requests, which the first answer takes down; tables reused by place; answers that write the same field | what is shown is stored; what is sent belongs together |
| Pages of Cloud Manager: settings and monitors | the same; searches, switches, periods | add, edit, search, confirm, choose | a switch flips before it is confirmed; a form shared by two purposes; parts of a page of different questions | all of a page is of one question; the rules the server leaves to the page are kept |
| Pages of FATE Manager: sites and monitors | a site with its edit and its copies, polls | edit, submit, test, poll, apply | a poll, an edit and news of Cloud Manager meet in one form | no edit, notice or decision is lost |
| Session and user pages of FATE Manager, deployment pages, texts, deploy scripts | - | - | - | not modelled, see section 7 |

Interaction. A browser calls a controller, the controller a *facade* method, the
facade the service. Checks made in the facade are committed queries; only the
service method carries `@Transactional`. MySQL runs at its default isolation level,
repeatable read: the queries of a transaction see the snapshot taken by its first
one, its updates meet the rows as they are. FATE Manager calls Cloud Manager over
HTTP with a signature made from the site's key and secret; Cloud Manager never calls
FATE Manager. Cloud Manager calls the roll sites over gRPC. A page sends a request
and goes on; `utils/request.js` raises an overlay that takes the clicks, and the first
answer that comes takes it down, whichever request it answers. A few addresses are
quiet: they raise none. Pages share nothing but the store, localStorage and the server.

## 2. Modules

| Module | Models |
|---|---|
| `RegistryRows` | the rows of sites, group sets and parties, the questions the services ask of them and what they write, as operators on tables |
| `SiteRegistry` | the abstract registry: each request is one step |
| `SiteRequests` | the registry as its requests run: every query and every commit is a step |
| `SiteRegistry_proofs` | type correctness and the registry's safety, for all constants |
| `SiteRequests_proofs` | type correctness of the requests, that removed sites stay removed, and that the requests of one administrator implement the atomic registry and keep what it promises |
| `AuthorityLedger` | the abstract authority service: one decision for every pair of institutions, what `ImplementsLedger` refers to |
| `SiteAuthority` | the authority service as its transactions run, and the FATE Managers that poll it |
| `SiteAuthority_proofs` | type correctness, one current row for two institutions, and the ledger the transactions implement |
| `IpSync` | the change of network settings between a FATE Manager and Cloud Manager, with lost calls and restarts |
| `IpSync_proofs` | type correctness, where the settings in use come from, and that both managers agree in the end |
| `ExchangeRoute` | parties, roll sites and their relation, the pushes of route tables and the timer that reads them back |
| `ExchangeRoute_proofs` | type correctness, edits that wait are not overwritten, and joined sites stay routed |
| `CloudSession` | the tabs of one user of Cloud Manager: guard, interceptors, store, frame |
| `CloudSession_proofs` | type correctness, who is let in, and that nobody is locked out |
| `Page` | what all pages have in common: requests, overlay, answers in any order |
| `SiteForm`, `SiteList`, `SiteTable` | `siteadd.vue`; `site.vue`; `sitetable.vue` with `sitedetail.vue` |
| `Exchanges`, `RollSiteForm`, `ExchangeForm` | `ipexchange.vue` with `ipexchangetable.vue`; `ipaddrollsite.vue`; `ipaddexchange.vue` |
| `IpCases`, `AddressList` | `ip.vue` with `ipedit.vue`; `ipeditadd.vue` |
| `CloudSites` | these pages as the frame shows them, one at a time |
| `CloudSites_proofs` | their type correctness, the end of the overlay, and that what they send belongs together |
| `PartyIds`, `IdRanges`, `PartyUsers` | `partyid.vue` with `partyidadd.vue`; `idRangeRule.js`, a pure algorithm; `partyuser.vue` |
| `Switches`, `Access`, `Certificates`, `CertificateTypes` | `switch.vue`; `access.vue`; `certificate.vue`; `certiAddType.vue` |
| `MonitorToday`, `MonitorTables`, `JobMonitor` | `monitor.vue` with `monitortoday.vue`, in two parts; `jobMonitor.vue` with its charts |
| `CloudAdministration` | these pages as the frame shows them |
| `ManagerSites`, `SiteDetail`, `Cooperation`, `SiteMatrix`, `ManagerJobs` | FATE Manager's `sitemanage.vue`; `sitedetail.vue`; `cooperation.vue` with `cooperationdata.vue`, whose table of sites is a pure algorithm in `SiteMatrix`; `jobMonitor.vue` |
| `FateManager` | these pages as the frame shows them |
| `FateManager_proofs` | type correctness of these pages, that the overlay ends, what is sent of a site, and one application at a time |
| `MCSiteRequests`, `MCIpSync`, `MCExchangeRoute` | the instances for TLC; the other runs need none |

### The registry and its requests

`SiteRegistry` is the promise: what add, update, delete, activate, reactivate and
the deletions of institutions do when nothing runs beside them. `SiteRequests` is
the code: thread `t` is at `pc[t]`, the query or the commit it is about to make;
`req[t]` holds its parameters and what it keeps of its queries, `snap[t]` the tables
its transaction reads. `addSiteNew` becomes `AddSiteCheckRegion` (the regions of the
group set), `AddSiteCheckParty` (`checkPartyIdExist`), `AddSiteRead` (the first query
of `addSite`'s transaction) and `AddSiteCommit`; `updateGroup`, which has no
transaction, becomes `UpdateGroupTotal`, `UpdateGroupClear` and one
`UpdateGroupInsert` for each range. `Rollback` is any failure inside a transaction;
`UpdateGroupTorn` a failure outside one.

The refinement mapping gives a group set that is being rewritten its new ranges
(`EffectiveGroups`): the abstract update happens at `UpdateGroupTotal`.

Names, signatures, keys, network addresses and public/private flags are left out:
a request they refuse is a request that is not made. Sites, group sets, party ids
and institutions are interchangeable ids. The ranges of a group set are a set of
party ids; that a range has a left and a right end plays no part.

### Authority

An institution applies to see the sites of others, an administrator reviews all
the pending applications of one institution together, and may cancel what was
approved. `AuthorityLedger` keeps `grant[<<x, y>>]`, the decision about x seeing y.
`SiteAuthority` keeps the table: `rows` are the rows of generation 1; the rows of
generation 2 are only shown as history, so retiring a row removes it. `batch` stands
for `authority_id` and tells the rows of two requests apart. Each request is a
transaction of two steps: `...Read` is its queries, against the snapshot, `...Commit`
its updates, which meet the rows as they are by then. That difference matters:
`reviewAuthorityApplyDetails` retires the approved rows by the ids it read and the
rejected ones by institution; `deleteInstitution` retires whatever is there but
inserts copies of what it read, so an application that came in meanwhile leaves no
trace. `cancelAuthority` returns at the first institution without an approved row,
which does not roll back: `CancelRead` lets any part of the request be done that
this order allows. In the mix and homo scenarios a decision holds both ways
(`Covered`), in the hetero scenario one way.

`PollRead` and `PollStore` are `apply_result_task` of a FATE Manager: the call of
`findApprovedInstitutions`, and the update of the local table. A poll that fails is
a poll not made. The refinement maps the table to `Decision`, the status of the row
of a pair.

### IP changes

`cloud[s]` is what Cloud Manager has of a joined site: `entrances` in the site's row,
`net` and `exchange` in the party's. `local[s]` is the FATE Manager's row:
`netNew` and `exchangeNew` are what a user has not yet taken over, `editable` is
`edit_status`. `cases` is `t_federated_ip_manager`, which holds both the *cases* a user
asks for (status 0, 1, 2: no deal, agreed, rejected) and the *edits* of an administrator
(3 and 4: not synced, synced); `logs` is `ChangeLog`.

| Code | Actions |
|---|---|
| `update_site`, which calls `acceptIpModify` | `UpdateSiteCheck`, `AcceptIpModifyRead`, `AcceptIpModifyInsert`, `UpdateSiteLog`, `UpdateSiteLock` |
| `dealIpModify` | `DealIpModifyRead`, `DealIpModifyCommit` |
| `updateIpManagerPartyInfo` | `UpdatePartyRead`, `UpdatePartyCommit` |
| `get_site_detail` with an update mark | `TakeOverRead`, `TakeOverWrite` |
| `get_change_log_task`, which calls `queryIpModify` | `StartRound`, `QueryIpModify`, `UpdateChangeLog`, `UpdateSiteInfo` |
| `apply_exchange_task`, which calls `queryUpdateIpModify` | `QueryUpdateIpModify`, `MarkSynced`, `SafeSaveRead`, `SafeSaveWrite`, `EndRound` |
| a lost call or answer, a refused statement, a restart | `RequestFails`, `TaskFails` |

The two tasks run one after the other in one thread (`TaskDetector`), beside the
users' requests. `DBOperator.update_entity` writes only the columns it is given and is
one step; `safe_save` writes back the row it has read and is two. Entrances, polling
status and secure status are always asked for together and form one record, `Net`;
an exchange has a name and an address that move together. Left out: the exits and
the roll-site addresses of a FATE Manager, which nothing reads back; the branch
`UpdateRollSiteInfo`, which writes only those; the read marks; the removal of a site
between two polls; the roll-site calls, whose failures are caught and logged; the
route tables, which are in `ExchangeRoute`.

### Exchanges and route tables

`known` is `t_federated_exchange`, `roll[r]` the exchange of a roll site in
`t_roll_site` (`"unused"` before it is added, `"deleted"` after), `party[p]` the row of a
party in `t_party`, `linked` the relation `t_roll_site_party`. `site[p]` is what the
registry says of a joined site, its exchange and its address. `table[r]` is not in the
database: it is the route table of the roll site itself. One row of `t_party`, with one
status, serves all the roll sites a party is on.

A request is a transaction that pushes tables on its way. `Begin` is what it reads and
what follows from that: the tables it will push, in two rounds (`first` for the roll
sites a party leaves, `second` for those it comes to), and what it writes, its `Effect`.
`PushTable` is one gRPC call, `Commit` the end of the transaction, `Fail` a call or
statement that fails: the transaction rolls back, the tables pushed so far stay. The
timer's `syncRouteTableInfo` has no transaction, and every one of its statements is a step.

| Code | Actions |
|---|---|
| `addExchange`; `addRollSite` with `syncActivationParty` | `AddExchange`; `AddRollSite` |
| `updateRollSite`, `publishRollSite`, `deleteRollSite`, `deleteExchange` | `UpdateRollSite`, `PublishRollSite`, `DeleteRollSite`, `DeleteExchange` |
| `syncPartyToExchangeRollSite` | `Activate` |
| `resetParty`, `deleteParty` | `Reset`, `DeleteSite` |
| `updatePartyInfo`, `updateIpManagerPartyInfo` | `UpdatePartyInfo`; `EditAddress`, `EditExchange` |
| `queryExchange` | `QueryExchange` |
| `syncRouteTableInfo` | `SyncStart`, `SyncGet`, `SyncPass`, `SyncRead`, `SyncParty`, `SyncNext` |

An address stands for all that a row says of where a party is: the network access and the
two flags. Left out: the party with the id of the exchange's administrator; roll sites
that the database does not manage (their tables can be queried, nothing is written);
row locks, so that requests that would wait for each other meet at `Commit`. The
insertion of a party and of its relation by the timer, two statements that follow each
other, are one step. A bean that is sent with a roll site is about a party that has not
joined: `addExchange` checks it, and the front end offers nothing else for the others. Only
a short link brings a site to an exchange: the long-link activation calls nothing here. A
site is activated into an exchange that is known, because an exchange that sites of
status 1 or 2 use is not deleted (`exchangeUsingCount`).

`mishaps` records what the properties about undisturbed requests leave out: a request or a
call of the timer `failed`; a request began, or the timer read a table, while another
request was in progress (`crossed`); a party row was deleted whose relations were left
behind (`forgotten`, which `deleteParty` does for a site that has not joined). Each of
these breaks `JoinedIsRouted` in the code, see section 5.

### The session of Cloud Manager's front end

`stored` is the name in localStorage; `tabs[t]` the page on show, the navigation the
guard has not let go (`want`), `siteStatus` and `loginName` of the store, and the
overlay. `calls` are the requests whose tab has not handled the answer. What a handler
does is computed on a *world*, the name, its tab and what it sends: `Push` is
`router.push` with the guard of `permission.js`, up to where the navigation ends, is
dropped, is ignored because another has replaced it, or waits for `getStatus`. The
actions are what the user does (`Load`, `Visit`, `Follow`, `Click`), what the server and the
network do with a request (`Serve`, `Lose`, `Expire`), and `Receive`, which is the
interceptor and then the handler of the answer. A request can be lost on its way or its
answer can; a reload makes a request go on unheard. Left out: the language and the
browser's back button.

### Pages

`Page` holds what each page has: `view` (its data), `server` (what the manager stores, as
far as the page shows it), `calls` (the requests in the order they were sent, each with
the part of the page that asks), `busy` (the overlay). A page module has one action for
each thing the user does, built on `Click`; `Reply` and `Arrives` serve a request; an
action for each handler of an answer, built on `Handled`, which takes the overlay down;
and `Fail` and `Refuse`, for a request that does not come back and one the manager says no
to. Watchers and timers are actions that need no click. The answers of different requests
come in any order; of one kind too.

`mishaps` records what the properties about an undisturbed page leave out: a request
`failed`; two requests of one kind `overlapped`; one was answered before an older one of its
kind (`crossed`). Many properties leave these out, because no page numbers its requests: an
older answer that comes last is shown. Each says in its module which of them it leaves
out, and by which history field what else the code does not keep it through (section 5).

Data are small: an address is accepted or not, a name is a value, a list has two or three
rows. A page is what its components do together; a component with a state of its own in
every row (`ipexchangetable.vue`, `sitetable.vue`, the rows of `ipeditadd.vue`) has it in
`view` under that row's place, because that is how Vue keeps it: where an answer shifts
the rows, the state stays with the place. Fields of `view` that are history are named in
the head of their module.

`CloudSites`, `CloudAdministration` and `FateManager` show one page at a time: `section`
is the title of the page and `view` and `server` are that page's. A page that is left takes
its requests with it, so there is no step from one page to another; every page is an
initial state. The properties of the pages stand in their modules and are gathered in a
few invariants of the compositions, each a conjunction of "while this page is shown".

## 3. Runs

| Run | Instance | Shows |
|---|---|---|
| `serial` | 2 sites, 2 group sets, 2 party ids, one administrator, one installer with a long link | `ImplementsRegistry`; party ids unique (`ActivePartyUnique`) and in range (`ActiveSitesInRange`), `RangesDisjoint`, `used` exact and never above `total` (`UsedCountExact`) |
| `race` | 2 sites, one party id, two administrators, one installer; torn updates and deletions of users included | `RemovedIsFinal` however the requests cross |
| `short` | two installers with short links, an administrator who reactivates and edits group sets | `JoinedHasRoute`, `ImplementsRegistry` |
| `institution_delete` | an institution is deleted after one of its party ids went to another | **violation** of `RouteFollowsSite` |
| `authority` | 3 institutions, all scenarios, one application and one administrator's request at a time, one polling FATE Manager | `OneCurrentRow`, `ImplementsLedger`, and `AuthorityReachesManager`: the poll ends with the decision |
| `ip_sync` | one site, one user, one administrator who decides, one who edits, the task, one failure | `DecidedOnce`, `UsedIsDecided`, `DecisionIsLogged` whatever fails; `SettledAgree` where nothing does: both managers have the same settings, or differ by one agreed change of the secure status that never reached the party |
| `routes` | 2 roll sites, 2 exchanges, 2 parties, one request at a time beside the timer, one failure | `JoinedIsRouted` and `WaitingEditsKept` whichever requests come; `SyncConverges`: the database comes to agree with the tables |
| `cloud_session` | 2 tabs of one user | `ProtectedNeedsOrganization`, `NobodyWaitsInVain` whatever is lost; `NavigationEnds`, and `PutOut`: a tab that is told there is no session leaves the frame |
| `cloud_sites` | the 8 pages and dialogs of sites and exchanges | `OverlayEnds`, `ShownIsStored`, `SentBelongsTogether` |
| `cloud_administration` | the 9 pages and dialogs of settings and monitors | `OverlayEnds`, `ShownIsStored`, `SentKeepsRules` |
| `fate_manager` | the 4 pages of FATE Manager | `OverlayEnds`, `ShownIsCurrent`, `SentAsEdited`, `OneApplication` |
| `spans` | the tables of the site monitor, 2 institutions | **violation** of `SpansFit`: the spans of the table of the chosen institution's sites are those of another order of rows |

What the gathered properties say, page by page:

| Property | Page | Part | In words |
|---|---|---|---|
| `OverlayEnds` | all | `OverlayHasCall` | the overlay is up only while a request is under way that takes it down |
| `OverlayEnds` | `site.vue` | `SL!OverlayEnds` | the same as long as no request failed: this page raises the overlay by itself |
| `OverlayEnds` | both `jobMonitor.vue` | `OverlayHasEnd`, `OverlayHasAnswer` | or while the page's own timer runs; FATE Manager's, unless it has no period |
| `ShownIsStored` (sites) | `site.vue` | `AuthoritiesAreCurrent` | every institution has the authorities and the application that are stored |
| | `sitetable.vue` | `UnfoldedHasAsked`, `RowsAreCurrent` | a table that is unfolded has asked, and has the rows of its own last question |
| | `ipexchange.vue` | `TablesAreCurrent` | the table under an exchange has its roll sites |
| | `ip.vue` | `HistoriesAreCurrent` | the history in a row is that of its site |
| | `siteadd.vue` | `LinkOfSaved` | the link shown after a save is that of the site saved |
| `SentBelongsTogether` | `siteadd.vue` | `GroupOfSubmission` | role, group and party id of a submission belong together, unless the role was chosen before the site was loaded |
| | `site.vue` | `DecisionIsOfInstitution` | a decision is about an application of the institution it names, unless the function's state came next to requests of the user |
| | `ipaddrollsite.vue` | `UpdateIsOfRollSite`, `AddedIsOfNetwork` | the routes sent are those of the roll site, or of the network |
| | `ipaddexchange.vue` | `LeftIsStoredOrAgreed` | the page is left with the exchange stored, or with the user's consent |
| | `ipeditadd.vue` | `LimitKept`, `SavedAreAccepted` | what is saved is accepted, each address once, within the limit |
| | `ip.vue` | `CodeIsSent` | a switch is sent as its code, unless an update failed or another is on its way |
| `ShownIsStored` (settings) | `partyid.vue`, `certificate.vue` | `TableIsCurrent` | the table is that of the last search |
| | `partyuser.vue` | `RowsOfLastSearch`, `ChoicesOfRadio` | the same, and the institutions offered are of the radio button shown |
| | `switch.vue` | `SwitchIsStored` | a switch that was not confirmed is back |
| | `access.vue` | `ListIsOfRadio` | the list is that of the users shown |
| | `certiAddType.vue` | `CancelledIsForgotten` | a cancelled dialog leaves nothing |
| | `monitortoday.vue` | `PartsAgree`, `TablesAgree` | all parts are of one period and one institution |
| | `jobMonitor.vue` | `ChartsAreOfSelection` | the charts are those of the type selected |
| `SentKeepsRules` | `partyidadd.vue` | `SavedNameWasFree`, `SubmittedRangeIsTyped`, `EditRoundTrip` | the name saved was called free; the regions sent are what was typed, and typed again from what is stored |
| | `switch.vue` | `OnHasScenario` | the authorization that is on has a scenario |
| | `access.vue` | `UpdateIsOfManager` | an update is of one manager, unless the form was taken for another before the answer |
| | `certiAddType.vue` | `TypeNamesDiffer` | no two types have one name, unless one slipped past the dialog: typed with a blank, left in edit while a row above went, emptied, or edited in a dialog opened on a list that is not the manager's |
| | `certificate.vue` | `SitesAreOfInstitution` | a certificate names sites of its institution |
| | `jobMonitor.vue` | `SiteIsOfInstitution` | a search is for a site of the institution chosen |
| `ShownIsCurrent` | `cooperationdata.vue` | `AllOfPeriod`, `SiteTableComplete` | all of the page is of one period; the table has every site, its first cell and those of own sites whose names are not numbers, and spans that fit |
| | `jobMonitor.vue` | `JobsAreOfSearch` | the charts are those of the last search |
| | `sitemanage.vue` | `StatusIsCurrent`, `HistoryOnce` | the page knows whether an application waits; no history is shown twice |
| | `sitedetail.vue` | `WaitsForDecision`, `CancelRestores` | "under review" ends with the decision; a cancelled edit leaves nothing |
| `SentAsEdited` | `sitedetail.vue` | | what is sent for review is what the form shows, roll site and news apart |
| `OneApplication` | `sitemanage.vue` | | no second application while the page could know of one |

Bounds. *Registry*: two sites are needed for two to compete for a party id, two party
ids for a site to move, two group sets for ranges to meet and for `used` to be given
back to one and taken from the other. Ids of removed sites are not used again, so an
instance ends when all its sites are spent. `serial` leaves out the deletion of a FATE
Manager user (it never gives `used` back, and `UsedCountExact` fails as soon as the
operation is allowed) and torn updates of a group set (which leave `total` and the
ranges apart). `race` gives up the counts and keeps all of these.

*Authority*: three institutions, one guest and host, one guest, one host, so that every
scenario has pairs it allows and pairs it does not, and so that one review or
cancellation is about two institutions; `MaxBatches = 3` committed requests are an
application, its review and its cancellation, or two applications and a decision
between them. With two administrators `OneCurrentRow` fails (two reviews of one
application insert two copies), and with two institutions that apply to each other at
once one application disappears (section 5).

*IP changes*: the settings of two sites meet nowhere but in the bound, so one site is
enough; `MaxRows = 2` gives a case and an edit, two cases, or two edits of which only
the last is sent. Two entrances and flags of two values make eight settings; who enters
which is the constant `Choices`. The site starts with flags that differ, and the user
asks for a change of the secure status alone, the one that does not reach the party
(section 5), or of the entrances and both flags, which does: so the managers are left
apart by the first case, brought together again by the second, and not set apart when
they come the other way round. `Overlooked` says exactly what sets them apart; without
that disjunct TLC finds `SettledAgree` violated. `MaxFaults = 1` places one failure at
every step.

*Routes*: `Deployments` are the states that `addExchange` leaves when it is sent no
party: roll site `r1` in exchange `x1`, and `r2` in the same, in the other, or unused.
So a party can be on two roll sites of one exchange, can move between two exchanges,
and can be there before a roll site is added. `MaxEvents = 3` counts requests, failures
and crossings together: it gives three undisturbed requests (activate, edit, reset;
activate, add a roll site, move), or a request that crosses the timer and one after it.
One thread means that what a request crosses is the timer. With `MaxEvents = 4` the
invariants hold as well (3.6 million states).

*Session*: two tabs are what it takes for one to change the name the other reads;
`MaxSteps = 3` is a navigation that waits for the guard, one that replaces it and a click
in the other tab. The failures are not counted, every request may be lost.

*Pages*: `MaxSteps` counts what the user does and a request that fails, of which there is
at most one; each page adds to the base of 3 what its shortest interesting story needs, up
to 4, in the `INSTANCE` line of its composition (open a form, enter, leave a field, submit,
lose the answer, try again). Typing a name and leaving a dialog by its cross are not
counted (`Uncounted`), so that the sequences a rule is about fit: of certificate types one
is emptied, another gets its name and is saved; of managers the form is taken for another
while an answer is on its way. With each case of a premise taken out of it TLC finds the
property violated, so that the bounds reach what the premise is for. `MaxCalls = 2` is how many requests may be under way when the
user clicks: more come from one click and its handlers, so that two of a kind can overlap
and cross. Clicks are made only when the overlay is down, because it takes them; keys that
reach a focused input under it are left out. Two institutions, two or three rows and pages
of one or two rows are the smallest with a wrong choice, a shift of rows and a page that
becomes empty. The largest run, `cloud_administration`, has 2 034 000 distinct states,
`cloud_sites` 869 000 and `fate_manager` 828 000.

Requests that cannot proceed are refused, never blocked. `CHECK_DEADLOCK FALSE` is said of
the authority run, where nothing is left to do once every institution is deleted, and of
the front ends, whose user stops after `MaxSteps`.

Fairness. The safety runs of the registry assume none. `AuthorityReachesManager`
assumes that each FATE Manager goes on polling and storing (weak fairness of `PollRead`
and `PollStore`), `DecisionIsLogged` that the task goes on (weak fairness of
`TaskStep`): both run on a timer (`TaskDetector`, `cron.py`) that is started with the
server and never stopped, every exception in a task is caught, and HTTP requests time
out. `SyncConverges` assumes that the timer goes on (weak fairness of `SyncStep`): a
`@Scheduled` method fires every five minutes, and its gRPC calls end. That
requests end is not assumed but a premise of the property. `NavigationEnds` and `PutOut`
assume that some request that can be served is served and some answer that can be handled
is handled (weak fairness of `Serve` and `Receive`): axios gives up on a request after a
time, and handlers run. Since the calls of the user are bounded, every one is. The page
runs assume no fairness. Nothing is assumed of users, installers or administrators.

## 4. Proofs

All are checked by TLAPS for every value of the constants that meets the named
assumptions of the modules.

**Registry** (`SiteRegistry_proofs`, about the atomic registry). `TypeCorrect`,
`PartyIdsUnique`, `SitesInRange`, `GroupRangesDisjoint`. The last three come from one
inductive invariant, `IInv == TypeOK /\ ActivePartyUnique /\ ActiveSitesInRange /\
RangesDisjoint`. None of the parts is inductive alone: whether a group set may be
deleted or shrunk is decided by the party ids in use inside its ranges, which says
something about the sites of *that* group set only because ranges do not meet and
sites are inside theirs. The assumptions are that `None` is not an id and that sites
and party ids are finitely many (`NoneAssumption`, `FiniteAssumption`). `UsedCounts` adds
`Counted`, that `used` is the number of registered sites of a group set and at most its
`total`, for every behaviour without `DeleteFateManagerUser`: that step removes sites and
gives nothing back.

**Requests of the registry** (`SiteRequests_proofs`). `TypeCorrect`; `RemovedStays` proves
`RemovedIsFinal` where sites are activated with long links, for any number of
administrators and installers whose requests cross at every query and commit. The
assumption `"short" \notin Links` is needed: a short link writes a whole row back. The
invariant adds to the types what a request knows of the row it names (`Named`): a
site that is updated has a row, which `RowsStay` says no other request takes away, so the
commit of an update, which asks for no status, never makes half a row. Every commit of
another kind writes a status to rows it finds active when it writes, or makes them removed.

**The requests implement the registry** (`SiteRequests_proofs` too).
`RequestsImplementRegistry` proves `ImplementsRegistry`, and with it `PartyIdStaysUnique`,
`RangesStayDisjoint`, `SitesStayInRange`, `UsedStaysExact` and `JoinedStaysRouted` prove the
invariants of `serial` and `short` for the requests as they run, with any number of
installers, sites, group sets and party ids. Each assumes `OneAtWork`, whose parts the code
does not do without: with a second administrator the checks of two requests cross; a failed
`updateGroup` leaves its total without its ranges; a short link writes a whole row back,
over any edit or removal since it was read. The runs are instances of it.

A commit takes the abstract step, and a query takes none. What has to be shown of a commit
is that the conditions its request asked about, in other transactions and before other
requests of installers, still hold. `Detail` says that, label by label: `KnowsSite` and
`KnowsGroup` are the conditions established so far, `Current` that the snapshot differs from
the tables at most in whether a site has joined, `RowsCurrent` the same of the rows a short
link has read. The inductive invariant is `Inv`: the types,
`Detail`, and the invariant of the atomic registry read through the refinement mapping
(`Proved!IInv`). `Proved` is an instance of `SiteRegistry_proofs`, so the theorems
about the atomic registry serve again: each step of a request is a step there
(`NextSteps`), and that step keeps the registry's part. `updateGroup` takes its step when
it writes the total, because the mapping gives the group set its new ranges from then on.
TLC had confirmed `Detail` on an instance of each kind of link before it was proved.

`UsedStaysExact` assumes besides that no FATE Manager user is deleted (section 5), and shows
that each commit is one of the registry's counting steps. `JoinedStaysRouted` is about short
links, as the run is: `resetParty` resets the party of *the* site that holds the party id,
so the proof needs that there is only one.

**Authority** (`SiteAuthority_proofs`). `TypeCorrect`; `OneRowCurrent` proves
`OneCurrentRow` for the transactions, under `Serial`: one FATE Manager and one
administrator send requests at a time. The inductive invariant adds to the table what
a transaction in progress can rely on: `ChecksHold`, nothing an application bears on has
become live since its check (only another application could make it so, an
administrator's request never does); `ReadsHold`, what an administrator's request has
read is still current; `RolesKept`, which thread does what. Two institutions that apply
to each other show why `Serial` is needed for applications, two reviews of one
application show it for administrators.

`LedgerKept` proves `ImplementsLedger` under the same `Serial`. `Decision` maps the rows to
the ledger; by `OneCurrentRow` its `CHOOSE` has one row to choose (`ShownRow`). A reading,
a rollback and a poll stutter; each commit is the ledger's step of the same name
(`ApplyIsApply`, `ReviewIsReview`, `CancelIsCancel`, `LeaveIsLeave`). What a commit
writes comes from rows read earlier, so `ReadsHold`, which says they are still current,
is not enough: `RequestsStand` adds that they are still *all* there is. What a review has
read is all that is pending for the institution, what a deletion has read holds all that is
approved, and an applicant has nothing pending. The last two keep up the first: an
application that would add a pending row under a review cannot be under way, since its
check and the review's contradict each other. TLC had confirmed `RequestsStand` before.

**IP changes** (`IpSync_proofs`). `TypeCorrect`; `DecisionIsFinal` (`DecidedOnce`) and
`SettingsAreDecided` (`UsedIsDecided`), for any number of sites, users, administrators
and failures. `DecisionIsFinal` rests on the ids of the rows being unique: the update of
one case cannot meet another. `SettingsAreDecided` follows each copy of a setting back to a row:
`LogsHaveCases` for the change log, `LocalDecided` for the row in use and what waits to be
taken over, `RequestsDecided` and `TaskDecided` for the copies that requests and tasks
hold between two steps. That a step keeps all of these at once is the lemma `Kept`:
every row of the table is followed by a row with the same id, site and settings, a
case that is decided stays as it is, and an edit stays an edit.

`SettledSitesAgree` proves `SettledAgree` for any number of sites, settings, rows and editors
under `OneEach`: one user, one administrator who decides. A second user asks while the
first is between the check and the lock, and a second administrator writes the site
though the case is decided; each leaves the two managers apart. Its invariant follows a
case from its insertion to the write of the FATE Manager that applies it (`Live`). Of a site that
Cloud Manager has not edited (`InStep`) there is at most one such case; while there is one, the
site is locked or the user is about to lock it (`Locked`), so no other can be asked for
(`Asking`); and both managers have the same settings or differ by an overlooked case, but for
a case that is agreed and not yet applied, whose settings are those of Cloud Manager, or
are about to be overlooked (`SameSettings`, `LeavesParty`). That one existential describes
every difference is because a case is asked for with the settings of Cloud Manager as
its old ones: a second change that leaves the party alone can only be to the same secure
status, and any other brings the party up to date. Sites that were
edited drop out for good: `safe_save` writes back a row it has read, lock
included. TLC confirmed `Agreement` on the instance of the run. The
assumptions of the module are that `None` is no setting, exchange, request or place of the
task, and that each site is registered with one setting in both its rows.

**Exchanges** (`ExchangeRoute_proofs`). `TypeCorrect`; `EditsKept` proves
`WaitingEditsKept`. The timer writes back the row it has read, with the status it had;
that it overwrites nothing depends on the row being the same still, which is the part
`SeenIsCurrent` of the inductive invariant: unless something crossed, the row the timer
has read of a party it has yet to treat is the row of that party. A commit could
change it, so the other part, `NoneBusy`, says that nothing is in progress while the
timer holds what it has read.

`JoinedStaysRouted` proves `JoinedIsRouted`. The property says nothing of a request in
progress, and little of parties that have not joined, so it is far from inductive. What a
request may count on when it begins is `Settles`: a relation has a row and a managed roll
site, a route has a relation, a joined site is published and on the roll sites of its
exchange only. The second is what `Activate` needs: it takes a party off the roll sites it
is related to, and no other may have a route of it. What holds of a request in progress is
`LeavesSound`: whichever of its pushes are still to be made, when they have been made and
the effect is committed, `Settles` holds. There are two halves to the proof. One, with a
lemma for each of the 13 requests, shows that what a request computes from a database and
tables that settle leaves them settled (`MovedIsSound` serves the four by which a party
changes its roll sites, `PublishedSound` all the parties they publish on the way). The
other shows that pushes, the commit and the timer keep it: a push only turns a table to
come into a table (`PushLeft`), the rows a request expects to insert are still missing
(`FreshIsCurrent`), and a round of the timer finds no route that the database does not
list, and no joined site without its route (`SyncPartySettles`). TLC had confirmed the
invariant for one and for two threads. The constants are restricted only by
`ExchangeAssumption` (the names of the two unmanaged places are no exchange) and by `None`
being no row, address, exchange, site or request.

**Session** (`CloudSession_proofs`). `TypeCorrect`; `ProtectedSafe` proves
`ProtectedNeedsOrganization`; `NobodyLockedOut` proves `NobodyWaitsInVain`, for any number of
tabs and of things the user does; the only assumption is that `MaxSteps` is a number. A
page of the frame is let in by the cached status, so the invariant says that a tab that
*believes* the organization registered is right, and that every answer on its way that
would make it believe so is right too. That nobody is locked out is a property of the
code between two steps as well: `Sound(w, K, x)` says of a world in the middle of a handler
that the requests `K` its tab still has, and those it has sent, end what it waits for, but
for the navigation to `x` that the answer in hand is about. Each piece of a handler
(`Request`, `Enter`, `Moved`, `Cleared`, `Push`, `Intercepted`, `Handled`) has a lemma that takes a
sound world to a sound one; in `GuardAnsweredSound` the navigation `x` is settled, because
`RouteHandlerFits` shows that an answer about the navigation under way is never ignored.

**Pages of FATE Manager** (`FateManager_proofs`). `TypeCorrect`; `OverlayHasEnd` proves
`OverlayEnds`, `SiteSentIsShown` proves `SentAsEdited` and `OneAtATime` proves
`OneApplication`, for any institutions, values, rows and number of steps and of requests
under way. Every step of a page moves its requests in one of five ways (`Moves`): it leaves
them, sends some, has one answered, takes over an answer and sends what the handler
sends, or takes one away that failed. Each page has a lemma that its steps do no more, and
from `Moves` alone follow, for all pages, that the requests are the page's own with
answers a request can get (`CallsInv`) and that the overlay has a request that takes it down; the
page of the jobs, which raises the overlay by a timer of its own, has `JobsStep` besides.

What is sent of a site depends on a copy of the switches made when a dialog opened, many
steps before; `SiteInv` says that while the question is open the copy is the form's
(`CopyFits`), which holds because every handler that writes the form finds the dialogs
closed, or the roll site edited, or news taken over: the two exceptions of the property. It
also says that the manager stores codes, not booleans, without which the form would not be
what `toSwitch` makes of it.

`OneApplication` is about an application of which the page has not been told. `SitesInv`
says that, with nothing failed or overtaken, a page that does not show the application that
waits will know (`WillKnow`): a question about the applications is under way, and behind every
answer on its way that says that none waits there is another question. Each action is one of
four cases: the requests it sends are fresh (`KnowsSent`), the answer is about something else
(`KnowsHandled`), the application has been stored and the lists are asked for again
(`KnowsAsked`), or the answer is the state itself (`KnowsState`).

**Pages of Cloud Manager's sites** (`CloudSites_proofs`). `TypeCorrect`; `OverlayHasEnd`
proves `OverlayEnds` and `SentTogether` proves `SentBelongsTogether`, for any institutions,
groups, steps and requests under way and any limit of the address field. The assumptions
are that the institutions are finitely many, that groups have the form `GroupsAssumption`
gives them, and that the limit is at least two. `Moves` and `CallsInv` are those of FATE
Manager's pages, and one lemma takes the overlay from them for every page but the list of
the sites. That page raises the overlay by itself for a question that takes nothing down,
so `SlEnds` says that what is under way ends it *or asks for what ends it*: the list, then
one authority after the other, of which only the last takes it down.

What a page sends was put together over many steps and from several answers, so
`SentBelongsTogether` needs an invariant for each page; `IInv` has a disjunct for each
section. They leave out what the property leaves out.

- `siteadd` (`SfShape`, `SfFair`): while nothing was chosen ahead, the role of the form is
  the role of everything under way, the group that is chosen is of that role, and its range
  is the one the party id is checked against as soon as there is something to submit.
- *Site Manage* (`SlPlain`, `SlFair`): the questions take turns, and whatever a dialog shows
  is of the institution it was opened for, whose stored authorities change only by
  its own decision.
- `ipaddrollsite` (`RfInv`): unless the dialog is `crowded`, at most one request is under
  way, and the rows on show are of the roll site or network they will be sent with. The
  dialog that adds is never crowded, it has no timer.
- *Add an Exchange* (`EfInv`): `isleave` is set only by consent or by the answer to an
  addition that was stored.
- `ipeditadd` (`AlInv`): the watcher that disables the button at the limit runs in the same
  step as what lengthens the list; what is in the field was accepted, each once, or is empty.
- *IP Manage* (`IcInv`): the form holds a switch and not its code, unless what it holds is
  on its way. Sending turns the switch into a code in the form itself.

What a page shows is picked from what the manager stores, in the order of its ids and a
page at a time. `AscendingLists`, `PickedRows` and `EnumeratedSet` say that the sequences so
made exist and hold what they should; the first is by the least element of a set of numbers.

Only model-checked: `ShownIsCurrent` of FATE Manager, one part of which
(`SiteTableComplete`) is about what a fold computes over any list, which takes induction
over data; `ShownIsStored` of the sites' pages; the properties of `CloudAdministration`; and the liveness properties, which are out of the
prover's reach. No module uses a `RECURSIVE` operator.

## 5. What the models show about the code

Two violations are runs: `institution_delete` and `spans`. Others were met on the way. They
follow from the models, by a run that was not kept or by the premise a property needs; none
is checked by a run of this project.

Cloud Manager and FATE Manager:

- Two administrators add a site at once with one party id: the id is checked and the row
  inserted in different transactions, and both sites are registered.
- A short-link activation (`shortLinkActivateSite`) writes back the whole row it has read:
  a site that is deleted in between comes back.
- Two institutions apply to each other at once: the later application retires the earlier
  one, which its snapshot did not show.
- An edit is marked as fetched before it is sent (`queryUpdateIpModify`): when the answer is
  lost the FATE Manager never gets it.
- `dealIpModify` compares the new secure status with the old *polling* status
  (`FederatedIpManagerService.java:150`): a change of the secure status alone, to what the
  polling status is, does not reach the party, and the FATE Manager uses it.
- Two administrators review one application at once: both insert their copies, and the
  pair has two current rows.
- Two administrators agree to and reject a case at once: the second leaves the case
  alone but has already written the site (`dealIpModify` does not look at the number of
  rows it updates).
- `update_site` locks the site after Cloud Manager has the case: when the case is decided
  and polled in between, the site stays locked for ever. A restart between the two writes
  of `get_change_log_task` has the same effect, and the agreed settings stay unused.
- The answer to a new case is lost: Cloud Manager decides a case its FATE Manager does not
  know, and the settings stay apart.
- Of several edits that were not fetched only the last is sent, though each holds only
  what it changed.
- `deleteFateManagerUser` removes sites and never gives back their share of `used`.
- `updateSite` writes by id after its check was made in another query: a site that was
  activated meanwhile is edited although it is joined. The last query of `activateSite`
  looks the site up again by party id, which may have changed hands.
- `updateGroup` fails half way: the group set is left with its new total and without
  ranges. A site can be added to a group set that is deleted meanwhile, and two group
  sets with meeting ranges can be added at once.
- A party on several roll sites is edited on one and published on that one: its only row
  becomes published (`status` is "1 publised,2 modified, 3 to be deleted" for all of them),
  the other roll site keeps the old address, and each round of the timer writes the address
  of one and then of the other into the row.
- The timer fetches a table before an activation pushes to it and compares it with the
  parties after the activation has committed: it takes the party off the roll site, and
  the next table published there does not route it. A round that crosses an edit writes
  the row back as it was.
- A request pushes tables and then fails: the roll sites route what the database does not
  know, until the timer turns that into the truth.
- `deleteParty` does not find the roll sites of a site that has not joined: relations and
  routes stay, and are there again when the party id is used again in another exchange.
- `updateRollSite` does not check, as `addRollSite` does, whether a party is in another
  exchange.
- `FederatedJobStatisticsMapper.xml:32` and `:33` have the columns of waiting and failed jobs
  in each other's place (read, not modelled).

Front end of Cloud Manager:

- *Session*: a request that never comes back does not sign the tab out, though the comment
  at `request.js:130` says so: the error branch throws in `setErrorMsgToI18n` before it would.
- *`siteadd.vue`*: a party id entered before the range of its group is known is never
  checked; the switch of the encryption is turned into a code also when the form is refused;
  the guard against leaving is never removed, and blocks the push of a sign-out as well. A
  role chosen before the site was loaded stays in the form, while the groups offered are
  those of the role that is stored.
- *`site.vue`*: when a request of the authorities is refused, the overlay the page raised
  itself stays until a reload.
- *`sitetable.vue`*: in a fresh browser the first unfolding asks nothing; without the
  function the tables are reused by place.
- *`ipexchange.vue`*: after a deletion the tables shift: for 500 ms and a request a table shows
  the rows of the exchange before under the new one, and deletes and publishes those. A page
  number is kept when the rows disappear.
- *`ipaddrollsite.vue`*, *`ipaddexchange.vue`*: changing the network keeps the rows, and it can
  be sent empty; a check that was true once is never cleared; temporary rows are found by
  place although a row is put before them, so that the row edited is not the row clicked.
- *`ipeditadd.vue`*: deleting a row while another is in edit makes it possible to save an
  empty address.
- *`ip.vue`*: a submitted update leaves its code in the form: the next attempt, after a failure
  or before the answer, sends it as a switch, "on"; the page shows the old table when the user comes back from the exchanges.
- *`partyidadd.vue`*: a range that was in use stays marked after it was corrected.
- *`switch.vue`*: clicked again after a cancel, before the quiet answer, the authorization is
  turned on without a scenario.
- *`access.vue`*: both lists are asked for at load, and the total can be that of the other; a
  search keeps the page number; a late default network overwrites that of the manager on
  show; a late answer to an addition mixes two managers, and so does the timer that brings
  the details back after an update, when "add" has emptied the name meanwhile.
- *`certiAddType.vue`*: Enter in an empty field deletes the first row; names are compared with
  their blanks and stored without; a type whose name is emptied leaves the dialog only
  (`certiAddType.vue:164`, `closeEntrances` passes no id), another takes its name, and the
  manager, which looks for equal names only when a type is new, stores both; the same after
  the dialog was opened again behind its cross, or before the list came; after a failed save a retry inserts a type twice; the
  cross keeps names that were not saved.
- *`certificate.vue`*: after a failed save the period is split again, into its first two
  characters, and refused. The status is sent with an update: what was published meanwhile
  becomes unpublished, what was revoked is valid again.
- *`monitortoday.vue`*: paging through the institutions asks for the totals only; an empty list
  would throw.
- *`jobMonitor.vue`*: the charts are copied 300 ms after the summary whether they have come or
  not, and never again; clearing the period throws in the watcher; a site of the institution
  before can be chosen while the new ones are under way.

Front end of FATE Manager:

- *`sitedetail.vue`*: required fields are marked but sent empty. When the roll site is edited
  too, the switches sent are those of the last submit without it; when nothing but those
  two is edited, the change of the switch is dropped; news taken over while the submission
  is asked about reach the form and not the switches that are sent. After taking over Cloud Manager's
  news, a cancelled edit brings back what they replaced, and the next submit sends it. A
  notice closed by its cross, or a poll that fails, leaves the page "under review" until a
  reload. Several polls can run, only the last timer is cleared.
- *`sitemanage.vue`*: every institution that ever agreed counts as applied for, so an
  application to one that has cancelled leaves it out silently; a fast user can open a second
  application before the first answer; the pager of the history asks for everything but the
  history.
- *`cooperationdata.vue`*: the cell of a further own site is looked for in the third field of
  its row (`Object.keys(same)[2]`, line 535), but a field whose name is a number comes
  first: a cell of an own site with such a name is lost, and shown as 0, unless it is the
  first of its row (`ThirdField`). Two sites of one name share a row, and of names that
  differ in case only one is kept; the page numbers stay when the period changes.
- *`jobMonitor.vue`*: choosing a site after the date was cleared raises the overlay and
  sends nothing: the page is blocked until a reload.

## 6. What could come next

1. `ExchangeRoute` takes the place of `PublishParty` in `SiteRequests` and of
   `RouteTouched` in `IpSync`; an abstract route directory that its undisturbed requests
   implement.
2. FATE Manager users: invitation, activation and reactivation, beside the deletion that
   `SiteRegistry` has. Property: a deleted institution stays deleted.
3. Registration as FATE Manager sees it (`site_service`): a joined site is known to its
   manager, with a crash between the two databases.
4. A page composed with the service it asks: `site.vue` with `SiteAuthority`,
   `sitedetail.vue` with `IpSync`. Both sides are in this directory, with a `server` of one
   variable in between.

Theorems left: `ShownIsStored` of the sites' pages; type correctness and `OverlayEnds` of
the pages of `CloudAdministration`, from a lemma `Moves` for each of them.

## 7. Not modelled

Of the services: Cloud Manager users, certificates, product versions, functions,
organisation, models and drop-downs are single rows without rules between them. Job
statistics and the site monitor are sums over rows that are pushed. Log-in and tokens of
the FATE Manager and its roll-site configuration keep no state that the others depend on.
Signatures are modelled by who may send a request.

Of the front ends: FATE Manager's session has the shape of Cloud Manager's with a token in
a cookie instead of a name; two things differ and are not in a model. Its guard asks for
the user when it has a token and no name, and signs out when that fails, but nothing
catches a sign-out that fails, and the navigation hangs. An answer with code 20002 shows a
message and resolves with nothing: a test is taken for a success and the dialog of FATE
Flow stays. The user pages of FATE Manager, the export of lists, the download of
certificates and the drawing of charts are left out. The deployment pages of FATE Manager
and Cloud Manager's `systemmanage.vue` and `siteaddip.vue` have their routes commented out,
`repository.vue` is static: no user reaches them. Translations, icons and styles have no
rules of their own.

Scripts and schemas of the deployment appear as the variables of the modules.
