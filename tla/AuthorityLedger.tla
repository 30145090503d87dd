-------------------------- MODULE AuthorityLedger --------------------------
(***************************************************************************)
(* What the authority requests of FederatedAuthorityService promise: for   *)
(* every two institutions one decision, reached by applying, reviewing and *)
(* cancelling.  grant[<<x, y>>] is the decision about x seeing the sites   *)
(* of y.  SiteAuthority, which keeps rows in a table and reads them in     *)
(* snapshots, implements it.                                               *)
(***************************************************************************)
EXTENDS Integers, FiniteSets

CONSTANTS
    Institutions,   \* institutions with a FATE Manager
    Guests,         \* those with guest sites
    Hosts,          \* those with host sites
    Scenarios       \* the site-authority scenarios of this instance, a subset of 1..3

VARIABLES
    scenario,       \* 1 mix, 2 homo, 3 hetero: chosen once
    grant           \* grant[<<x, y>>]: what became of x's applications to y

vars == <<scenario, grant>>

Pairs == {p \in Institutions \X Institutions : p[1] # p[2]}
Status == {"pending", "approved", "rejected", "cancelled"}
Live == {"pending", "approved"}

Reverse(p) == <<p[2], p[1]>>

\* In the mix and homo scenarios an authority holds both ways: the rows of
\* either institution are looked up and replaced together.
Covered(sc, p) == IF sc = 3 THEN {p} ELSE {p, Reverse(p)}

\* Which institutions may apply to which: getInstitutionsType, then the checks
\* of the scenario.
MayApply(sc, x, T) ==
    CASE sc = 1 -> TRUE
      [] sc = 2 -> x \in Guests /\ T \subseteq Guests
      [] sc = 3 -> x \in Guests /\ T \subseteq Hosts

With(v) == {p \in Pairs : grant[p] = v}

Init ==
    /\ scenario \in Scenarios
    /\ grant = [p \in Pairs |-> "none"]

\* Decide the pairs in P and drop what was decided the other way round.
Decide(P, v) ==
    [p \in Pairs |-> IF p \in P THEN v
                     ELSE IF \E q \in P : p \in Covered(scenario, q) THEN "none"
                     ELSE grant[p]]

Apply(x, T) ==
    /\ MayApply(scenario, x, T)
    /\ \A p \in With("pending") : p[1] # x
    /\ \A y \in T, p \in Pairs : p \in Covered(scenario, <<x, y>>) => grant[p] \notin Live
    /\ grant' = Decide({<<x, y>> : y \in T}, "pending")
    /\ UNCHANGED scenario

\* All pending applications of x are reviewed together.
Review(x) ==
    /\ \E p \in With("pending") : p[1] = x
    /\ grant' \in [Pairs -> Status \cup {"none"}]
    /\ \A p \in Pairs : IF p[1] = x /\ grant[p] = "pending"
                        THEN grant'[p] \in {"approved", "rejected"}
                        ELSE grant'[p] = grant[p]
    /\ UNCHANGED scenario

\* Only what is approved can be cancelled, and only once.
Cancel(P) ==
    /\ \A p, q \in P : q \in Covered(scenario, p) => p = q
    /\ grant' = Decide(P, "cancelled")
    /\ UNCHANGED scenario

\* The deletion of an institution ends all it has to do with.  What was there
\* when the deletion began is left as cancelled; of an application that came in
\* since nothing may be left.
Leave(x) ==
    /\ grant' \in [Pairs -> Status \cup {"none"}]
    /\ \A p \in Pairs :
        CASE x \in {p[1], p[2]} /\ grant[p] = "approved" -> grant'[p] = "cancelled"
          [] x \in {p[1], p[2]} /\ grant[p] = "pending" -> grant'[p] \in {"cancelled", "none"}
          [] OTHER -> grant'[p] = grant[p]
    /\ UNCHANGED scenario

Next ==
    \/ \E x \in Institutions, T \in SUBSET Institutions :
        x \notin T /\ T # {} /\ Apply(x, T)
    \/ \E x \in Institutions : Review(x)
    \/ \E P \in SUBSET UNION {Covered(scenario, p) : p \in With("approved")} : Cancel(P)
    \/ \E x \in Institutions : Leave(x)

Spec == Init /\ [][Next]_vars
=============================================================================
