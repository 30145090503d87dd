------------------------------ MODULE MCIpSync ------------------------------
(* Instances of IpSync for TLC.                                            *)
EXTENDS IpSync

\* All sites are registered alike, with flags that differ.
First ==
    LET e == CHOOSE e \in Entrances : TRUE
        f == CHOOSE f \in Flags : TRUE
        g == CHOOSE g \in Flags : g # f
    IN  [entrances |-> e, polling |-> f, secure |-> g]
OneSetting ==
    LET x == CHOOSE x \in Exchanges : TRUE
    IN  [s \in Sites |-> [entrances |-> First.entrances, net |-> First, exchange |-> x]]

\* A user asks for another secure status, or for other entrances and flags; an
\* administrator enters what there was or the latter.
Unsecured == [First EXCEPT !.secure = First.polling]
Elsewhere ==
    [entrances |-> CHOOSE e \in Entrances : e # First.entrances,
     polling |-> First.secure, secure |-> First.polling]
FewChoices ==
    [t \in Users \cup Editors |-> IF t \in Users THEN {Unsecured, Elsewhere}
                                  ELSE {First, Elsewhere}]
=============================================================================
