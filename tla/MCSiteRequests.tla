--------------------------- MODULE MCSiteRequests ---------------------------
(* SiteRequests on small instances; the ids of one kind are interchangeable. *)
EXTENDS SiteRequests, TLC

Symmetry == Permutations(Sites) \cup Permutations(Groups) \cup Permutations(PartyIds)
            \cup Permutations(Institutions) \cup Permutations(Admins)
            \cup Permutations(Installers)
=============================================================================
