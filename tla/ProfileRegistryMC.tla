------------------------ MODULE ProfileRegistryMC ------------------------
(* The CEO and two more profiles, two clients, and updates that the UI's   *)
(* PATCH request can carry: a demotion, or a promotion to CEO, with or     *)
(* without another parent.                                                 *)
EXTENDS Integrity, TLC

MCCreations ==
    [role : {"department_head", "project_manager"}, parent : Name, status : {"onboarding"}]
        \cup [role : {"ceo"}, parent : {NoName}, status : {"active"}]

MCUpdates ==
    [role : {"specialist", "ceo"}, parent : {Keep, NoName} \cup Name, status : {Keep}]

Symmetry == Permutations(Name \ {Hermes}) \cup Permutations(Client)
=============================================================================
