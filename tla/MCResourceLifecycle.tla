------------------------ MODULE MCResourceLifecycle ------------------------
(* Small instances of ResourceLifecycle for TLC.                           *)
EXTENDS ResourceLifecycle

\* The types that forget what is gone and whose updates return, with the
\* attributes that are both sent and read back.
Converging ==
    { [r EXCEPT !.attributes = [@ EXCEPT !.unsent = {}, !.ignored = {},
                                         !.panicking = {}]] :
        r \in AllResources \ {Team, MutingRule, EmailTemplate} }

JustTeams == {Team}
=============================================================================
