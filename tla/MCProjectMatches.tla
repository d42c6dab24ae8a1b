------------------------ MODULE MCProjectMatches ------------------------
(* ProjectMatches for TLC.  The instance is explored in three scenarios:   *)
(* two people on one project, with a crash; one person and two projects;   *)
(* one person with one command more.  What is cut off is a command, a      *)
(* crash or the sweep's choice of a project, none of which must happen.    *)
EXTENDS ProjectMatches, TLC

Touched(p) ==
    \/ OnProject(p) \/ sent[p] # "no" \/ p \in shut
    \/ \E m \in Rows : matches[m].project = p
    \/ \E t \in Threads : th[t].project = p

OneProject == \A p \in Projects : Touched(p) => p = CHOOSE q \in Projects : TRUE
OnePerson == \A h \in People : th[h] # Idle => h = CHOOSE k \in People : TRUE

Scenarios ==
    \/ OneProject /\ commands <= 2
    \/ OnePerson /\ trouble = 0 /\ (OneProject \/ commands <= 2)
=============================================================================
