-------------------------- MODULE MCRuntimeService --------------------------
(* Bounds for the model checker: one kind of run per budget.               *)
EXTENDS RuntimeService

None == [session |-> 0, activation |-> 0, stop |-> 0, requests |-> 0, faults |-> 0,
         host |-> 0, permanent |-> FALSE]
AllBudgets ==
    {[None EXCEPT !.session = 3],
     [None EXCEPT !.session = 2, !.faults = 1, !.permanent = TRUE],
     [None EXCEPT !.session = 1, !.requests = 2, !.faults = 1, !.host = 1],
     [None EXCEPT !.session = 1, !.activation = 1, !.requests = 1],
     [None EXCEPT !.session = 2, !.activation = 1],
     [None EXCEPT !.session = 1, !.activation = 1, !.stop = 1],
     [None EXCEPT !.session = 1, !.stop = 1, !.faults = 1, !.permanent = TRUE],
     [None EXCEPT !.session = 1, !.activation = 1, !.host = 1]}
=============================================================================
