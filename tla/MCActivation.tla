---------------------------- MODULE MCActivation ----------------------------
(* Bounds for the model checker: three failing calls, or two failing calls  *)
(* and another program that acts twice, and the power may fail in each.    *)
EXTENDS Activation

Troubles == {[faults |-> 3, rivals |-> 0], [faults |-> 2, rivals |-> 2]}
AllBudgets ==
    {[action |-> a, existed |-> e, noreplace |-> n, crashes |-> 1,
      faults |-> t.faults, rivals |-> t.rivals] :
        a \in {"replace", "remove"}, e \in BOOLEAN, n \in BOOLEAN, t \in Troubles}
=============================================================================
