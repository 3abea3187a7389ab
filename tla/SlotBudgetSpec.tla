---------------------------- MODULE SlotBudgetSpec ----------------------------
(***************************************************************************)
(* The abstract specification of payload accounting: any sequence of the   *)
(* operations of SlotBudget, by any connection.                            *)
(***************************************************************************)
EXTENDS SlotBudget

CONSTANT Sizes   \* the byte counts operations ask for

VARIABLE budget

BudgetInit == budget = NewBudget

BudgetNext ==
    \E c \in Owners, n, m \in Sizes, allocated \in BOOLEAN :
        \/ budget' = BudgetGrowRequest(budget, c, n).budget
        \/ budget' = DropSlot(budget, c, "request").budget
        \/ \E k \in {"tls", "wsUp", "wsDown"} :
               budget' = BudgetSync(budget, c, k, n).budget
        \/ budget' = BudgetSetResponse(budget, c, n, allocated).budget
        \/ budget' = BudgetShrinkResponse(budget, c, n).budget
        \/ budget' = BudgetTakePair(budget, c, n, m, allocated).budget
        \/ budget' = BudgetReplaceUpstream(budget, c, n, allocated).budget
        \/ budget' = BudgetDropAll(budget, c)

BudgetSpec == BudgetInit /\ [][BudgetNext]_budget
=============================================================================
