-------------------------- MODULE MCListingPlan --------------------------
EXTENDS ListingPlan

CONSTANTS p1, p2, e1, k1, k2, s1, s2, ta, tb

Item(k, t, m) == [key |-> k, terms |-> t, mode |-> m, slot |-> s1, was |-> ta]

NoneOrAll == { [k \in Keys |-> NoOrders], [k \in Keys |-> [s \in Slots |-> ta]] }
OneItem  == { [i \in Items |-> Item(k1, tb, "none")] }

=============================================================================
