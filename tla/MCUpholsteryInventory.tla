------------------------- MODULE MCUpholsteryInventory -------------------------
(* UpholsteryInventory with interchangeable items, requirements and orders.     *)
EXTENDS UpholsteryInventory

\* Fabric of the house, fabric the customer brings, and a fabric still to be chosen.
SomeSelections ==
  {<<"INTERNAL", f>> : f \in Fabrics \cup {None}} \cup {<<"CUSTOMER", None>>}

Symmetric == Permutations(Items) \cup Permutations(Slots)
================================================================================
