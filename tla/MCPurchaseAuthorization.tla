----------------------- MODULE MCPurchaseAuthorization -----------------------
(* Three requests of one planned cost; requests and files are interchangeable. *)
EXTENDS PurchaseAuthorization, TLC

PlannedCosts == [r \in Request |-> 4]
Symmetry == Permutations(Request) \cup Permutations(File)
=============================================================================
