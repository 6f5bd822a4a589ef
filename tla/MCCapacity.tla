----------------------------- MODULE MCCapacity -----------------------------
(***************************************************************************)
(* The scheduler over four tasks whose bundles clash as their claims do:   *)
(* a holds a directory in which b writes a file, by the capital spelling,  *)
(* and of which d reads another.  c waits for a, b is driven through       *)
(* the interface, and so are the verifiers of b and d.  Every two claims   *)
(* are compared; the scheduler runs where the two are those of a and b.    *)
(***************************************************************************)
EXTENDS Capacity, Claims

MCOrder == <<"a", "b", "c", "d">>
MCNeeds == [a |-> {}, b |-> {}, c |-> {"a"}, d |-> {}]
MCWeight == [a |-> 0, b |-> 1, c |-> 0, d |-> 0]
MCGui == {"b"}
MCGuiChecked == {"b", "d"}

MCCapital == [X |-> "x"]

ClaimOf ==
    [a |-> [kind |-> "directory", target |-> <<"x">>, access |-> "exclusive"],
     b |-> [kind |-> "path", target |-> <<"X", "y">>, access |-> "write"],
     c |-> [kind |-> "glob", target |-> <<"y", "**">>, access |-> "write"],
     d |-> [kind |-> "path", target |-> <<"x", "x">>, access |-> "read"]]

MCClash ==
    {pair \in kSubset(2, DOMAIN ClaimOf) :
        \E t, u \in pair : t # u /\ ClaimsConflict(ClaimOf[t], ClaimOf[u])}

MCInit == CapacityInit /\ ClaimsInit

MCNext ==
    /\ left = ClaimOf["a"] /\ right = ClaimOf["b"]
    /\ CapacityNext
    /\ UNCHANGED claimsVars

MCSpec == MCInit /\ [][MCNext]_<<capacityVars, claimsVars>> /\ CapacityFairness
=============================================================================
