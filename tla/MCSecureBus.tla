---------------------------- MODULE MCSecureBus ----------------------------
(* Small instances of SecureBus for TLC. *)
EXTENDS SecureBus, TLC

CONSTANTS k1, k2

Approved == [authors |-> {}, require |-> {}, minOk |-> 1, anyDeny |-> "no"]

\* One agent publishes with k1, the other reviews with k2.
Policy(attest, chain) ==
  [agents |-> ("planner" :> k1) @@ ("critic" :> k2),
   publish |-> {"planner"}, attest |-> attest,
   chain |-> chain, conditions |-> ("approved" :> Approved)]

\* The key k1 has lost its rights, and k2 may publish.
Rotated == [agents |-> ("critic" :> k2), publish |-> {"critic"},
            attest |-> {"critic"}, chain |-> FALSE, conditions |-> <<>>]

\* Two names share a key, and only one of them may publish.
Shared == [agents |-> ("planner" :> k1) @@ ("critic" :> k1),
           publish |-> {"planner"}, attest |-> {"critic"},
           chain |-> FALSE, conditions |-> <<>>]

AgentNames == {"planner", "critic"}
ReviewDocs   == {Policy({"critic"}, TRUE)}
ChainDocs    == {Policy(AgentNames, TRUE)}
RotationDocs == {Policy(AgentNames, FALSE), Rotated, Shared}

\* The policy's condition by its name or as a filter; a name the policy does
\* not have; no condition at all.
SameFilter == {[by |-> "name", name |-> "approved"],
               [by |-> "filter", filter |-> Approved]}
NamedAsks == {[by |-> "name", name |-> n] : n \in {"approved", "missing"}}
NoFilter == {[by |-> "nothing"]}

\* Two attesters, or one of them and the consumers.
TwoReviewsOrConsume ==
  \/ Cardinality({a \in Attesters : apc[a] # "start"}) < 2
  \/ sublast = 0 /\ \A c \in Consumers : cpc[c] = "idle"

Symmetry == Permutations(Putters) \cup Permutations(Publishers)
              \cup Permutations(Attesters) \cup Permutations(Consumers)
              \cup Permutations(Nonces)

=============================================================================
