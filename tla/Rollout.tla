------------------------------- MODULE Rollout -------------------------------
(***************************************************************************)
(* What a component that keeps a table and rolls it out to a server        *)
(* promises.                                                               *)
(*                                                                         *)
(* Each item has a committed value and a value in force.  A request takes  *)
(* effect in one step, in the table and in force, or not at all, and only  *)
(* on the items it is about; requests that fail never change the table.    *)
(* What they may do is to leave items adrift: of these nothing is promised *)
(* until they are repaired.  Of the others nothing else is ever in force   *)
(* than what is committed.                                                 *)
(***************************************************************************)
CONSTANTS
    Items,
    Values,
    Scopes       \* the sets of items that one request may be about

VARIABLES
    committed,   \* the tables
    inForce,     \* what the server goes by
    drift        \* the items adrift

vars == <<committed, inForce, drift>>

Agree(S) == \A i \in S : inForce[i] = committed[i]

Init ==
    /\ committed \in [Items -> Values]
    /\ inForce \in [Items -> Values]
    /\ drift = {}
    /\ Agree(Items)

\* A request about the items of S takes effect.
Apply(S) ==
    /\ \A i \in Items \ S : committed'[i] = committed[i]
    /\ drift' \subseteq drift \cup S
    /\ Agree(Items \ drift)'

\* A request fails, or the agent dies, and leaves the items of S adrift.
Abandon(S) ==
    /\ committed' = committed
    /\ drift' = drift \cup S
    /\ \A i \in Items \ drift' : inForce'[i] = inForce[i]

\* Items adrift go wherever they go.
Wander ==
    /\ UNCHANGED <<committed, drift>>
    /\ \A i \in Items \ drift : inForce'[i] = inForce[i]

\* Items are put right again.
Repair ==
    /\ committed' = committed
    /\ drift' \subseteq drift
    /\ Agree(Items \ drift)'

Next ==
    \/ \E S \in Scopes : Apply(S)
    \/ \E S \in SUBSET Items : Abandon(S)
    \/ Wander \/ Repair

Spec == Init /\ [][Next]_vars
=============================================================================
