------------------------- MODULE ReferenceLifecycle -------------------------
(***************************************************************************)
(* What ZegelAnchor promises the counterparty who only asks the chain, and *)
(* nothing about how it is stored: a reference is unclaimed, live, lapsed  *)
(* or withdrawn, it has one holder from its first claim on, and withdrawal *)
(* is the end of it. ZegelAnchor is shown to implement this specification. *)
(***************************************************************************)

CONSTANTS
    Ids,        \* the reference ids an issuer may claim
    Issuers,    \* the accounts that may claim one
    Nobody      \* the holder of an unclaimed reference

VARIABLES
    standing,   \* standing[id]: where the reference is in its life
    holder      \* holder[id]: the account that claimed it, or Nobody

vars == <<standing, holder>>

Init ==
    /\ standing = [id \in Ids |-> "unclaimed"]
    /\ holder = [id \in Ids |-> Nobody]

\* An unclaimed reference goes to whoever claims it first.
Claim(id, issuer) ==
    /\ standing[id] = "unclaimed"
    /\ standing' = [standing EXCEPT ![id] = "live"]
    /\ holder' = [holder EXCEPT ![id] = issuer]

\* The holder may bring a lapsed reference back, never a withdrawn one.
Revive(id) ==
    /\ standing[id] = "lapsed"
    /\ standing' = [standing EXCEPT ![id] = "live"]
    /\ UNCHANGED holder

\* Withdrawal is open to a live and to a lapsed reference, once.
Withdraw(id) ==
    /\ standing[id] \in {"live", "lapsed"}
    /\ standing' = [standing EXCEPT ![id] = "withdrawn"]
    /\ UNCHANGED holder

\* Time passes over several references at once, and only over live ones.
Lapse(some) ==
    /\ \A id \in some : standing[id] = "live"
    /\ standing' = [id \in Ids |-> IF id \in some THEN "lapsed" ELSE standing[id]]
    /\ UNCHANGED holder

Next ==
    \/ \E id \in Ids, issuer \in Issuers : Claim(id, issuer)
    \/ \E id \in Ids : Revive(id) \/ Withdraw(id)
    \/ \E some \in SUBSET Ids : Lapse(some)

Spec == Init /\ [][Next]_vars
=============================================================================
