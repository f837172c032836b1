----------------------------- MODULE TokenLife ------------------------------
(***************************************************************************)
(* What the session store promises, without requests, Redis or failures: a *)
(* refresh token is generated for a user, by a login or in exchange for an *)
(* older token; it becomes valid at most once, and only when the token it  *)
(* replaces has been deleted; once deleted it never returns, and it never  *)
(* changes hands.  Sessions implements this (ImplementsTokenLife there);   *)
(* so does PasswordReset, whose tokens are not exchanged (ResetRefinement  *)
(* of PasswordResetProofs).                                                *)
(***************************************************************************)
CONSTANTS
    None,    \* no user, no token
    Users,   \* rows of the users table
    Ids      \* refresh tokens

VARIABLES
    life,    \* Ids -> "new", then "held", "live" and "dead"
    owner,   \* Ids -> the user it was generated for
    parent   \* Ids -> the token it was exchanged for

tokenVars == <<life, owner, parent>>

Init ==
    /\ life = [i \in Ids |-> "new"]
    /\ owner = [i \in Ids |-> None]
    /\ parent = [i \in Ids |-> None]

\* A token for u, in exchange for p unless p is None.
Generate(i, u, p) ==
    /\ life[i] = "new"
    /\ p # None => life[p] \in {"live", "dead"} /\ owner[p] = u
    /\ life' = [life EXCEPT ![i] = "held"]
    /\ owner' = [owner EXCEPT ![i] = u]
    /\ parent' = [parent EXCEPT ![i] = p]

Store(i) ==
    /\ life[i] = "held"
    /\ parent[i] # None => life[parent[i]] = "dead"
    /\ life' = [life EXCEPT ![i] = "live"]
    /\ UNCHANGED <<owner, parent>>

Delete(i) ==
    /\ life[i] = "live"
    /\ life' = [life EXCEPT ![i] = "dead"]
    /\ UNCHANGED <<owner, parent>>

Next ==
    \E i \in Ids :
        \/ \E u \in Users, p \in Ids \cup {None} : Generate(i, u, p)
        \/ Store(i)
        \/ Delete(i)

Spec == Init /\ [][Next]_tokenVars

=============================================================================
