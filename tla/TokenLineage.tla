---------------------------- MODULE TokenLineage ----------------------------
(***************************************************************************)
(* What the provider promises about refresh tokens, without saying how.    *)
(*                                                                         *)
(* One sign-in at one client opens a family.  A family is a single line of *)
(* succession: at any moment at most one of its tokens can be exchanged    *)
(* (the head), an exchange replaces the head by a token nobody has ever    *)
(* held, and a family that has ended never has a head again.  Only a whole *)
(* family ends: there is no way to take back one token and keep the line.  *)
(***************************************************************************)

CONSTANTS
    Token,    \* the values refresh tokens can take
    Family,   \* the values of refresh_tokens.family_id
    None,     \* the head of a family that was never opened
    Ended     \* the head of a family that is over

VARIABLES
    head,     \* per family, the one token that can be exchanged
    used      \* every token ever handed to anybody

vars == <<head, used>>

Init ==
    /\ head = [f \in Family |-> None]
    /\ used = {}

\* A code is redeemed: the family gets its first token.
Open(f, t) ==
    /\ head[f] = None
    /\ t \notin used
    /\ head' = [head EXCEPT ![f] = t]
    /\ used' = used \cup {t}

\* The head is exchanged for a new one.
Exchange(f, t) ==
    /\ head[f] \in Token
    /\ t \notin used
    /\ head' = [head EXCEPT ![f] = t]
    /\ used' = used \cup {t}

\* Any number of families end together: theft was detected, or somebody signed
\* out, or an administrator revoked them.
End(fs) ==
    /\ \A f \in fs : head[f] \in Token
    /\ head' = [f \in Family |-> IF f \in fs THEN Ended ELSE head[f]]
    /\ UNCHANGED used

Next ==
    \/ \E f \in Family, t \in Token : Open(f, t) \/ Exchange(f, t)
    \/ \E fs \in SUBSET Family : End(fs)

Spec == Init /\ [][Next]_vars
=============================================================================
