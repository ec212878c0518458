-------------------------- MODULE MCLoginSession --------------------------
(* Small instances of LoginSession for TLC.                               *)
EXTENDS LoginSession, TLC

\* Ids, people and workers are interchangeable.
Interchangeable ==
    Permutations(Session) \cup Permutations(User) \cup Permutations(Request)
===========================================================================
