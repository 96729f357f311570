--------------------------- MODULE MCAuthSessions ---------------------------
(* Small instances of AuthSessions.  Requests, sessions, tokens and users   *)
(* are interchangeable.                                                     *)
EXTENDS AuthSessions, TLC

Symmetry ==
    Permutations(Requests) \cup Permutations(SessionIds) \cup Permutations(Passwords)
        \cup Permutations(TokenIds) \cup Permutations(Users)

=============================================================================
