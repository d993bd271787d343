--------------------------- MODULE MCAuthService ---------------------------
(* Small instances of AuthService for TLC. *)
EXTENDS AuthService, TLC

\* Registrations, logins and reset requests against their limits.
MCAttempts ==
    [k \in Endpoints |-> CASE k \in {"register", "login", "forgot_password"} -> 3
                           [] k = "logout" -> 0
                           [] OTHER -> 1]

\* For safety only: accounts and clients are alike.
AttemptSymmetry == Permutations(Emails) \cup Permutations(Origins)

\* A password reset, what precedes it and what it meets.
MCResets ==
    [k \in Endpoints |-> CASE k = "forgot_password" -> 3
                           [] k = "reset_password" -> 2
                           [] k = "register" -> 0
                           [] OTHER -> 1]

\* Two logins around one reset.
MCRehash ==
    [k \in Endpoints |-> CASE k = "login" -> 2
                           [] k \in {"forgot_password", "reset_password"} -> 1
                           [] OTHER -> 0]

=============================================================================
