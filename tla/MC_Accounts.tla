----------------------------- MODULE MC_Accounts -----------------------------
(* Bounds for the accounts: one e-mail address and room for a second        *)
(* account on it, two passwords, three tokens of each kind, two threads.    *)
EXTENDS Accounts, TLC

MC_UserIds == 1..2
MC_Emails == {<<"student", 1>>}
MC_TokenIds == 1..3

\* Threads are interchangeable.
MC_Symmetry == Permutations(Requests)

\* Which requests a behaviour is made of.
MC_Mixes ==
  {{"login", "refresh", "logout"},
   {"login", "refresh", "request_reset", "confirm_reset"},
   {"register", "login", "delete_account", "update_me"},
   {"register", "resend_verification", "confirm_verification"},
   {"limited"}}
=============================================================================
