----------------------------- MODULE MCAccounts -----------------------------
(***************************************************************************)
(* Accounts for names that nothing tells apart, with clients that post any *)
(* link to either endpoint, and with people who only use the pages.        *)
(***************************************************************************)
EXTENDS Accounts, TLC

Symmetry == Permutations(Emails) \cup Permutations(Passwords)
              \cup Permutations(Links) \cup Permutations(Handlers)

AnyPosts == {"verify", "invite"} \X {"verify", "invite"}
PagePosts == {<<"verify", "verify">>, <<"invite", "invite">>}
=============================================================================
