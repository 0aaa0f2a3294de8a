----------------------------- MODULE MCAccounts -----------------------------
(***************************************************************************)
(* ann and bob are admins, cy is not; or ann alone is.  Registrations want *)
(* a taken name, a taken email, or one of two new accounts that share an   *)
(* email.                                                                  *)
(***************************************************************************)
EXTENDS Accounts, TLC

CONSTANTS ann, bob, cy

Account(name, is_admin) == [username |-> name, email |-> name, is_admin |-> is_admin]

MCTables ==
  {(ann :> Account("ann", TRUE) @@ bob :> Account("bob", b) @@ cy :> Account("cy", FALSE)) :
     b \in BOOLEAN}

MCRegistrations ==
  [kind : {"register"}, username : {"ann", "dee", "eve"}, email : {"dee"}]

MCJobs ==
  [kind : {"set_admin"}, caller : {ann, bob}, user : {ann, bob}, is_admin : {FALSE}]
  \cup [kind : {"set_admin"}, caller : {ann}, user : {cy}, is_admin : BOOLEAN]
  \cup [kind : {"promote"}, username : {"bob", "zed"}]
  \cup MCRegistrations

MCRequestSymmetry == Permutations(Requests)
=============================================================================
