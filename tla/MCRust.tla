------------------------------- MODULE MCRust -------------------------------
(* Instances of RustAuth for TLC. *)
EXTENDS RustParity, TLC

\* A database nobody has signed up to yet.
NoAccounts == [u \in UserIds |-> None]

\* One account; its address, password and id are the first of their sets.
TheUser == CHOOSE u \in UserIds : TRUE
TheEmail == CHOOSE e \in Emails : TRUE
ThePassword == CHOOSE p \in Passwords : TRUE

OneAccount ==
  [NoAccounts EXCEPT ![TheUser] =
     [email |-> TheEmail, pwd |-> ThePassword, active |-> TRUE]]

\* The slots are interchangeable.
Symmetry == Permutations(Calls)

\* So are the passwords and the ids, while no account singles one out.
AllSymmetry ==
  Permutations(Calls) \cup Permutations(Passwords) \cup Permutations(UserIds)
=============================================================================
