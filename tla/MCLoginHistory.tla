--------------------------- MODULE MCLoginHistory ---------------------------
(* Instances of LoginHistory for TLC. *)
EXTENDS LoginHistory, TLC

NoAccounts == [u \in UserIds |-> None]
TheUser == CHOOSE u \in UserIds : TRUE
TheEmail == CHOOSE e \in Emails : TRUE
ThePassword == CHOOSE p \in Passwords : TRUE

OneAccount ==
  [NoAccounts EXCEPT ![TheUser] =
     [email |-> TheEmail, pwd |-> ThePassword, active |-> TRUE]]

\* The slots are interchangeable.
Symmetry == Permutations(Calls)
=============================================================================
