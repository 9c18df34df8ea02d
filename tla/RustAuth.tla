------------------------------ MODULE RustAuth ------------------------------
(***************************************************************************)
(* The Rust backend, backend-rust/src/main.rs: the same five RPCs over the *)
(* same table (repositories/user.rs) and over Redis keys of its own        *)
(* (repositories/session.rs).  A handler is a future: tonic drops it at an *)
(* await when its client goes away, and the statement it waited for may or *)
(* may not be carried out.  To the stores that is a call that failed, and  *)
(* the client sees it fail as well, so Fault stands for both.              *)
(*                                                                         *)
(* Each user has one key for a refresh token, which the next login         *)
(* overwrites.  A token is named by the request slot that issued it, and   *)
(* becomes Old when its slot takes the next login.  Tokens are signed with *)
(* a secret of the configuration, which a restart does not change.         *)
(***************************************************************************)
EXTENDS Backend

CONSTANT Old

VARIABLES
  refresh,  \* Redis refresh_token:<user id> -> the slot of the token, or Old
  issued    \* tokens handed to clients, access and refresh tokens alike

vars == <<users, resets, refresh, issued, calls, faults>>
stores == <<users, resets, refresh, issued>>

\* Claims: sub; what tells two tokens of a user apart is their expiry.
AccessTokens == [user : UserIds]

ASSUME RustAssumption ==
  /\ {None, Gone} \cap (AccessTokens \cup Calls) = {}
  /\ Old \notin Calls \cup {None}

----------------------------------------------------------------------------
(* sign_up *)

SignUp(c) ==
  /\ Spare(users, {"create"})
  /\ \E e \in Emails, p \in Passwords : Start(c, "SignUp", "create", e, p, None)
  /\ UNCHANGED <<stores, faults>>

Create(c) ==
  LET e == calls[c].email
  IN  /\ At(c, "create")
      /\ \/ /\ Violates(e)
            /\ Query(Reply(c, "internal"), Reply(c, "internal"))
            /\ UNCHANGED users
         \/ \E u \in UserIds :
              /\ users[u] = None
              /\ ~Violates(e)
              /\ Command(Insert(u, e, calls[c].pwd), UNCHANGED users,
                         Reply(c, "ok"), Reply(c, "internal"))
      /\ UNCHANGED <<resets, refresh, issued>>

----------------------------------------------------------------------------
(* login *)

\* The slot forgets the token it issued before.
Login(c) ==
  /\ \E e \in Emails, p \in Passwords : Start(c, "Login", "lookup", e, p, None)
  /\ refresh' = [u \in UserIds |-> IF refresh[u] = c THEN Old ELSE refresh[u]]
  /\ UNCHANGED <<users, resets, issued, faults>>

\* Mutated form: the result of verify_password is not looked at.
FindByEmailOnly(c) ==
  /\ At(c, "lookup")
  /\ IF Holders(calls[c].email) = {} THEN Reply(c, "unauthenticated")
     ELSE \E u \in Holders(calls[c].email) : GotoAs(c, "store", u)
  /\ UNCHANGED <<stores, faults>>

\* Mutated form: an address without an account is not turned away.
FindByEmailAnyone(c) ==
  /\ At(c, "lookup")
  /\ GotoAs(c, "store", None)
  /\ UNCHANGED <<stores, faults>>

\* find_by_email and verify_password; is_active is not looked at.
FindByEmail(c) ==
  /\ At(c, "lookup")
  /\ \/ /\ ~\E u \in Holders(calls[c].email) : users[u].pwd = calls[c].pwd
        /\ Query(Reply(c, "unauthenticated"), Reply(c, "internal"))
     \/ \E u \in Holders(calls[c].email) :
          /\ users[u].pwd = calls[c].pwd
          /\ Query(GotoAs(c, "store", u), Reply(c, "internal"))
  /\ UNCHANGED stores

StoreRefreshToken(c) ==
  /\ At(c, "store")
  /\ Command(refresh' = [refresh EXCEPT ![calls[c].user] = c],
             UNCHANGED refresh, Goto(c, "stamp"), Reply(c, "internal"))
  /\ UNCHANGED <<users, resets, issued>>

\* update_last_login changes nothing anybody reads, but fails the login.
UpdateLastLogin(c) ==
  /\ At(c, "stamp")
  /\ \/ /\ issued' = issued \cup {[user |-> calls[c].user]}
        /\ Reply(c, "ok")
        /\ UNCHANGED faults
     \/ /\ Fault
        /\ Reply(c, "internal")
        /\ UNCHANGED issued
  /\ UNCHANGED <<users, resets, refresh>>

----------------------------------------------------------------------------
(* forgot_password *)

ForgotPassword(c) ==
  /\ Spare(resets, {"find", "grant"})
  /\ \E e \in Emails : Start(c, "ForgotPassword", "find", e, None, None)
  /\ UNCHANGED <<stores, faults>>

FindAccount(c) ==
  /\ At(c, "find")
  /\ \/ /\ Holders(calls[c].email) = {}
        /\ Query(Reply(c, "ok"), Reply(c, "internal"))
     \/ \E u \in Holders(calls[c].email) :
          Query(GotoAs(c, "grant", u), Reply(c, "internal"))
  /\ UNCHANGED stores

\* Mutated form: the reply does not wait for the token to be stored.
StoreLater(c) ==
  /\ At(c, "grant")
  /\ Reply(c, "ok")
  /\ UNCHANGED <<stores, faults>>

StoreResetToken(c) ==
  /\ At(c, "grant")
  /\ \E t \in ResetTokens :
       /\ resets[t] = None
       /\ Command(resets' = [resets EXCEPT ![t] = calls[c].user],
                  UNCHANGED resets, Reply(c, "ok"), Reply(c, "internal"))
  /\ UNCHANGED <<users, refresh, issued>>

----------------------------------------------------------------------------
(* reset_password *)

ResetPassword(c) ==
  /\ \E t \in ResetTokens, p \in Passwords :
       /\ resets[t] # None
       /\ Start(c, "ResetPassword", "redeem", None, p, t)
  /\ UNCHANGED <<stores, faults>>

GetUserIdFromResetToken(c) ==
  LET u == resets[calls[c].token]
  IN  /\ At(c, "redeem")
      /\ Query(IF u = Gone THEN Reply(c, "badtoken") ELSE GotoAs(c, "update", u),
               Reply(c, "internal"))
      /\ UNCHANGED stores

\* The rows that matched are not counted, and the token stays.
UpdatePassword(c) ==
  LET u == calls[c].user
  IN  /\ At(c, "update")
      /\ Command(users' = IF Live(u) THEN [users EXCEPT ![u].pwd = calls[c].pwd]
                          ELSE users,
                 UNCHANGED users, Reply(c, "ok"), Reply(c, "internal"))
      /\ UNCHANGED <<resets, refresh, issued>>

----------------------------------------------------------------------------
(* validate_token *)

\* A token that has expired is answered at once.
ValidateToken(c) ==
  /\ \E t \in issued :
       \/ Start(c, "ValidateToken", "getbyid", None, None, t)
       \/ Answer(c, "ValidateToken", "notvalid")
  /\ UNCHANGED <<stores, faults>>

FindById(c) ==
  LET u == calls[c].token.user
  IN  /\ At(c, "getbyid")
      /\ Query(IF Live(u) /\ users[u].active
                 THEN Reply(c, "valid") ELSE Reply(c, "notvalid"),
               Reply(c, "internal"))
      /\ UNCHANGED stores

----------------------------------------------------------------------------
(* Around the handlers *)

\* models/requests.rs: a malformed request ends before any store is asked.
Reject(c) ==
  /\ \E op \in Methods : Answer(c, op, "invalid")
  /\ UNCHANGED <<stores, faults>>

\* SET EX: a reset token lives 30 minutes, a refresh token 7 days.
ResetTokenExpires(t) ==
  /\ resets[t] \notin {None, Gone}
  /\ resets' = [resets EXCEPT ![t] = Gone]
  /\ UNCHANGED <<users, refresh, issued, calls, faults>>

RefreshTokenExpires(u) ==
  /\ refresh[u] # None
  /\ refresh' = [refresh EXCEPT ![u] = None]
  /\ UNCHANGED <<users, resets, issued, calls, faults>>

\* The table is shared: is_active is cleared and rows are deleted by whoever
\* administers it.
Deactivate(u) ==
  /\ Live(u)
  /\ users' = [users EXCEPT ![u].active = FALSE]
  /\ UNCHANGED <<resets, refresh, issued, calls, faults>>

Remove(u) ==
  /\ Live(u)
  /\ users' = [users EXCEPT ![u] = Gone]
  /\ UNCHANGED <<resets, refresh, issued, calls, faults>>

Restart ==
  /\ Fault
  /\ calls' = [c \in Calls |-> Idle]
  /\ UNCHANGED stores

----------------------------------------------------------------------------

Init ==
  /\ users = InitialUsers
  /\ resets = [t \in ResetTokens |-> None]
  /\ refresh = [u \in UserIds |-> None]
  /\ issued = {}
  /\ calls = [c \in Calls |-> Idle]
  /\ faults = 0

Arrive(c) ==
  \/ SignUp(c) \/ Login(c) \/ ForgotPassword(c) \/ ResetPassword(c)
  \/ ValidateToken(c) \/ Reject(c)

Step(c) ==
  \/ Create(c)
  \/ FindByEmail(c) \/ StoreRefreshToken(c) \/ UpdateLastLogin(c)
  \/ FindAccount(c) \/ StoreResetToken(c)
  \/ GetUserIdFromResetToken(c) \/ UpdatePassword(c)
  \/ FindById(c)

Environment ==
  \/ \E t \in ResetTokens : ResetTokenExpires(t)
  \/ \E u \in UserIds : RefreshTokenExpires(u) \/ Deactivate(u) \/ Remove(u)
  \/ Restart

Next ==
  \/ \E c \in Calls : Arrive(c) \/ Step(c)
  \/ Environment

Spec == Init /\ [][Next]_vars

----------------------------------------------------------------------------
(* Properties *)

\* Which labels a request of each kind goes through.
Labels(op) ==
  CASE op = "SignUp" -> {"create", "done"}
    [] op = "Login" -> {"lookup", "store", "stamp", "done"}
    [] op = "ForgotPassword" -> {"find", "grant", "done"}
    [] op = "ResetPassword" -> {"redeem", "update", "done"}
    [] op = "ValidateToken" -> {"getbyid", "done"}
    [] op = "none" -> {"idle"}

AllLabels ==
  {"idle", "done", "create", "lookup", "store", "stamp", "find", "grant",
   "redeem", "update", "getbyid"}

Replies == {"none", "ok", "internal", "unauthenticated", "badtoken", "valid",
            "notvalid", "invalid"}

Request ==
  [op : AllMethods \cup {"none"}, pc : AllLabels,
   email : Emails \cup {None}, pwd : Passwords \cup {None},
   user : UserIds \cup {None},
   token : ResetTokens \cup AccessTokens \cup {None}, reply : Replies]

\* A handler is at a label of its own method and holds the values that label
\* works with.
WellFormed(r) ==
  /\ r.pc \in Labels(r.op)
  /\ r.pc \in {"create", "lookup", "find"} => r.email \in Emails
  /\ r.pc \in {"create", "lookup", "redeem", "update"} => r.pwd \in Passwords
  /\ r.pc \in {"store", "stamp", "grant", "update"} => r.user \in UserIds
  /\ r.pc \in {"redeem", "update"} => r.token \in ResetTokens
  /\ r.pc = "getbyid" => r.token \in AccessTokens

CallsOK ==
  /\ calls \in [Calls -> Request]
  /\ \A c \in Calls : WellFormed(calls[c])

StoresOK ==
  /\ users \in [UserIds -> Row \cup {None, Gone}]
  /\ resets \in [ResetTokens -> UserIds \cup {None, Gone}]
  /\ refresh \in [UserIds -> Calls \cup {None, Old}]
  /\ issued \subseteq AccessTokens
  /\ faults \in 0..MaxFaults

\* A token somebody redeems was handed out.
TokensOK ==
  \A c \in Calls :
    calls[c].pc \in {"redeem", "update"} => resets[calls[c].token] # None

\* A slot names at most one stored token, and none while it serves the login
\* that has yet to store one.
SessionsOK ==
  /\ \A u, v \in UserIds :
       refresh[u] = refresh[v] /\ refresh[u] \in Calls => u = v
  /\ \A c \in Calls :
       calls[c].pc \in {"lookup", "store"} => \A u \in UserIds : refresh[u] # c

\* Every variable has its type, and every request the shape of its label.
TypeOK == StoresOK /\ CallsOK /\ TokensOK /\ SessionsOK
=============================================================================
