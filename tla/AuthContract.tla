---------------------------- MODULE AuthContract ----------------------------
(***************************************************************************)
(* What the authentication service promises its callers, whatever backend  *)
(* implements it: every request is decided at one instant between its      *)
(* arrival and its reply, by the accounts, reset grants and sessions of    *)
(* that instant, and changes them at one instant.  proto/auth.proto is the *)
(* interface; the throttle in front of Login, the order of the statements  *)
(* and the stores are the implementation's business.                       *)
(*                                                                         *)
(* A step in which a store fails (Excused) may refuse a request for no     *)
(* reason the caller can see, and may do what the reply says has failed.   *)
(* No other step may, but for a service whose keys do not belong together  *)
(* (signing): it fails every login it has recognised.                      *)
(*                                                                         *)
(* The two backends do not promise the same.  Promises holds what only one *)
(* of them does:                                                           *)
(*   "active"    a login is let in only while the account is active;       *)
(*   "spent"     a reset answered ok has used its grant up;                *)
(*   "changed"   a reset answered ok has changed a password;               *)
(*   "sessions"  a login leaves the other sessions of its account alone.   *)
(***************************************************************************)
EXTENDS Naturals

CONSTANTS
  Calls, Emails, Passwords, UserIds, ResetTokens, Badges, None, Gone,
  Promises

VARIABLES
  accounts,  \* id -> account, None (not yet) or Gone
  grants,    \* reset token -> the account it may change, None or Gone
  sessions,  \* request slot -> the account its last Login opened a session for
  badges,    \* the access tokens that are honoured
  signing,   \* the keys of the service belong together: it can sign a login in
  requests,  \* request slot -> request, its stage and its reply
  faults     \* store failures so far

cvars == <<accounts, grants, sessions, badges, signing, requests, faults>>

Excused == faults' > faults

AllOps ==
  {"SignUp", "Login", "ForgotPassword", "ResetPassword", "ValidateToken"}

Exists(u) == accounts[u] \notin {None, Gone}
Owner(e) == {u \in UserIds : Exists(u) /\ accounts[u].email = e}
May(u, p) ==
  ("active" \in Promises => accounts[u].active) /\ accounts[u].pwd = p

In(c, op, stage) == requests[c].op = op /\ requests[c].stage = stage

NoRequest ==
  [op |-> "none", email |-> None, pwd |-> None, user |-> None,
   token |-> None, stage |-> "idle", reply |-> "none"]

Close(c, r) ==
  requests' = [requests EXCEPT ![c] =
    [NoRequest EXCEPT !.op = requests[c].op, !.stage = "done", !.reply = r]]

Pass(c, stage, u) ==
  requests' = [requests EXCEPT ![c] = [@ EXCEPT !.stage = stage, !.user = u]]

\* A request arrives; a malformed one is answered at once, and so is a token
\* past its time.
Ask(c) ==
  /\ requests[c].stage \in {"idle", "done"}
  /\ requests' = [requests EXCEPT ![c] = requests'[c]]
  /\ requests'[c] \in
       [op : {"SignUp", "Login", "ForgotPassword", "ResetPassword"},
        email : Emails \cup {None}, pwd : Passwords \cup {None},
        user : {None}, token : ResetTokens \cup {None},
        stage : {"open"}, reply : {"none"}]
       \cup
       [op : {"ValidateToken"}, email : {None}, pwd : {None}, user : {None},
        token : badges, stage : {"open"}, reply : {"none"}]
       \cup
       [op : AllOps, email : {None}, pwd : {None}, user : {None},
        token : {None}, stage : {"done"}, reply : {"invalid", "notvalid"}]
  /\ sessions' \in {sessions, [sessions EXCEPT ![c] = None]}
  /\ UNCHANGED <<accounts, grants, badges>>

\* An address gets one account, and the reply says so.
Register(c) ==
  /\ In(c, "SignUp", "open")
  /\ Owner(requests[c].email) = {}
  /\ \E u \in UserIds :
       /\ accounts[u] = None
       /\ accounts' = [accounts EXCEPT ![u] =
            [email |-> requests[c].email, pwd |-> requests[c].pwd,
             active |-> TRUE]]
       /\ \/ Close(c, "ok")
          \/ Excused /\ Close(c, "internal")
  /\ UNCHANGED <<grants, sessions, badges>>

NotRegistered(c) ==
  /\ In(c, "SignUp", "open")
  /\ \/ Owner(requests[c].email) # {} /\ \E r \in {"exists", "internal"} : Close(c, r)
     \/ Excused /\ Close(c, "internal")
  /\ UNCHANGED <<accounts, grants, sessions, badges>>

\* The password is right for the account as it stands.
Recognise(c) ==
  /\ In(c, "Login", "open")
  /\ \E u \in Owner(requests[c].email) :
       May(u, requests[c].pwd) /\ Pass(c, "granted", u)
  /\ UNCHANGED <<accounts, grants, sessions, badges>>

NotRecognised(c) ==
  LET own == Owner(requests[c].email)
  IN  /\ In(c, "Login", "open")
      /\ \/ /\ Excused \/ ~\E u \in own : May(u, requests[c].pwd)
            /\ Close(c, "unauthenticated")
         \/ Excused /\ Close(c, "internal")
         \/ (\E u \in own : ~accounts[u].active) /\ Close(c, "disabled")
         \/ Close(c, "locked")
      /\ UNCHANGED <<accounts, grants, sessions, badges>>

HandOut(u) == \E b \in Badges : b.user = u /\ badges' = badges \cup {b}

\* A Login answered ok has its session stored, for the account whose password
\* was shown, and only such a Login hands out an access token.
OpenSession(c) ==
  LET u == requests[c].user
  IN  /\ In(c, "Login", "granted")
      /\ \/ /\ "sessions" \in Promises
            /\ sessions' = [sessions EXCEPT ![c] = u]
         \/ /\ "sessions" \notin Promises
            /\ sessions' = [d \in Calls |->
                 IF d # c /\ sessions[d] = u THEN None
                 ELSE [sessions EXCEPT ![c] = u][d]]
      /\ \/ Close(c, "ok") /\ HandOut(u)
         \/ Pass(c, "effected", u) /\ UNCHANGED badges
         \/ Excused /\ Close(c, "internal") /\ UNCHANGED badges
      /\ UNCHANGED <<accounts, grants>>

Admit(c) ==
  /\ In(c, "Login", "effected")
  /\ \/ Close(c, "ok") /\ HandOut(requests[c].user)
     \/ Excused /\ Close(c, "internal") /\ UNCHANGED badges
  /\ UNCHANGED <<accounts, grants, sessions>>

NoSession(c) ==
  /\ In(c, "Login", "granted")
  /\ Excused \/ ~signing
  /\ Close(c, "internal")
  /\ UNCHANGED <<accounts, grants, sessions, badges>>

\* A reset is granted to the owner of an address; the reply is the same for an
\* address that has none.
Find(c) ==
  /\ In(c, "ForgotPassword", "open")
  /\ \/ \E u \in Owner(requests[c].email) : Pass(c, "granted", u)
     \/ (Excused \/ Owner(requests[c].email) = {}) /\ Close(c, "ok")
     \/ Excused /\ Close(c, "internal")
  /\ UNCHANGED <<accounts, grants, sessions, badges>>

Grant(c) ==
  /\ In(c, "ForgotPassword", "granted")
  /\ \/ \E t \in ResetTokens :
          /\ grants[t] = None
          /\ grants' = [grants EXCEPT ![t] = requests[c].user]
          /\ Close(c, "ok") \/ (Excused /\ Close(c, "internal"))
     \/ Excused /\ UNCHANGED grants /\ Close(c, "internal")
  /\ UNCHANGED <<accounts, sessions, badges>>

\* Only a grant that stands lets a request change a password, only that of
\* the account it names.
Redeem(c) ==
  /\ In(c, "ResetPassword", "open")
  /\ LET u == grants[requests[c].token]
     IN  \/ u \notin {None, Gone} /\ Pass(c, "granted", u)
         \/ (Excused \/ u = Gone) /\ Close(c, "badtoken")
         \/ Excused /\ Close(c, "internal")
  /\ UNCHANGED <<accounts, grants, sessions, badges>>

Change(c) ==
  LET u == requests[c].user
  IN  /\ In(c, "ResetPassword", "granted")
      /\ \/ /\ Exists(u)
            /\ accounts' = [accounts EXCEPT ![u].pwd = requests[c].pwd]
            /\ \/ Pass(c, "effected", u)
               \/ "spent" \notin Promises /\ Close(c, "ok")
               \/ Excused /\ Close(c, "internal")
         \/ /\ UNCHANGED accounts
            /\ \/ (Excused \/ ~Exists(u)) /\ Close(c, "internal")
               \/ /\ ~Exists(u)
                  /\ Promises \cap {"spent", "changed"} = {}
                  /\ Close(c, "ok")
      /\ UNCHANGED <<grants, sessions, badges>>

\* A reset that is answered ok has used its grant up.
Spend(c) ==
  /\ In(c, "ResetPassword", "effected")
  /\ \/ grants' = [grants EXCEPT ![requests[c].token] = Gone]
     \/ Excused /\ UNCHANGED grants
  /\ Close(c, "ok")
  /\ UNCHANGED <<accounts, sessions, badges>>

Vouch(c) ==
  LET u == requests[c].token.user
  IN  /\ In(c, "ValidateToken", "open")
      /\ \/ Exists(u) /\ accounts[u].active /\ Close(c, "valid")
         \/ /\ Excused \/ ~Exists(u) \/ ~accounts[u].active
            /\ Close(c, "notvalid")
         \/ Excused /\ Close(c, "internal")
      /\ UNCHANGED <<accounts, grants, sessions, badges>>

\* Grants and sessions lapse, accounts are disabled or removed by an
\* operator, and a crash forgets the requests and, with the key, the badges.
Lapse ==
  /\ \/ \E t \in ResetTokens :
          /\ grants[t] \notin {None, Gone}
          /\ grants' = [grants EXCEPT ![t] = Gone]
          /\ UNCHANGED sessions
     \/ \E c \in Calls :
          /\ sessions' = [sessions EXCEPT ![c] = None]
          /\ UNCHANGED grants
  /\ UNCHANGED <<accounts, badges, requests>>

Administer ==
  /\ \E u \in UserIds :
       /\ Exists(u)
       /\ \/ accounts' = [accounts EXCEPT ![u].active = FALSE]
          \/ accounts' = [accounts EXCEPT ![u] = Gone]
  /\ UNCHANGED <<grants, sessions, badges, requests>>

Crash ==
  /\ Excused
  /\ requests' = [c \in Calls |-> NoRequest]
  /\ badges' \in {badges, {}}
  /\ UNCHANGED <<accounts, grants, sessions>>

CInit ==
  /\ faults = 0
  /\ \A u, v \in UserIds :
       Exists(u) /\ Exists(v) /\ accounts[u].email = accounts[v].email => u = v
  /\ grants = [t \in ResetTokens |-> None]
  /\ sessions = [c \in Calls |-> None]
  /\ badges = {} /\ signing \in BOOLEAN
  /\ requests = [c \in Calls |-> NoRequest]

\* A failure that no caller notices.
Unnoticed ==
  Excused /\ UNCHANGED <<accounts, grants, sessions, badges, requests>>

CNext ==
  /\ faults' \in {faults, faults + 1} /\ signing' = signing
  /\ \/ \E c \in Calls :
          \/ Ask(c) \/ Register(c) \/ NotRegistered(c)
          \/ Recognise(c) \/ NotRecognised(c) \/ OpenSession(c) \/ Admit(c) \/ NoSession(c)
          \/ Find(c) \/ Grant(c)
          \/ Redeem(c) \/ Change(c) \/ Spend(c) \/ Vouch(c)
     \/ Lapse \/ Administer \/ Crash \/ Unnoticed

CSpec == CInit /\ [][CNext]_cvars
=============================================================================
