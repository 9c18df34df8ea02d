---------------------------- MODULE AuthService ----------------------------
(***************************************************************************)
(* The Go authentication service, backend/internal/auth/service.go: the    *)
(* five RPC handlers, each running in a goroutine of its own, over the     *)
(* users table of PostgreSQL (internal/models/user.go) and the keys of     *)
(* Redis (internal/cache/redis.go).                                        *)
(*                                                                         *)
(* The steps are those of module Backend; the handlers ignore some         *)
(* failures of a store and answer others.  A refresh token is named by the *)
(* request slot that issued it (nothing in the service reads it back).     *)
(***************************************************************************)
EXTENDS Backend

CONSTANTS
  KeyModes,          \* how the server may get its RSA key, see key
  MaxLoginAttempts,  \* Security.MaxLoginAttempts
  LockoutTicks       \* Security.LockoutDuration in ticks of the clock

VARIABLES
  attempts,  \* Redis login_attempts:<email>; count 0 is an absent key,
             \* ttl 0 a key without expiry (TTL = -1)
  refresh,   \* Redis refresh_token:<jti> -> user id, jti named by its slot
  issued,    \* tokens handed to clients, the refresh token like the access token:
             \* ValidateToken does not tell them apart
  key        \* the signing key: where it comes from and its generation

vars == <<users, attempts, resets, refresh, issued, key, calls, faults>>
stores == <<users, attempts, resets, refresh, issued, key>>

\* "memory": New generates a pair; "files": both files hold one pair;
\* "mixed": the private and the public file belong to different pairs.
AllKeyModes == {"memory", "files", "mixed"}

AccessTokens == [user : UserIds, gen : 0..MaxFaults]

ASSUME ConstantsAssumption ==
  /\ {None, Gone} \cap AccessTokens = {}
  /\ MaxLoginAttempts \in Nat
  /\ LockoutTicks \in Nat \ {0}
  /\ KeyModes \subseteq AllKeyModes

----------------------------------------------------------------------------
(* Redis: the counter of login attempts. *)

NoCounter == [count |-> 0, ttl |-> 0]

\* A bound of the model: the counter of Redis goes on.  The code tells apart 1,
\* at most MaxLoginAttempts and more, and counting stops beyond all three.
CountCap == MaxLoginAttempts + 2

Capped(n) == IF n > CountCap THEN CountCap ELSE n

\* Mutated form: every attempt starts the lockout anew.
IncrAnew(e, n) ==
  attempts' = [attempts EXCEPT ![e] = [count |-> n, ttl |-> LockoutTicks]]

Incr(e, n) == attempts' = [attempts EXCEPT ![e].count = n]

\* EXPIRE on an absent key changes nothing.
SetTTL(e) ==
  attempts' = [attempts EXCEPT ![e].ttl =
                 IF attempts[e].count > 0 THEN LockoutTicks ELSE 0]

\* Mutated form: a login that succeeds leaves the counter to its TTL.
KeepCounter(e) == UNCHANGED attempts

DelCounter(e) == attempts' = [attempts EXCEPT ![e] = NoCounter]

----------------------------------------------------------------------------
(* SignUp *)

SignUp(c) ==
  /\ Spare(users, {"exists", "create"})
  /\ \E e \in Emails, p \in Passwords : Start(c, "SignUp", "exists", e, p, None)
  /\ UNCHANGED <<stores, faults>>

EmailExists(c) ==
  /\ At(c, "exists")
  /\ Query(IF Holders(calls[c].email) # {}
             THEN Reply(c, "exists") ELSE Goto(c, "create"),
           Reply(c, "internal"))
  /\ UNCHANGED stores

Create(c) ==
  LET e == calls[c].email
  IN  /\ At(c, "create")
      /\ \/ /\ Violates(e)
            /\ Reply(c, "internal")
            /\ UNCHANGED <<users, faults>>
         \/ \E u \in UserIds :
              /\ users[u] = None
              /\ ~Violates(e)
              /\ Command(Insert(u, e, calls[c].pwd), UNCHANGED users,
                         Reply(c, "ok"), Reply(c, "internal"))
      /\ UNCHANGED <<attempts, resets, refresh, issued, key>>

----------------------------------------------------------------------------
(* Login *)

Login(c) ==
  /\ \E e \in Emails, p \in Passwords : Start(c, "Login", "incr", e, p, None)
  /\ refresh' = [refresh EXCEPT ![c] = None]
  /\ UNCHANGED <<users, attempts, resets, issued, key, faults>>

\* Mutated form: off by one.
GateLate(c, n) ==
  IF n > MaxLoginAttempts + 1 THEN Reply(c, "locked") ELSE Goto(c, "lookup")

\* attempts > MaxLoginAttempts, with the count TrackLoginAttempt returned.
Gate(c, n) ==
  IF n > MaxLoginAttempts THEN Reply(c, "locked") ELSE Goto(c, "lookup")

\* Mutated form: the TTL is never set.
CountedForever(c, n) == Gate(c, n)

Counted(c, n) == IF n = 1 THEN Goto(c, "expire") ELSE Gate(c, n)

\* INCR.  Its error is ignored and counts as 0 attempts.  The client library
\* repeats a command whose answer it lost (MaxRetries): it is then applied
\* twice and only the second value is seen.
Increment(c) ==
  LET e == calls[c].email
      n == Capped(attempts[e].count + 1)
      m == Capped(attempts[e].count + 2)
  IN  /\ At(c, "incr")
      /\ \/ Command(Incr(e, n), UNCHANGED attempts, Counted(c, n), Gate(c, 0))
         \/ Fault /\ Incr(e, m) /\ Counted(c, m)
      /\ UNCHANGED <<users, resets, refresh, issued, key>>

\* EXPIRE, by the call that saw 1; its error is ignored as well.
Expire(c) ==
  /\ At(c, "expire")
  /\ Command(SetTTL(calls[c].email), UNCHANGED attempts,
             Gate(c, 1), Gate(c, 1))
  /\ UNCHANGED <<users, resets, refresh, issued, key>>

\* Mutated form: IsActive is not looked at.
AuthenticateAny(c) ==
  /\ At(c, "lookup")
  /\ IF \E u \in Holders(calls[c].email) : users[u].pwd = calls[c].pwd
       THEN \E u \in Holders(calls[c].email) : GotoAs(c, "clear", u)
       ELSE Reply(c, "unauthenticated")
  /\ UNCHANGED <<stores, faults>>

\* GetByEmail, IsActive, Verify.
Authenticate(c) ==
  /\ At(c, "lookup")
  /\ \/ /\ Holders(calls[c].email) = {}
        /\ Query(Reply(c, "unauthenticated"), Reply(c, "unauthenticated"))
     \/ \E u \in Holders(calls[c].email) :
          Query(\/ ~users[u].active /\ Reply(c, "disabled")
                \/ /\ users[u].active
                   /\ users[u].pwd # calls[c].pwd
                   /\ Reply(c, "unauthenticated")
                \/ /\ users[u].active
                   /\ users[u].pwd = calls[c].pwd
                   /\ GotoAs(c, "clear", u),
                Reply(c, "unauthenticated"))
  /\ UNCHANGED stores

ClearLoginAttempts(c) ==
  /\ At(c, "clear")
  /\ Command(DelCounter(calls[c].email), UNCHANGED attempts,
             Goto(c, "touch"), Goto(c, "touch"))
  /\ UNCHANGED <<users, resets, refresh, issued, key>>

\* UpdateLastLogin only writes last_login_at, which nothing reads.  The
\* tokens made next are local; GetTokenID parses the refresh token with the
\* public key and fails when the key files do not belong together.
UpdateLastLogin(c) ==
  /\ At(c, "touch")
  /\ IF key.mode = "mixed"
       THEN Query(Reply(c, "internal"), Reply(c, "internal"))
       ELSE Query(Goto(c, "store"), Goto(c, "store"))
  /\ UNCHANGED stores

\* Mutated form: the address is stored, and not the id (both are strings).
RememberEmail(c) == refresh' = [refresh EXCEPT ![c] = calls[c].email]

Remember(c) == refresh' = [refresh EXCEPT ![c] = calls[c].user]

\* The access and the refresh token go out together, as one member of issued:
\* ValidateToken (service.go:278) takes either.
SetRefreshToken(c) ==
  /\ At(c, "store")
  /\ \/ /\ Remember(c)
        /\ issued' = issued \cup {[user |-> calls[c].user, gen |-> key.gen]}
        /\ Reply(c, "ok")
        /\ UNCHANGED faults
     \/ /\ Fault
        /\ UNCHANGED refresh \/ Remember(c)
        /\ Reply(c, "internal")
        /\ UNCHANGED issued
  /\ UNCHANGED <<users, attempts, resets, key>>

----------------------------------------------------------------------------
(* ForgotPassword *)

ForgotPassword(c) ==
  /\ Spare(resets, {"find", "grant"})
  /\ \E e \in Emails : Start(c, "ForgotPassword", "find", e, None, None)
  /\ UNCHANGED <<stores, faults>>

\* GetByEmail; an unknown address and a failed query get the same answer as
\* an address that is known.
FindAccount(c) ==
  /\ At(c, "find")
  /\ \/ /\ Holders(calls[c].email) = {}
        /\ Query(Reply(c, "ok"), Reply(c, "ok"))
     \/ \E u \in Holders(calls[c].email) :
          Query(GotoAs(c, "grant", u), Reply(c, "ok"))
  /\ UNCHANGED stores

SetPasswordResetToken(c) ==
  /\ At(c, "grant")
  /\ \E t \in ResetTokens :
       /\ resets[t] = None
       /\ Command(resets' = [resets EXCEPT ![t] = calls[c].user],
                  UNCHANGED resets, Reply(c, "ok"), Reply(c, "internal"))
  /\ UNCHANGED <<users, attempts, refresh, issued, key>>

----------------------------------------------------------------------------
(* ResetPassword *)

ResetPassword(c) ==
  /\ \E t \in ResetTokens, p \in Passwords :
       /\ resets[t] # None
       /\ Start(c, "ResetPassword", "redeem", None, p, t)
  /\ UNCHANGED <<stores, faults>>

GetPasswordResetToken(c) ==
  LET u == resets[calls[c].token]
  IN  /\ At(c, "redeem")
      /\ Query(IF u = Gone THEN Reply(c, "badtoken") ELSE GotoAs(c, "update", u),
               Reply(c, "badtoken"))
      /\ UNCHANGED stores

\* UPDATE ... WHERE id = $2; no row matched is an error.
UpdatePassword(c) ==
  LET u == calls[c].user
  IN  /\ At(c, "update")
      /\ IF Live(u)
           THEN Command(users' = [users EXCEPT ![u].pwd = calls[c].pwd],
                        UNCHANGED users,
                        Goto(c, "drop"), Reply(c, "internal"))
           ELSE /\ Query(Reply(c, "internal"), Reply(c, "internal"))
                /\ UNCHANGED users
      /\ UNCHANGED <<attempts, resets, refresh, issued, key>>

\* Mutated form: the token is left to its TTL.
KeepToken(t) == UNCHANGED resets

DropToken(t) == resets' = [resets EXCEPT ![t] = Gone]

\* The error of DEL is ignored.
DeletePasswordResetToken(c) ==
  /\ At(c, "drop")
  /\ Command(DropToken(calls[c].token), UNCHANGED resets,
             Reply(c, "ok"), Reply(c, "ok"))
  /\ UNCHANGED <<users, attempts, refresh, issued, key>>

----------------------------------------------------------------------------
(* ValidateToken *)

\* Mutated form: the signature is not checked.
AnySignature(t) == TRUE

\* Signature check: the key that signed is the key that verifies.
SignedByUs(t) == t.gen = key.gen

\* A token that has expired, or whose key is no more, is answered at once.
ValidateToken(c) ==
  /\ \E t \in issued :
       \/ /\ SignedByUs(t)
          /\ Start(c, "ValidateToken", "getbyid", None, None, t)
       \/ Answer(c, "ValidateToken", "notvalid")
  /\ UNCHANGED <<stores, faults>>

GetByID(c) ==
  LET u == calls[c].token.user
  IN  /\ At(c, "getbyid")
      /\ Query(IF Live(u) /\ users[u].active
                 THEN Reply(c, "valid") ELSE Reply(c, "notvalid"),
               Reply(c, "notvalid"))
      /\ UNCHANGED stores

----------------------------------------------------------------------------
(* Around the handlers *)

\* A malformed field (module FieldRules) ends the call before any store is
\* asked: the early returns at the top of each handler.
Reject(c) ==
  /\ \E op \in Methods : Answer(c, op, "invalid")
  /\ UNCHANGED <<stores, faults>>

\* Redis counts the TTL of a counter down and drops the key at its end.
Tick(e) ==
  /\ attempts[e].ttl > 0
  /\ attempts' = [attempts EXCEPT ![e] =
       IF @.ttl = 1 THEN NoCounter
       ELSE [count |-> @.count, ttl |-> @.ttl - 1]]
  /\ UNCHANGED <<users, resets, refresh, issued, key, calls, faults>>

\* The TTLs of reset tokens (1h) and refresh tokens are far longer than a
\* call: they may run out at any time.
ResetTokenExpires(t) ==
  /\ resets[t] \notin {None, Gone}
  /\ DropToken(t)
  /\ UNCHANGED <<users, attempts, refresh, issued, key, calls, faults>>

RefreshTokenExpires(c) ==
  /\ refresh[c] # None
  /\ refresh' = [refresh EXCEPT ![c] = None]
  /\ UNCHANGED <<users, attempts, resets, issued, key, calls, faults>>

\* UserRepository.Delete (soft) and HardDelete: operations of the repository
\* that no handler calls.
Delete(u) ==
  /\ Live(u)
  /\ users' = [users EXCEPT ![u].active = FALSE]
  /\ UNCHANGED <<attempts, resets, refresh, issued, key, calls, faults>>

HardDelete(u) ==
  /\ Live(u)
  /\ users' = [users EXCEPT ![u] = Gone]
  /\ UNCHANGED <<attempts, resets, refresh, issued, key, calls, faults>>

\* The process dies and comes back: its calls are lost, the stores are not,
\* and a key that was generated in memory is generated anew.
Restart ==
  /\ Fault
  /\ calls' = [c \in Calls |-> Idle]
  /\ key' = [key EXCEPT !.gen = IF key.mode = "memory" THEN @ + 1 ELSE @]
  /\ UNCHANGED <<users, attempts, resets, refresh, issued>>

----------------------------------------------------------------------------

Init ==
  /\ users = InitialUsers
  /\ attempts = [e \in Emails |-> NoCounter]
  /\ resets = [t \in ResetTokens |-> None]
  /\ refresh = [c \in Calls |-> None]
  /\ issued = {}
  /\ key \in [mode : KeyModes, gen : {0}]
  /\ calls = [c \in Calls |-> Idle]
  /\ faults = 0

Arrive(c) ==
  \/ SignUp(c) \/ Login(c) \/ ForgotPassword(c) \/ ResetPassword(c)
  \/ ValidateToken(c) \/ Reject(c)

Step(c) ==
  \/ EmailExists(c) \/ Create(c)
  \/ Increment(c) \/ Expire(c) \/ Authenticate(c) \/ ClearLoginAttempts(c)
  \/ UpdateLastLogin(c) \/ SetRefreshToken(c)
  \/ FindAccount(c) \/ SetPasswordResetToken(c)
  \/ GetPasswordResetToken(c) \/ UpdatePassword(c)
  \/ DeletePasswordResetToken(c)
  \/ GetByID(c)

Environment ==
  \/ \E e \in Emails : Tick(e)
  \/ \E t \in ResetTokens : ResetTokenExpires(t)
  \/ \E c \in Calls : RefreshTokenExpires(c)
  \/ \E u \in UserIds : Delete(u) \/ HardDelete(u)
  \/ Restart

Next ==
  \/ \E c \in Calls : Arrive(c) \/ Step(c)
  \/ Environment

Spec == Init /\ [][Next]_vars

\* The scheduler runs every goroutine and every store call ends, in an answer
\* or in the client's timeout; Redis keeps counting down.  Clients, expiry of
\* tokens, operators and crashes owe nothing.
Fairness ==
  /\ \A c \in Calls : WF_vars(Step(c))
  /\ \A e \in Emails : WF_vars(Tick(e))

FairSpec == Spec /\ Fairness

----------------------------------------------------------------------------
(* Properties *)

LoginLabels == {"incr", "expire", "lookup", "clear", "touch", "store"}

AllLabels ==
  LoginLabels \cup {"idle", "done", "exists", "create", "find", "grant",
                   "redeem", "update", "drop", "getbyid"}

\* Which labels a request of each kind goes through.
Labels(op) ==
  CASE op = "SignUp" -> {"exists", "create", "done"}
    [] op = "Login" -> LoginLabels \cup {"done"}
    [] op = "ForgotPassword" -> {"find", "grant", "done"}
    [] op = "ResetPassword" -> {"redeem", "update", "drop", "done"}
    [] op = "ValidateToken" -> {"getbyid", "done"}
    [] op = "none" -> {"idle"}

Replies == {"none", "ok", "exists", "internal", "locked", "unauthenticated",
            "disabled", "badtoken", "valid", "notvalid", "invalid"}

Request ==
  [op : AllMethods \cup {"none"}, pc : AllLabels,
   email : Emails \cup {None}, pwd : Passwords \cup {None},
   user : UserIds \cup {None},
   token : ResetTokens \cup AccessTokens \cup {None}, reply : Replies]

\* A handler is at a label of its own method and holds the values that label
\* works with.
WellFormed(r) ==
  /\ r.pc \in Labels(r.op)
  /\ r.pc \in LoginLabels \cup {"exists", "create", "find"}
       => r.email \in Emails
  /\ r.pc \in LoginLabels \cup {"exists", "create", "redeem", "update"}
       => r.pwd \in Passwords
  /\ r.pc \in {"clear", "touch", "store", "grant", "update", "drop"}
       => r.user \in UserIds
  /\ r.pc \in {"redeem", "update", "drop"} => r.token \in ResetTokens
  /\ r.pc = "getbyid" => r.token \in AccessTokens

CallsOK ==
  /\ calls \in [Calls -> Request]
  /\ \A c \in Calls : WellFormed(calls[c])

Counter == [count : 0..CountCap, ttl : 0..LockoutTicks]

StoresOK ==
  /\ users \in [UserIds -> Row \cup {None, Gone}]
  /\ attempts \in [Emails -> Counter]
  /\ resets \in [ResetTokens -> UserIds \cup {None, Gone}]
  /\ refresh \in [Calls -> UserIds \cup {None}]
  /\ issued \subseteq AccessTokens
  /\ faults \in 0..MaxFaults
  /\ key \in [mode : KeyModes, gen : 0..faults]

\* A token somebody redeems was handed out.
TokensOK ==
  \A c \in Calls :
    calls[c].pc \in {"redeem", "update", "drop"}
      => resets[calls[c].token] # None

\* Every variable has its type, and every request the shape of its label.
TypeOK == StoresOK /\ CallsOK /\ TokensOK

\* TrackLoginAttempt sets the TTL in a command of its own (redis.go:152, 159).
\* A counter without a TTL is one whose creator is about to set it, unless a
\* store call failed or the process died in between.
CounterExpires ==
  \A e \in Emails :
    attempts[e].count > 0 /\ attempts[e].ttl = 0 =>
      \/ \E c \in Calls : calls[c].pc = "expire" /\ calls[c].email = e
      \/ faults > 0

\* An address with too many attempts is let in again ("please try again
\* later", service.go:128): its counter does not stay above the limit, unless a
\* store call fails, although attempts keep coming.
LockoutEnds ==
  \A e \in Emails :
    attempts[e].count > MaxLoginAttempts ~> attempts[e].count = 0 \/ faults > 0

\* The same, whatever fails: what the reply says.
TryAgainLater ==
  \A e \in Emails :
    attempts[e].count > MaxLoginAttempts ~> attempts[e].count = 0
=============================================================================
