-------------------------- MODULE AuthServiceProofs --------------------------
(***************************************************************************)
(* What holds of AuthService for every number of handlers, addresses,      *)
(* accounts, faults and every limit of the throttle; and, in the second    *)
(* half, that AuthService implements AuthContract: the initial states map  *)
(* to initial states, and every step to a step of the contract or to a     *)
(* stutter.                                                                *)
(***************************************************************************)
EXTENDS AuthRefinement, TLAPS

----------------------------------------------------------------------------
(* How the control operators move a request. *)

\* The reply of a handler leaves a request of the right shape.
LEMMA ReplyOK ==
  ASSUME CallsOK, NEW c \in Calls, calls[c].op # "none",
         NEW r \in Replies, Reply(c, r)
  PROVE  CallsOK'
<1>1. WellFormed([Idle EXCEPT !.op = calls[c].op, !.pc = "done", !.reply = r])
  BY DEF CallsOK, Request, WellFormed, Idle, AllMethods, Labels, LoginLabels
<1>2. [Idle EXCEPT !.op = calls[c].op, !.pc = "done", !.reply = r] \in Request
  BY DEF CallsOK, Request, Idle, AllMethods, AllLabels, Replies
<1>. QED
  BY <1>1, <1>2 DEF CallsOK, Reply

\* A handler that goes on keeps its shape when it knows what the next label
\* needs.
LEMMA GotoOK ==
  ASSUME CallsOK, NEW c \in Calls, NEW l \in AllLabels,
         WellFormed([calls[c] EXCEPT !.pc = l]), Goto(c, l)
  PROVE  CallsOK'
<1>1. [calls[c] EXCEPT !.pc = l] \in Request
  BY DEF CallsOK, Request
<1>. QED
  BY <1>1 DEF CallsOK, Goto

LEMMA GotoAsOK ==
  ASSUME CallsOK, NEW c \in Calls, NEW l \in AllLabels, NEW u \in UserIds,
         WellFormed([calls[c] EXCEPT !.pc = l, !.user = u]), GotoAs(c, l, u)
  PROVE  CallsOK'
<1>1. [calls[c] EXCEPT !.pc = l, !.user = u] \in Request
  BY DEF CallsOK, Request
<1>. QED
  BY <1>1 DEF CallsOK, GotoAs

\* An arriving request has the shape its first label needs.
LEMMA StartOK ==
  ASSUME CallsOK, NEW c \in Calls, NEW op \in AllMethods, NEW l \in AllLabels,
         NEW e \in Emails \cup {None}, NEW p \in Passwords \cup {None},
         NEW t \in ResetTokens \cup AccessTokens \cup {None},
         WellFormed([Idle EXCEPT !.op = op, !.pc = l, !.email = e, !.pwd = p,
                                 !.token = t]),
         Start(c, op, l, e, p, t)
  PROVE  CallsOK'
<1>1. [Idle EXCEPT !.op = op, !.pc = l, !.email = e, !.pwd = p, !.token = t]
        \in Request
  BY DEF Request, Idle, Replies
<1>. QED
  BY <1>1 DEF CallsOK, Start

LEMMA AnswerOK ==
  ASSUME CallsOK, NEW c \in Calls, NEW op \in AllMethods, NEW r \in Replies,
         Answer(c, op, r)
  PROVE  CallsOK'
<1>1. WellFormed([Idle EXCEPT !.op = op, !.pc = "done", !.reply = r])
  BY DEF WellFormed, Idle, AllMethods, Labels, LoginLabels
<1>2. [Idle EXCEPT !.op = op, !.pc = "done", !.reply = r] \in Request
  BY DEF Request, Idle, AllLabels, Replies
<1>. QED
  BY <1>1, <1>2 DEF CallsOK, Answer

----------------------------------------------------------------------------
(* Type correctness. *)

LEMMA InitTypeOK == Init => TypeOK
<1>. SUFFICES ASSUME Init PROVE TypeOK
  OBVIOUS
<1>1. StoresOK
  BY BackendAssumption, ConstantsAssumption DEF Init, StoresOK, Counter, NoCounter, CountCap
<1>2. CallsOK
  <2>1. Idle \in Request
    BY DEF Idle, Request, AllLabels, Replies
  <2>2. WellFormed(Idle)
    BY DEF Idle, WellFormed, Labels, LoginLabels
  <2>. QED
    BY <2>1, <2>2 DEF Init, CallsOK
<1>3. TokensOK
  BY DEF Init, TokensOK, Idle
<1>. QED
  BY <1>1, <1>2, <1>3 DEF TypeOK

\* A step that leaves the stores alone, whether a call failed or not.
LEMMA FaultsOK ==
  ASSUME StoresOK, Fault \/ UNCHANGED faults
  PROVE  /\ faults' \in 0..MaxFaults
         /\ key \in [mode : KeyModes, gen : 0..faults']
<1>1. faults \in 0..MaxFaults /\ MaxFaults \in Nat
  BY BackendAssumption, ConstantsAssumption DEF StoresOK
<1>2. faults' \in 0..MaxFaults /\ faults <= faults'
  BY <1>1 DEF Fault
<1>3. key \in [mode : KeyModes, gen : 0..faults]
  BY DEF StoresOK
<1>4. 0..faults \subseteq 0..faults'
  BY <1>1, <1>2
<1>. QED
  BY <1>2, <1>3, <1>4

LEMMA SameStoresOK ==
  ASSUME StoresOK, UNCHANGED stores, Fault \/ UNCHANGED faults
  PROVE  StoresOK'
BY FaultsOK DEF StoresOK, stores

\* A request that is not redeeming a token cannot break TokensOK.
LEMMA SameTokensOK ==
  ASSUME CallsOK, TokensOK, NEW c \in Calls,
         UNCHANGED resets,
         calls' = [calls EXCEPT ![c] = calls'[c]],
         calls'[c].pc \in {"update", "drop"} =>
           /\ calls[c].pc \in {"redeem", "update", "drop"}
           /\ calls'[c].token = calls[c].token,
         calls'[c].pc # "redeem"
  PROVE  TokensOK'
BY DEF TokensOK, CallsOK

LEMMA ReplyMoves ==
  ASSUME CallsOK, NEW c \in Calls, NEW r, Reply(c, r)
  PROVE  calls' = [calls EXCEPT ![c] = calls'[c]] /\ calls'[c].pc = "done"
BY DEF Reply, CallsOK, Idle

LEMMA GotoMoves ==
  ASSUME CallsOK, NEW c \in Calls, NEW l, Goto(c, l)
  PROVE  /\ calls' = [calls EXCEPT ![c] = calls'[c]]
         /\ calls'[c].pc = l
         /\ calls'[c].token = calls[c].token
BY DEF Goto, CallsOK, Request

LEMMA GotoAsMoves ==
  ASSUME CallsOK, NEW c \in Calls, NEW l, NEW u, GotoAs(c, l, u)
  PROVE  /\ calls' = [calls EXCEPT ![c] = calls'[c]]
         /\ calls'[c].pc = l
         /\ calls'[c].token = calls[c].token
BY DEF GotoAs, CallsOK, Request

LEMMA StartMoves ==
  ASSUME CallsOK, NEW c \in Calls, NEW op, NEW l, NEW e, NEW p, NEW t,
         Start(c, op, l, e, p, t)
  PROVE  /\ calls' = [calls EXCEPT ![c] = calls'[c]]
         /\ calls'[c].pc = l
         /\ calls'[c].token = t
         /\ op \in AllMethods
BY BackendAssumption, ConstantsAssumption DEF Start, CallsOK, Idle

LEMMA SignUpSteps ==
  ASSUME TypeOK, NEW c \in Calls,
         SignUp(c) \/ EmailExists(c) \/ Create(c)
  PROVE  TypeOK'
<1>. USE DEF TypeOK
<1>1. CASE SignUp(c)
  <2>1. PICK e \in Emails, p \in Passwords :
          Start(c, "SignUp", "exists", e, p, None)
    BY <1>1 DEF SignUp
  <2>2. CallsOK'
    BY <2>1, StartOK DEF WellFormed, Labels, LoginLabels, AllLabels, AllMethods, Idle
  <2>3. StoresOK'
    BY <1>1, SameStoresOK DEF SignUp
  <2>4. TokensOK'
    BY <1>1, <2>1, StartMoves, SameTokensOK DEF SignUp, stores
  <2>. QED
    BY <2>2, <2>3, <2>4
<1>2. CASE EmailExists(c)
  <2>1. calls[c].op = "SignUp" /\ WellFormed([calls[c] EXCEPT !.pc = "create"])
    BY <1>2 DEF EmailExists, At, CallsOK, WellFormed, Labels, LoginLabels, Request, AllMethods
  <2>2. CallsOK'
    BY <1>2, <2>1, ReplyOK, GotoOK DEF EmailExists, Query, Replies, AllLabels
  <2>3. StoresOK'
    BY <1>2, SameStoresOK DEF EmailExists, Query
  <2>4. TokensOK'
    BY <1>2, ReplyMoves, GotoMoves, SameTokensOK DEF EmailExists, Query, stores
  <2>. QED
    BY <2>2, <2>3, <2>4
<1>3. CASE Create(c)
  <2>1. calls[c].op = "SignUp" /\ calls[c].email \in Emails /\ calls[c].pwd \in Passwords
    BY <1>3 DEF Create, At, CallsOK, WellFormed, Labels, LoginLabels, Request, AllMethods
  <2>2. Reply(c, "ok") \/ Reply(c, "internal")
    BY <1>3 DEF Create, Command
  <2>3. CallsOK'
    BY <2>1, <2>2, ReplyOK DEF Replies
  <2>4. StoresOK'
    <3>1. users' \in [UserIds -> Row \cup {None, Gone}]
      <4>1. [email |-> calls[c].email, pwd |-> calls[c].pwd, active |-> TRUE] \in Row
        BY <2>1 DEF Row
      <4>2. \/ UNCHANGED users
            \/ \E u \in UserIds : Insert(u, calls[c].email, calls[c].pwd)
        BY <1>3 DEF Create, Command
      <4>. QED
        BY <4>1, <4>2 DEF Insert, StoresOK
    <3>2. Fault \/ UNCHANGED faults
      BY <1>3 DEF Create, Command
    <3>. QED
      BY <1>3, <3>1, <3>2, FaultsOK DEF Create, StoresOK
  <2>5. TokensOK'
    BY <1>3, <2>2, ReplyMoves, SameTokensOK DEF Create
  <2>. QED
    BY <2>3, <2>4, <2>5
<1>. QED
  BY <1>1, <1>2, <1>3

\* What a login knows at each of its labels.
LEMMA LoginShape ==
  ASSUME CallsOK, NEW c \in Calls, calls[c].pc \in LoginLabels
  PROVE  /\ calls[c].op = "Login"
         /\ calls[c].email \in Emails
         /\ calls[c].pwd \in Passwords
         /\ calls[c].pc \in {"clear", "touch", "store"} => calls[c].user \in UserIds
BY DEF CallsOK, WellFormed, Labels, LoginLabels, Request, AllMethods

\* The gate ends the login or sends it to the account.
LEMMA GateOK ==
  ASSUME CallsOK, TokensOK, UNCHANGED resets,
         NEW c \in Calls, calls[c].pc \in {"incr", "expire"},
         NEW n, Gate(c, n) \/ Counted(c, n)
  PROVE  CallsOK' /\ TokensOK'
<1>1. /\ calls[c].op = "Login"
      /\ WellFormed([calls[c] EXCEPT !.pc = "expire"])
      /\ WellFormed([calls[c] EXCEPT !.pc = "lookup"])
  BY LoginShape DEF WellFormed, Labels, LoginLabels, CallsOK, Request
<1>2. Reply(c, "locked") \/ Goto(c, "lookup") \/ Goto(c, "expire")
  BY DEF Gate, Counted
<1>3. CallsOK'
  BY <1>1, <1>2, ReplyOK, GotoOK DEF Replies, AllLabels, LoginLabels
<1>4. TokensOK'
  BY <1>2, ReplyMoves, GotoMoves, SameTokensOK
<1>. QED
  BY <1>3, <1>4

LEMMA CappedType ==
  ASSUME NEW n \in Nat PROVE Capped(n) \in 0..CountCap
BY BackendAssumption, ConstantsAssumption DEF Capped, CountCap

LEMMA ThrottleSteps ==
  ASSUME TypeOK, NEW c \in Calls,
         Login(c) \/ Increment(c) \/ Expire(c) \/ ClearLoginAttempts(c)
  PROVE  TypeOK'
<1>. USE DEF TypeOK
<1>1. CASE Login(c)
  <2>1. PICK e \in Emails, p \in Passwords :
          Start(c, "Login", "incr", e, p, None)
    BY <1>1 DEF Login
  <2>2. CallsOK'
    BY <2>1, StartOK DEF WellFormed, Labels, LoginLabels, AllLabels, AllMethods, Idle
  <2>3. StoresOK'
    BY <1>1, FaultsOK DEF Login, StoresOK
  <2>4. TokensOK'
    BY <1>1, <2>1, StartMoves, SameTokensOK DEF Login
  <2>. QED
    BY <2>2, <2>3, <2>4
<1>2. CASE Increment(c)
  <2>. DEFINE e == calls[c].email
              n == Capped(attempts[e].count + 1)
              m == Capped(attempts[e].count + 2)
  <2>1. e \in Emails /\ attempts[e].count \in Nat
    BY <1>2, LoginShape DEF Increment, At, LoginLabels, StoresOK, Counter
  <2>2. n \in 0..CountCap /\ m \in 0..CountCap
    <3>. HIDE DEF e
    <3>. QED
      BY <2>1, CappedType
  <2>3. Incr(e, n) \/ Incr(e, m) \/ UNCHANGED attempts
    BY <1>2 DEF Increment, Command
  <2>4. attempts' \in [Emails -> Counter]
    <3>. HIDE DEF e, n, m
    <3>. QED
      BY <2>1, <2>2, <2>3 DEF Incr, StoresOK, Counter
  <2>5. Fault \/ UNCHANGED faults
    BY <1>2 DEF Increment, Command
  <2>6. StoresOK'
    BY <1>2, <2>4, <2>5, FaultsOK DEF Increment, StoresOK
  <2>7. Counted(c, n) \/ Counted(c, m) \/ Gate(c, 0)
    BY <1>2 DEF Increment, Command
  <2>8. calls[c].pc = "incr" /\ UNCHANGED resets
    BY <1>2 DEF Increment, At
  <2>. QED
    BY <2>6, <2>7, <2>8, GateOK
<1>3. CASE Expire(c)
  <2>1. calls[c].pc = "expire" /\ UNCHANGED resets /\ Gate(c, 1)
    BY <1>3 DEF Expire, Command, At
  <2>2. attempts' \in [Emails -> Counter]
    <3>1. SetTTL(calls[c].email) \/ UNCHANGED attempts
      BY <1>3 DEF Expire, Command
    <3>2. LockoutTicks \in 0..LockoutTicks /\ 0 \in 0..LockoutTicks
      BY BackendAssumption, ConstantsAssumption
    <3>. QED
      BY <3>1, <3>2 DEF SetTTL, StoresOK, Counter
  <2>3. Fault \/ UNCHANGED faults
    BY <1>3 DEF Expire, Command
  <2>4. StoresOK'
    BY <1>3, <2>2, <2>3, FaultsOK DEF Expire, StoresOK
  <2>. QED
    BY <2>1, <2>4, GateOK
<1>4. CASE ClearLoginAttempts(c)
  <2>1. calls[c].pc = "clear" /\ UNCHANGED resets /\ Goto(c, "touch")
    BY <1>4 DEF ClearLoginAttempts, Command, At
  <2>2. WellFormed([calls[c] EXCEPT !.pc = "touch"])
    BY <2>1, LoginShape DEF WellFormed, Labels, LoginLabels, CallsOK, Request
  <2>3. CallsOK'
    BY <2>1, <2>2, GotoOK DEF AllLabels, LoginLabels
  <2>4. TokensOK'
    BY <2>1, GotoMoves, SameTokensOK
  <2>5. attempts' \in [Emails -> Counter]
    <3>1. DelCounter(calls[c].email) \/ UNCHANGED attempts
      BY <1>4 DEF ClearLoginAttempts, Command
    <3>2. NoCounter \in Counter
      BY BackendAssumption, ConstantsAssumption DEF NoCounter, Counter, CountCap
    <3>. QED
      BY <3>1, <3>2 DEF DelCounter, StoresOK
  <2>6. Fault \/ UNCHANGED faults
    BY <1>4 DEF ClearLoginAttempts, Command
  <2>7. StoresOK'
    BY <1>4, <2>5, <2>6, FaultsOK DEF ClearLoginAttempts, StoresOK
  <2>. QED
    BY <2>3, <2>4, <2>7
<1>. QED
  BY <1>1, <1>2, <1>3, <1>4

LEMMA LoginSteps ==
  ASSUME TypeOK, NEW c \in Calls,
         Authenticate(c) \/ UpdateLastLogin(c) \/ SetRefreshToken(c)
  PROVE  TypeOK'
<1>. USE DEF TypeOK
<1>1. CASE Authenticate(c)
  <2>1. calls[c].pc = "lookup" /\ UNCHANGED stores
    BY <1>1 DEF Authenticate, At
  <2>2. \/ Reply(c, "unauthenticated") \/ Reply(c, "disabled")
        \/ \E u \in UserIds : GotoAs(c, "clear", u)
    BY <1>1 DEF Authenticate, Query, Holders
  <2>3. ASSUME NEW u \in UserIds
        PROVE  WellFormed([calls[c] EXCEPT !.pc = "clear", !.user = u])
    BY <2>1, LoginShape DEF WellFormed, Labels, LoginLabels, CallsOK, Request
  <2>4. CallsOK'
    BY <2>1, <2>2, <2>3, ReplyOK, GotoAsOK, LoginShape DEF Replies, AllLabels, LoginLabels
  <2>5. TokensOK'
    BY <2>1, <2>2, ReplyMoves, GotoAsMoves, SameTokensOK DEF stores
  <2>6. Fault \/ UNCHANGED faults
    BY <1>1 DEF Authenticate, Query
  <2>. QED
    BY <2>1, <2>4, <2>5, <2>6, SameStoresOK
<1>2. CASE UpdateLastLogin(c)
  <2>1. calls[c].pc = "touch" /\ UNCHANGED stores
    BY <1>2 DEF UpdateLastLogin, At
  <2>2. Reply(c, "internal") \/ Goto(c, "store")
    BY <1>2 DEF UpdateLastLogin, Query
  <2>3. WellFormed([calls[c] EXCEPT !.pc = "store"])
    BY <2>1, LoginShape DEF WellFormed, Labels, LoginLabels, CallsOK, Request
  <2>4. CallsOK'
    BY <2>1, <2>2, <2>3, ReplyOK, GotoOK, LoginShape DEF Replies, AllLabels, LoginLabels
  <2>5. TokensOK'
    BY <2>1, <2>2, ReplyMoves, GotoMoves, SameTokensOK DEF stores
  <2>6. Fault \/ UNCHANGED faults
    BY <1>2 DEF UpdateLastLogin, Query
  <2>. QED
    BY <2>1, <2>4, <2>5, <2>6, SameStoresOK
<1>3. CASE SetRefreshToken(c)
  <2>1. /\ calls[c].pc = "store" /\ UNCHANGED resets
        /\ Reply(c, "ok") \/ Reply(c, "internal")
    BY <1>3 DEF SetRefreshToken, At
  <2>2. CallsOK'
    BY <2>1, ReplyOK, LoginShape DEF Replies, LoginLabels
  <2>3. TokensOK'
    BY <2>1, ReplyMoves, SameTokensOK
  <2>4. calls[c].user \in UserIds
    BY <2>1, LoginShape DEF LoginLabels
  <2>5. refresh' \in [Calls -> UserIds \cup {None}]
    BY <1>3, <2>4 DEF SetRefreshToken, Remember, StoresOK
  <2>6. issued' \subseteq AccessTokens
    <3>1. key.gen \in 0..MaxFaults
      BY BackendAssumption, ConstantsAssumption DEF StoresOK
    <3>. QED
      BY <1>3, <2>4, <3>1 DEF SetRefreshToken, StoresOK, AccessTokens
  <2>7. Fault \/ UNCHANGED faults
    BY <1>3 DEF SetRefreshToken
  <2>8. StoresOK'
    BY <1>3, <2>5, <2>6, <2>7, FaultsOK DEF SetRefreshToken, StoresOK
  <2>. QED
    BY <2>2, <2>3, <2>8
<1>. QED
  BY <1>1, <1>2, <1>3

\* What the password reset handlers know at each of their labels.
LEMMA ResetShape ==
  ASSUME CallsOK, NEW c \in Calls
  PROVE  /\ calls[c].pc \in {"find", "grant"} =>
              calls[c].op = "ForgotPassword" /\ calls[c].email \in Emails \cup {None}
         /\ calls[c].pc \in {"redeem", "update", "drop"} =>
              calls[c].op = "ResetPassword" /\ calls[c].token \in ResetTokens
         /\ calls[c].pc \in {"grant", "update", "drop"} => calls[c].user \in UserIds
         /\ calls[c].pc \in {"redeem", "update"} => calls[c].pwd \in Passwords
         /\ calls[c].pc = "getbyid" =>
              calls[c].op = "ValidateToken" /\ calls[c].token \in AccessTokens
BY DEF CallsOK, WellFormed, Labels, LoginLabels, Request, AllMethods

\* A token that goes from None to an account, or to Gone, is still handed out.
LEMMA TokensStayOut ==
  ASSUME TypeOK, NEW c \in Calls, NEW t \in ResetTokens, NEW v,
         v # None,
         resets' = [resets EXCEPT ![t] = v],
         calls' = [calls EXCEPT ![c] = calls'[c]],
         calls'[c].pc \notin {"redeem", "update", "drop"}
  PROVE  TokensOK'
BY DEF TypeOK, StoresOK, TokensOK, CallsOK, WellFormed

LEMMA ForgotPasswordSteps ==
  ASSUME TypeOK, NEW c \in Calls,
         ForgotPassword(c) \/ FindAccount(c) \/ SetPasswordResetToken(c)
  PROVE  TypeOK'
<1>. USE DEF TypeOK
<1>1. CASE ForgotPassword(c)
  <2>1. PICK e \in Emails : Start(c, "ForgotPassword", "find", e, None, None)
    BY <1>1 DEF ForgotPassword
  <2>2. CallsOK'
    BY <2>1, StartOK DEF WellFormed, Labels, LoginLabels, AllLabels, AllMethods, Idle
  <2>3. StoresOK'
    BY <1>1, SameStoresOK DEF ForgotPassword
  <2>4. TokensOK'
    BY <1>1, <2>1, StartMoves, SameTokensOK DEF ForgotPassword, stores
  <2>. QED
    BY <2>2, <2>3, <2>4
<1>2. CASE FindAccount(c)
  <2>1. calls[c].pc = "find" /\ UNCHANGED stores
    BY <1>2 DEF FindAccount, At
  <2>2. Reply(c, "ok") \/ \E u \in UserIds : GotoAs(c, "grant", u)
    BY <1>2 DEF FindAccount, Query, Holders
  <2>3. ASSUME NEW u \in UserIds
        PROVE  WellFormed([calls[c] EXCEPT !.pc = "grant", !.user = u])
    BY <2>1, ResetShape DEF WellFormed, Labels, LoginLabels, CallsOK, Request
  <2>4. CallsOK'
    BY <2>1, <2>2, <2>3, ReplyOK, GotoAsOK, ResetShape DEF Replies, AllLabels
  <2>5. TokensOK'
    BY <2>1, <2>2, ReplyMoves, GotoAsMoves, SameTokensOK DEF stores
  <2>6. Fault \/ UNCHANGED faults
    BY <1>2 DEF FindAccount, Query
  <2>. QED
    BY <2>1, <2>4, <2>5, <2>6, SameStoresOK
<1>3. CASE SetPasswordResetToken(c)
  <2>1. calls[c].pc = "grant" /\ (Reply(c, "ok") \/ Reply(c, "internal"))
    BY <1>3 DEF SetPasswordResetToken, Command, At
  <2>2. calls[c].user \in UserIds /\ calls[c].user # None
    BY <2>1, ResetShape, BackendAssumption, ConstantsAssumption
  <2>3. PICK t \in ResetTokens :
          \/ resets' = [resets EXCEPT ![t] = calls[c].user]
          \/ UNCHANGED resets
    BY <1>3 DEF SetPasswordResetToken, Command
  <2>4. CallsOK'
    BY <2>1, ReplyOK, ResetShape DEF Replies
  <2>5. TokensOK'
    BY <2>1, <2>2, <2>3, ReplyMoves, SameTokensOK, TokensStayOut
  <2>6. Fault \/ UNCHANGED faults
    BY <1>3 DEF SetPasswordResetToken, Command
  <2>7. resets' \in [ResetTokens -> UserIds \cup {None, Gone}]
    BY <2>2, <2>3 DEF StoresOK
  <2>8. StoresOK'
    BY <1>3, <2>6, <2>7, FaultsOK DEF SetPasswordResetToken, StoresOK
  <2>. QED
    BY <2>4, <2>5, <2>8
<1>. QED
  BY <1>1, <1>2, <1>3

LEMMA ResetPasswordSteps ==
  ASSUME TypeOK, NEW c \in Calls,
         \/ ResetPassword(c) \/ GetPasswordResetToken(c)
         \/ UpdatePassword(c) \/ DeletePasswordResetToken(c)
  PROVE  TypeOK'
<1>. USE DEF TypeOK
<1>1. CASE ResetPassword(c)
  <2>1. PICK t \in ResetTokens, p \in Passwords :
          resets[t] # None /\ Start(c, "ResetPassword", "redeem", None, p, t)
    BY <1>1 DEF ResetPassword
  <2>2. CallsOK'
    BY <2>1, StartOK DEF WellFormed, Labels, LoginLabels, AllLabels, AllMethods, Idle
  <2>3. StoresOK'
    BY <1>1, SameStoresOK DEF ResetPassword
  <2>4. TokensOK'
    BY <1>1, <2>1, StartMoves DEF ResetPassword, stores, TokensOK, CallsOK
  <2>. QED
    BY <2>2, <2>3, <2>4
<1>2. CASE GetPasswordResetToken(c)
  <2>. DEFINE u == resets[calls[c].token]
  <2>1. calls[c].pc = "redeem" /\ UNCHANGED stores
    BY <1>2 DEF GetPasswordResetToken, At
  <2>2. u \in UserIds \cup {Gone}
    BY <2>1, ResetShape DEF StoresOK, TokensOK
  <2>3. Reply(c, "badtoken") \/ (u \in UserIds /\ GotoAs(c, "update", u))
    BY <1>2, <2>2 DEF GetPasswordResetToken, Query
  <2>4. u \in UserIds => WellFormed([calls[c] EXCEPT !.pc = "update", !.user = u])
    BY <2>1, ResetShape DEF WellFormed, Labels, LoginLabels, CallsOK, Request
  <2>5. CallsOK'
    <3>. HIDE DEF u
    <3>. QED
      BY <2>1, <2>3, <2>4, ReplyOK, GotoAsOK, ResetShape DEF Replies, AllLabels
  <2>6. TokensOK'
    BY <2>1, <2>3, ReplyMoves, GotoAsMoves, SameTokensOK DEF stores
  <2>7. Fault \/ UNCHANGED faults
    BY <1>2 DEF GetPasswordResetToken, Query
  <2>. QED
    BY <2>1, <2>5, <2>6, <2>7, SameStoresOK
<1>3. CASE UpdatePassword(c)
  <2>1. /\ calls[c].pc = "update" /\ UNCHANGED resets
        /\ Goto(c, "drop") \/ Reply(c, "internal")
    BY <1>3 DEF UpdatePassword, Command, Query, At
  <2>2. WellFormed([calls[c] EXCEPT !.pc = "drop"])
    BY <2>1, ResetShape DEF WellFormed, Labels, LoginLabels, CallsOK, Request
  <2>3. CallsOK'
    BY <2>1, <2>2, ReplyOK, GotoOK, ResetShape DEF Replies, AllLabels
  <2>4. TokensOK'
    BY <2>1, ReplyMoves, GotoMoves, SameTokensOK
  <2>5. users' \in [UserIds -> Row \cup {None, Gone}]
    <3>1. \/ UNCHANGED users
          \/ /\ Live(calls[c].user)
             /\ users' = [users EXCEPT ![calls[c].user].pwd = calls[c].pwd]
      BY <1>3 DEF UpdatePassword, Command, Query
    <3>2. calls[c].user \in UserIds /\ calls[c].pwd \in Passwords
      BY <2>1, ResetShape
    <3>. QED
      BY <3>1, <3>2 DEF Live, StoresOK, Row
  <2>6. Fault \/ UNCHANGED faults
    BY <1>3 DEF UpdatePassword, Command, Query
  <2>7. StoresOK'
    BY <1>3, <2>5, <2>6, FaultsOK DEF UpdatePassword, StoresOK
  <2>. QED
    BY <2>3, <2>4, <2>7
<1>4. CASE DeletePasswordResetToken(c)
  <2>1. calls[c].pc = "drop" /\ Reply(c, "ok")
    BY <1>4 DEF DeletePasswordResetToken, Command, At
  <2>2. DropToken(calls[c].token) \/ UNCHANGED resets
    BY <1>4 DEF DeletePasswordResetToken, Command
  <2>3. calls[c].token \in ResetTokens /\ Gone # None
    BY <2>1, ResetShape, BackendAssumption, ConstantsAssumption
  <2>4. CallsOK'
    BY <2>1, ReplyOK, ResetShape DEF Replies
  <2>5. TokensOK'
    BY <2>1, <2>2, <2>3, ReplyMoves, SameTokensOK, TokensStayOut DEF DropToken
  <2>6. resets' \in [ResetTokens -> UserIds \cup {None, Gone}]
    BY <2>2, <2>3 DEF DropToken, StoresOK
  <2>7. Fault \/ UNCHANGED faults
    BY <1>4 DEF DeletePasswordResetToken, Command
  <2>8. StoresOK'
    BY <1>4, <2>6, <2>7, FaultsOK DEF DeletePasswordResetToken, StoresOK
  <2>. QED
    BY <2>4, <2>5, <2>8
<1>. QED
  BY <1>1, <1>2, <1>3, <1>4

LEMMA ValidateTokenSteps ==
  ASSUME TypeOK, NEW c \in Calls,
         ValidateToken(c) \/ GetByID(c) \/ Reject(c)
  PROVE  TypeOK'
<1>. USE DEF TypeOK
<1>1. CASE ValidateToken(c)
  <2>1. PICK t \in AccessTokens :
          \/ Start(c, "ValidateToken", "getbyid", None, None, t)
          \/ Answer(c, "ValidateToken", "notvalid")
    BY <1>1 DEF ValidateToken, StoresOK
  <2>2. CallsOK'
    BY <2>1, StartOK, AnswerOK
       DEF WellFormed, Labels, LoginLabels, AllLabels, AllMethods, Idle, Replies
  <2>3. TokensOK'
    <3>1. UNCHANGED resets
      BY <1>1 DEF ValidateToken, stores
    <3>2. CASE Start(c, "ValidateToken", "getbyid", None, None, t)
      BY <3>1, <3>2, StartMoves, SameTokensOK
    <3>3. CASE Answer(c, "ValidateToken", "notvalid")
      BY <3>1, <3>3 DEF Answer, TokensOK, CallsOK, Idle
    <3>. QED
      BY <2>1, <3>2, <3>3
  <2>. QED
    BY <1>1, <2>2, <2>3, SameStoresOK DEF ValidateToken
<1>2. CASE GetByID(c)
  <2>1. /\ calls[c].pc = "getbyid" /\ UNCHANGED stores
        /\ Reply(c, "valid") \/ Reply(c, "notvalid")
    BY <1>2 DEF GetByID, Query, At
  <2>2. CallsOK'
    BY <2>1, ReplyOK, ResetShape DEF Replies
  <2>3. TokensOK'
    BY <2>1, ReplyMoves, SameTokensOK DEF stores
  <2>4. Fault \/ UNCHANGED faults
    BY <1>2 DEF GetByID, Query
  <2>. QED
    BY <2>1, <2>2, <2>3, <2>4, SameStoresOK
<1>3. CASE Reject(c)
  <2>1. PICK op \in AllMethods : Answer(c, op, "invalid")
    BY <1>3, BackendAssumption, ConstantsAssumption DEF Reject
  <2>2. CallsOK'
    BY <2>1, AnswerOK DEF Replies
  <2>3. TokensOK'
    BY <1>3, <2>1 DEF Reject, Answer, stores, TokensOK, CallsOK, Idle
  <2>. QED
    BY <1>3, <2>2, <2>3, SameStoresOK DEF Reject
<1>. QED
  BY <1>1, <1>2, <1>3

LEMMA EnvironmentSteps ==
  ASSUME TypeOK, Environment
  PROVE  TypeOK'
<1>. USE DEF TypeOK
<1>1. CASE \E e \in Emails : Tick(e)
  <2>1. PICK e \in Emails : Tick(e)
    BY <1>1
  <2>2. NoCounter \in Counter
    BY BackendAssumption, ConstantsAssumption DEF NoCounter, Counter, CountCap
  <2>3. attempts[e].ttl - 1 \in 0..LockoutTicks
    BY <2>1, BackendAssumption, ConstantsAssumption DEF Tick, StoresOK, Counter
  <2>4. attempts' \in [Emails -> Counter]
    <3>1. [count |-> attempts[e].count, ttl |-> attempts[e].ttl - 1] \in Counter
      BY <2>3 DEF StoresOK, Counter
    <3>. QED
      BY <2>1, <2>2, <3>1 DEF Tick, StoresOK
  <2>5. StoresOK'
    BY <2>1, <2>4, FaultsOK DEF Tick, StoresOK
  <2>. QED
    BY <2>1, <2>5 DEF Tick, CallsOK, TokensOK
<1>2. CASE \E t \in ResetTokens : ResetTokenExpires(t)
  <2>1. PICK t \in ResetTokens : ResetTokenExpires(t)
    BY <1>2
  <2>2. resets' \in [ResetTokens -> UserIds \cup {None, Gone}]
    BY <2>1 DEF ResetTokenExpires, DropToken, StoresOK
  <2>3. StoresOK'
    BY <2>1, <2>2, FaultsOK DEF ResetTokenExpires, StoresOK
  <2>4. TokensOK'
    BY <2>1, BackendAssumption, ConstantsAssumption
       DEF ResetTokenExpires, DropToken, StoresOK, TokensOK, CallsOK, WellFormed
  <2>. QED
    BY <2>1, <2>3, <2>4 DEF ResetTokenExpires, CallsOK
<1>3. CASE \E c \in Calls : RefreshTokenExpires(c)
  BY <1>3, FaultsOK DEF RefreshTokenExpires, StoresOK, CallsOK, TokensOK
<1>4. CASE \E u \in UserIds : Delete(u) \/ HardDelete(u)
  <2>1. PICK u \in UserIds : Delete(u) \/ HardDelete(u)
    BY <1>4
  <2>2. users' \in [UserIds -> Row \cup {None, Gone}]
    BY <2>1 DEF Delete, HardDelete, Live, StoresOK, Row
  <2>3. StoresOK'
    BY <2>1, <2>2, FaultsOK DEF Delete, HardDelete, StoresOK
  <2>. QED
    BY <2>1, <2>3 DEF Delete, HardDelete, CallsOK, TokensOK
<1>5. CASE Restart
  <2>1. /\ Idle \in Request
        /\ WellFormed(Idle)
        /\ Idle.pc = "idle"
    BY DEF Idle, Request, AllLabels, Replies, WellFormed, Labels, LoginLabels
  <2>2. CallsOK' /\ TokensOK'
    BY <1>5, <2>1 DEF Restart, CallsOK, TokensOK
  <2>3. faults' \in 0..MaxFaults /\ key' \in [mode : KeyModes, gen : 0..faults']
    <3>1. faults' = faults + 1 /\ faults < MaxFaults /\ faults \in Nat
      BY <1>5, BackendAssumption, ConstantsAssumption DEF Restart, Fault, StoresOK
    <3>2. key.gen \in 0..faults' /\ key.gen + 1 \in 0..faults'
      BY <3>1 DEF StoresOK
    <3>3. faults' \in 0..MaxFaults
      BY <3>1, BackendAssumption, ConstantsAssumption DEF StoresOK
    <3>4. \E g \in 0..faults' : key' = [key EXCEPT !.gen = g]
      BY <1>5, <3>2 DEF Restart
    <3>. QED
      BY <3>3, <3>4 DEF StoresOK
  <2>4. StoresOK'
    BY <1>5, <2>3 DEF Restart, StoresOK
  <2>. QED
    BY <2>2, <2>4
<1>. QED
  BY <1>1, <1>2, <1>3, <1>4, <1>5 DEF Environment

\* Every variable of AuthService keeps its type and every handler the data its
\* next statement needs (service.go:48-313): no step reads a local that an
\* earlier step has not set.
THEOREM TypeCorrect == Spec => []TypeOK
<1>1. TypeOK /\ [Next]_vars => TypeOK'
  <2>. SUFFICES ASSUME TypeOK, [Next]_vars PROVE TypeOK'
    OBVIOUS
  <2>1. CASE \E c \in Calls : Arrive(c) \/ Step(c)
    BY <2>1, SignUpSteps, ThrottleSteps, LoginSteps, ForgotPasswordSteps,
       ResetPasswordSteps, ValidateTokenSteps DEF Arrive, Step
  <2>2. CASE Environment
    BY <2>2, EnvironmentSteps
  <2>3. CASE UNCHANGED vars
    BY <2>3 DEF vars, TypeOK, StoresOK, CallsOK, TokensOK
  <2>. QED
    BY <2>1, <2>2, <2>3 DEF Next
<1>. QED
  BY InitTypeOK, <1>1, PTL DEF Spec

----------------------------------------------------------------------------
(* One account per address. *)

\* The only ways the users table changes: an INSERT the constraint lets pass,
\* an UPDATE that keeps every address, a DELETE.
LEMMA TableSteps ==
  ASSUME TypeOK, [Next]_vars
  PROVE  \/ UNCHANGED users
         \/ \E u \in UserIds, e \in Emails, p \in Passwords :
              ~Violates(e) /\ Insert(u, e, p)
         \/ \E u \in UserIds : Live(u) /\ \E p \in Passwords :
              users' = [users EXCEPT ![u].pwd = p]
         \/ \E u \in UserIds : Delete(u) \/ HardDelete(u)
<1>. USE DEF stores
<1>1. CASE UNCHANGED vars
  BY <1>1 DEF vars
<1>2. ASSUME NEW c \in Calls, Create(c)
      PROVE  \/ UNCHANGED users
             \/ \E u \in UserIds, e \in Emails, p \in Passwords :
                  ~Violates(e) /\ Insert(u, e, p)
  <2>1. calls[c].email \in Emails /\ calls[c].pwd \in Passwords
    BY <1>2 DEF Create, At, TypeOK, CallsOK, WellFormed
  <2>. QED
    BY <1>2, <2>1 DEF Create, Command
<1>3. ASSUME NEW c \in Calls, UpdatePassword(c)
      PROVE  \/ UNCHANGED users
             \/ \E u \in UserIds : Live(u) /\ \E p \in Passwords :
                  users' = [users EXCEPT ![u].pwd = p]
  <2>1. calls[c].user \in UserIds /\ calls[c].pwd \in Passwords
    BY <1>3, ResetShape DEF UpdatePassword, At, TypeOK
  <2>. QED
    BY <1>3, <2>1 DEF UpdatePassword, Command, Query
<1>4. ASSUME NEW c \in Calls, Arrive(c) PROVE UNCHANGED users
  BY <1>4 DEF Arrive, SignUp, Login, ForgotPassword, ResetPassword,
              ValidateToken, Reject
<1>5. ASSUME NEW c \in Calls, Step(c), ~Create(c), ~UpdatePassword(c)
      PROVE  UNCHANGED users
  BY <1>5 DEF Step, EmailExists, Increment, Expire, Authenticate,
              ClearLoginAttempts, UpdateLastLogin, SetRefreshToken, FindAccount,
              SetPasswordResetToken, GetPasswordResetToken,
              DeletePasswordResetToken, GetByID
<1>6. CASE Environment
  BY <1>6 DEF Environment, Tick, ResetTokenExpires, RefreshTokenExpires, Restart
<1>. QED
  BY <1>1, <1>2, <1>3, <1>4, <1>5, <1>6 DEF Next

\* However many sign-ups race between EmailExists and Create
\* (service.go:67-93), no two accounts ever hold one address: the UNIQUE
\* column of the table (000001_create_users_table.up.sql) is what decides.
THEOREM AccountsAreUnique == Spec => []OneAccountPerEmail
<1>1. Init => OneAccountPerEmail
  BY BackendAssumption, ConstantsAssumption DEF Init, OneAccountPerEmail, Live
<1>2. TypeOK /\ OneAccountPerEmail /\ [Next]_vars => OneAccountPerEmail'
  <2>. SUFFICES ASSUME TypeOK, OneAccountPerEmail, [Next]_vars
                PROVE  OneAccountPerEmail'
    OBVIOUS
  <2>. USE DEF TypeOK, StoresOK, Row, OneAccountPerEmail, Live
  <2>1. CASE UNCHANGED users
    BY <2>1
  <2>2. ASSUME NEW w \in UserIds, NEW e \in Emails, NEW p \in Passwords,
               ~Violates(e), Insert(w, e, p)
        PROVE  OneAccountPerEmail'
    <3>1. \A u \in UserIds : Live(u) => users[u].email # e
      BY <2>2 DEF Violates, Holders
    <3>2. \A u \in UserIds :
            users'[u] = IF u = w THEN [email |-> e, pwd |-> p, active |-> TRUE]
                                 ELSE users[u]
      BY <2>2 DEF Insert
    <3>. QED
      BY <3>1, <3>2
  <2>3. ASSUME NEW w \in UserIds, Live(w), NEW p \in Passwords,
               users' = [users EXCEPT ![w].pwd = p]
        PROVE  OneAccountPerEmail'
    BY <2>3
  <2>4. ASSUME NEW w \in UserIds, Delete(w) \/ HardDelete(w)
        PROVE  OneAccountPerEmail'
    BY <2>4 DEF Delete, HardDelete
  <2>. QED
    BY <2>1, <2>2, <2>3, <2>4, TableSteps
<1>. QED
  BY <1>1, <1>2, TypeCorrect, PTL DEF Spec

----------------------------------------------------------------------------
(* The counter of login attempts. *)

\* The faults only grow, and a step that is a fault leaves some.
LEMMA FaultsGrow ==
  ASSUME TypeOK, [Next]_vars
  PROVE  /\ faults' \in Nat /\ faults \in Nat /\ faults <= faults'
         /\ Fault => faults' > 0
<1>1. faults \in Nat
  BY BackendAssumption, ConstantsAssumption DEF TypeOK, StoresOK
<1>2. Fault \/ UNCHANGED faults
  BY DEF Next, vars, Arrive, SignUp, Login, ForgotPassword, ResetPassword,
         ValidateToken, Reject, Step, EmailExists, Create, Increment, Expire,
         Authenticate, ClearLoginAttempts, UpdateLastLogin, SetRefreshToken,
         FindAccount, SetPasswordResetToken, GetPasswordResetToken,
         UpdatePassword, DeletePasswordResetToken, GetByID, Environment, Tick,
         ResetTokenExpires, RefreshTokenExpires, Delete, HardDelete, Restart,
         Query, Command
<1>. QED
  BY <1>1, <1>2 DEF Fault

\* Who may take a login away from "expire": its own EXPIRE, or a crash.
LEMMA CreatorStays ==
  ASSUME TypeOK, NEW c \in Calls, Arrive(c) \/ Step(c), ~Expire(c),
         NEW d \in Calls, calls[d].pc = "expire"
  PROVE  calls'[d] = calls[d]
<1>1. \/ \E r : Reply(c, r) 
      \/ \E l : Goto(c, l)
      \/ \E l, u : GotoAs(c, l, u)
      \/ \E op, l, e, p, t : Start(c, op, l, e, p, t)
      \/ \E op, r : Answer(c, op, r)
  <2>1. CASE Arrive(c)
    BY <2>1 DEF Arrive, SignUp, Login, ForgotPassword, ResetPassword,
                ValidateToken, Reject
  <2>2. CASE Step(c)
    BY <2>2 DEF Step, EmailExists, Create, Increment, Counted, Gate,
         Authenticate, ClearLoginAttempts, UpdateLastLogin, SetRefreshToken,
         FindAccount, SetPasswordResetToken, GetPasswordResetToken,
         UpdatePassword, DeletePasswordResetToken, GetByID, Query, Command
  <2>. QED
    BY <2>1, <2>2
<1>2. c # d
  BY DEF Arrive, SignUp, Login, ForgotPassword, ResetPassword,
         ValidateToken, Reject, Start, Answer, Ready, Step, EmailExists, Create,
         Increment, Authenticate, ClearLoginAttempts, UpdateLastLogin,
         SetRefreshToken, FindAccount, SetPasswordResetToken,
         GetPasswordResetToken, UpdatePassword, DeletePasswordResetToken,
         GetByID, At
<1>. QED
  BY <1>1, <1>2 DEF Reply, Goto, GotoAs, Start, Answer, TypeOK, CallsOK

\* The only ways the counters change.
LEMMA CounterSteps ==
  ASSUME TypeOK, NEW c \in Calls, Arrive(c) \/ Step(c)
  PROVE  UNCHANGED attempts \/ Increment(c) \/ Expire(c) \/ ClearLoginAttempts(c)
BY DEF stores, Arrive, SignUp, Login, ForgotPassword, ResetPassword,
       ValidateToken, Reject, Step, EmailExists, Create, Authenticate,
       UpdateLastLogin, SetRefreshToken, FindAccount, SetPasswordResetToken,
       GetPasswordResetToken, UpdatePassword, DeletePasswordResetToken, GetByID

\* A counter of login attempts has a TTL (redis.go:150-165) whenever no login
\* is between its INCR and its EXPIRE, as long as no store call has failed and
\* the process has not died: then, and only then, can an address be locked
\* for good.
THEOREM CountersExpire == Spec => []CounterExpires
<1>1. Init => CounterExpires
  BY DEF Init, CounterExpires, NoCounter
<1>2. TypeOK /\ CounterExpires /\ [Next]_vars => CounterExpires'
  <2>. SUFFICES ASSUME TypeOK, CounterExpires, [Next]_vars,
                       NEW e \in Emails,
                       attempts'[e].count > 0, attempts'[e].ttl = 0,
                       ~(faults' > 0)
                PROVE  \E c \in Calls :
                         calls'[c].pc = "expire" /\ calls'[c].email = e
    BY DEF CounterExpires
  <2>1. faults = 0 /\ ~Fault
    BY FaultsGrow
  <2>2. attempts[e].count > 0 /\ attempts[e].ttl = 0 =>
          \E d \in Calls : calls[d].pc = "expire" /\ calls[d].email = e
    BY <2>1 DEF CounterExpires
  <2>3. attempts \in [Emails -> Counter]
    BY DEF TypeOK, StoresOK
  <2>4. ASSUME NEW c \in Calls, Arrive(c) \/ Step(c), ~Expire(c),
               attempts[e].count > 0, attempts[e].ttl = 0
        PROVE  \E d \in Calls : calls'[d].pc = "expire" /\ calls'[d].email = e
    BY <2>2, <2>4, CreatorStays
  <2>5. ASSUME NEW c \in Calls, Arrive(c) \/ Step(c)
        PROVE  \E d \in Calls : calls'[d].pc = "expire" /\ calls'[d].email = e
    <3>1. CASE UNCHANGED attempts /\ ~Expire(c)
      BY <2>4, <2>5, <3>1
    <3>2. CASE Increment(c)
      <4>. DEFINE n == Capped(attempts[calls[c].email].count + 1)
      <4>1. calls[c].pc = "incr" /\ ~Expire(c) /\ Incr(calls[c].email, n) /\ Counted(c, n)
        BY <2>1, <3>2 DEF Increment, Command, At, Expire
      <4>2. CASE attempts[e].count = 0 /\ calls[c].email = e
        <5>1. n = 1
          BY <4>2, BackendAssumption, ConstantsAssumption DEF Capped, CountCap
        <5>2. Goto(c, "expire")
          BY <4>1, <5>1 DEF Counted
        <5>. QED
          BY <4>2, <5>2 DEF Goto, TypeOK, CallsOK, Request
      <4>3. CASE attempts[e].count # 0 \/ calls[c].email # e
        <5>1. attempts[e].count > 0 /\ attempts[e].ttl = 0
          <6>. HIDE DEF n
          <6>. QED
            BY <4>1, <4>3, <2>3 DEF Incr, Counter
        <5>. QED
          BY <2>4, <2>5, <4>1, <5>1
      <4>. QED
        BY <4>2, <4>3
    <3>3. CASE Expire(c)
      <4>1. SetTTL(calls[c].email)
        BY <2>1, <3>3 DEF Expire, Command
      <4>2. calls[c].email # e /\ attempts'[e] = attempts[e]
        BY <4>1, <2>3, BackendAssumption, ConstantsAssumption DEF SetTTL, Counter
      <4>3. PICK d \in Calls : calls[d].pc = "expire" /\ calls[d].email = e
        BY <2>2, <4>2
      <4>4. calls'[d] = calls[d]
        BY <3>3, <4>2, <4>3
           DEF Expire, Command, Gate, Reply, Goto, TypeOK, CallsOK
      <4>. QED
        BY <4>3, <4>4
    <3>4. CASE ClearLoginAttempts(c)
      <4>1. DelCounter(calls[c].email) /\ ~Expire(c)
        BY <2>1, <3>4 DEF ClearLoginAttempts, Command, At, Expire
      <4>2. attempts'[e] = attempts[e]
        BY <4>1, <2>3 DEF DelCounter, NoCounter
      <4>. QED
        BY <2>4, <2>5, <4>1, <4>2
    <3>. QED
      BY <2>5, <3>1, <3>2, <3>3, <3>4, CounterSteps
  <2>6. CASE Environment
    <3>1. UNCHANGED calls
      BY <2>1, <2>6 DEF Environment, Tick, ResetTokenExpires,
                        RefreshTokenExpires, Delete, HardDelete, Restart
    <3>2. attempts[e].count > 0 /\ attempts[e].ttl = 0
      <4>1. CASE UNCHANGED attempts
        BY <4>1
      <4>2. ASSUME NEW f \in Emails, Tick(f)
            PROVE  attempts[e].count > 0 /\ attempts[e].ttl = 0
        BY <4>2, <2>3 DEF Tick, NoCounter, Counter
      <4>. QED
        BY <2>6, <4>1, <4>2 DEF Environment, ResetTokenExpires,
                        RefreshTokenExpires, Delete, HardDelete, Restart
    <3>. QED
      BY <2>2, <3>1, <3>2
  <2>7. CASE UNCHANGED vars
    BY <2>2, <2>7 DEF vars
  <2>. QED
    BY <2>5, <2>6, <2>7 DEF Next
<1>. QED
  BY <1>1, <1>2, TypeCorrect, PTL DEF Spec
----------------------------------------------------------------------------
(* What the control operators look like to the contract. *)

LEMMA ReplyCloses ==
  ASSUME CallsOK, NEW c \in Calls, NEW r, Reply(c, r)
  PROVE  C!Close(c, r)
<1>. DEFINE done == [Idle EXCEPT !.op = calls[c].op, !.pc = "done", !.reply = r]
            closed == [C!NoRequest EXCEPT !.op = calls[c].op,
                                          !.stage = "done", !.reply = r]
            ending == [op : {calls[c].op}, email : {None}, pwd : {None},
                       user : {None}, token : {None}, stage : {"done"},
                       reply : {r}]
<1>1. closed \in ending
  BY DEF C!NoRequest
<1>2. /\ done.op = calls[c].op /\ done.pc = "done" /\ done.reply = r
      /\ done.email = None /\ done.pwd = None /\ done.user = None
      /\ done.token = None
  BY DEF Idle
<1>3. Stage(done.pc) = "done"
  BY <1>2 DEF Stage
<1>. HIDE DEF done
<1>4. Abstract(done) \in ending
  BY <1>2, <1>3 DEF Abstract
<1>. HIDE DEF closed
<1>5. Abstract(done) = closed
  BY <1>1, <1>4
<1>6. calls' = [calls EXCEPT ![c] = done]
  BY DEF Reply, done
<1>. HIDE DEF ending
<1>7. [d \in Calls |-> Abstract(calls'[d])]
        = [[d \in Calls |-> Abstract(calls[d])] EXCEPT ![c] = closed]
  BY <1>5, <1>6 DEF CallsOK
<1>8. [d \in Calls |-> Abstract(calls[d])][c].op = calls[c].op
  BY DEF Abstract
<1>. QED
  BY <1>7, <1>8 DEF C!Close, closed

LEMMA GotoAsPasses ==
  ASSUME CallsOK, NEW c \in Calls, NEW l, NEW u, GotoAs(c, l, u)
  PROVE  C!Pass(c, Stage(l), u)
BY DEF CallsOK, Request, GotoAs, Abstract, C!Pass

LEMMA GotoHides ==
  ASSUME CallsOK, NEW c \in Calls, NEW l, Goto(c, l),
         Stage(l) = Stage(calls[c].pc)
  PROVE  [d \in Calls |-> Abstract(calls'[d])] = [d \in Calls |-> Abstract(calls[d])]
BY DEF CallsOK, Request, Goto, Abstract

LEMMA GotoPasses ==
  ASSUME CallsOK, NEW c \in Calls, NEW l, Goto(c, l)
  PROVE  C!Pass(c, Stage(l), calls[c].user)
BY DEF CallsOK, Request, Goto, Abstract, C!Pass

\* The contract sees the request of a handler, but not where it stands.
LEMMA Seen ==
  ASSUME NEW c \in Calls, NEW op, NEW stage,
         calls[c].op = op, Stage(calls[c].pc) = stage
  PROVE  C!In(c, op, stage)
BY DEF C!In, Abstract

LEMMA SeenFields ==
  ASSUME NEW c \in Calls
  PROVE  LET r == [d \in Calls |-> Abstract(calls[d])][c]
         IN  /\ r.email = calls[c].email /\ r.pwd = calls[c].pwd
             /\ r.user = calls[c].user /\ r.token = calls[c].token
             /\ r.op = calls[c].op /\ r.stage = Stage(calls[c].pc)
BY DEF Abstract

\* The label of a handler says which method it serves.
LEMMA Serves ==
  ASSUME CallsOK, NEW c \in Calls
  PROVE  /\ calls[c].pc \in {"exists", "create"} => calls[c].op = "SignUp"
         /\ calls[c].pc \in LoginLabels => calls[c].op = "Login"
         /\ calls[c].pc \in {"find", "grant"} => calls[c].op = "ForgotPassword"
         /\ calls[c].pc \in {"redeem", "update", "drop"}
              => calls[c].op = "ResetPassword"
         /\ calls[c].pc = "getbyid" => calls[c].op = "ValidateToken"
BY DEF CallsOK, Request, WellFormed, Labels, LoginLabels, AllMethods

LEMMA OwnerIsHolder ==
  ASSUME NEW e
  PROVE  C!Owner(e) = Holders(e)
BY DEF C!Owner, C!Exists, Holders, Live

LEMMA FaultExcuses ==
  ASSUME TypeOK
  PROVE  /\ Fault => C!Excused /\ faults' = faults + 1
         /\ (Fault \/ UNCHANGED faults) => faults' \in {faults, faults + 1}
BY BackendAssumption, ConstantsAssumption DEF TypeOK, StoresOK, Fault, C!Excused

\* A step that only moves a handler forward is none, or a failure that no
\* caller notices.
LEMMA Hidden ==
  ASSUME TypeOK, NEW c \in Calls, NEW l, Goto(c, l),
         Stage(l) = Stage(calls[c].pc),
         UNCHANGED <<users, resets, refresh, issued, key>>,
         Fault \/ UNCHANGED faults
  PROVE  C!CNext \/ UNCHANGED C!cvars
<1>1. CallsOK
  BY DEF TypeOK
<1>2. [d \in Calls |-> Abstract(calls'[d])] = [d \in Calls |-> Abstract(calls[d])]
  BY <1>1, GotoHides
<1>3. {t \in issued : t.gen = key.gen}' = {t \in issued : t.gen = key.gen}
  OBVIOUS
<1>. QED
  BY <1>2, <1>3, FaultExcuses DEF C!CNext, C!Unnoticed, C!cvars

----------------------------------------------------------------------------
(* The steps of the handlers, one lemma for each. *)

LEMMA EmailExistsImplements ==
  ASSUME TypeOK, NEW c \in Calls, EmailExists(c)
  PROVE  C!CNext \/ UNCHANGED C!cvars
<1>1. /\ CallsOK /\ calls[c].pc = "exists" /\ UNCHANGED stores
      /\ faults' \in {faults, faults + 1}
  BY FaultExcuses DEF TypeOK, EmailExists, At, Query
<1>2. C!In(c, "SignUp", "open")
  BY <1>1, Serves, Seen DEF Stage
<1>3. UNCHANGED {t \in issued : t.gen = key.gen}
  BY <1>1 DEF stores
<1>4. CASE Holders(calls[c].email) # {} /\ Reply(c, "exists")
  <2>1. C!NotRegistered(c)
    BY <1>1, <1>2, <1>3, <1>4, ReplyCloses, OwnerIsHolder, SeenFields
       DEF C!NotRegistered, stores
  <2>. QED
    BY <1>1, <2>1 DEF C!CNext, stores
<1>5. CASE Goto(c, "create") /\ UNCHANGED faults
  BY <1>1, <1>5, Hidden DEF Stage, stores
<1>6. CASE Fault /\ Reply(c, "internal")
  <2>1. C!NotRegistered(c)
    BY <1>1, <1>2, <1>3, <1>6, ReplyCloses, FaultExcuses
       DEF C!NotRegistered, stores
  <2>. QED
    BY <1>1, <2>1 DEF C!CNext, stores
<1>. QED
  BY <1>4, <1>5, <1>6 DEF EmailExists, Query

LEMMA CreateImplements ==
  ASSUME TypeOK, NEW c \in Calls, Create(c)
  PROVE  C!CNext
<1>1. /\ CallsOK /\ calls[c].pc = "create"
      /\ UNCHANGED <<attempts, resets, refresh, issued, key>>
      /\ faults' \in {faults, faults + 1}
  BY FaultExcuses DEF TypeOK, Create, At, Command
<1>2. C!In(c, "SignUp", "open")
  BY <1>1, Serves, Seen DEF Stage
<1>3. UNCHANGED {t \in issued : t.gen = key.gen}
  BY <1>1
<1>4. CASE Violates(calls[c].email) /\ Reply(c, "internal") /\ UNCHANGED users
  <2>1. C!NotRegistered(c)
    BY <1>1, <1>2, <1>3, <1>4, ReplyCloses, OwnerIsHolder, SeenFields
       DEF C!NotRegistered, Violates
  <2>. QED
    BY <1>1, <2>1 DEF C!CNext
<1>5. CASE Fault /\ UNCHANGED users /\ Reply(c, "internal")
  <2>1. C!NotRegistered(c)
    BY <1>1, <1>2, <1>3, <1>5, ReplyCloses, FaultExcuses DEF C!NotRegistered
  <2>. QED
    BY <1>1, <2>1 DEF C!CNext
<1>6. ASSUME NEW u \in UserIds, users[u] = None, ~Violates(calls[c].email),
             Insert(u, calls[c].email, calls[c].pwd),
             \/ Reply(c, "ok")
             \/ Fault /\ Reply(c, "internal")
      PROVE  C!CNext
  <2>1. C!Close(c, "ok") \/ (C!Excused /\ C!Close(c, "internal"))
    BY <1>1, <1>6, ReplyCloses, FaultExcuses
  <2>2. C!Register(c)
    BY <1>1, <1>2, <1>3, <1>6, <2>1, OwnerIsHolder, SeenFields
       DEF C!Register, Violates, Insert
  <2>. QED
    BY <1>1, <2>2 DEF C!CNext
<1>. QED
  BY <1>4, <1>5, <1>6 DEF Create, Command

\* The throttle lets a login go on, which the contract does not see, or turns
\* it away, which it allows.
LEMMA GateImplements ==
  ASSUME TypeOK, NEW c \in Calls, NEW n, Gate(c, n),
         calls[c].pc \in {"incr", "expire"},
         UNCHANGED <<users, resets, refresh, issued, key>>,
         Fault \/ UNCHANGED faults
  PROVE  C!CNext \/ UNCHANGED C!cvars
<1>1. CallsOK
  BY DEF TypeOK
<1>2. CASE Goto(c, "lookup")
  BY <1>2, Hidden DEF Stage
<1>3. CASE Reply(c, "locked")
  <2>1. C!In(c, "Login", "open")
    BY <1>1, Serves, Seen DEF Stage, LoginLabels
  <2>2. UNCHANGED {t \in issued : t.gen = key.gen}
    OBVIOUS
  <2>3. C!NotRecognised(c)
    BY <1>1, <1>3, <2>1, <2>2, ReplyCloses DEF C!NotRecognised
  <2>. QED
    BY <2>3, FaultExcuses DEF C!CNext
<1>. QED
  BY <1>2, <1>3 DEF Gate

LEMMA IncrementImplements ==
  ASSUME TypeOK, NEW c \in Calls, Increment(c)
  PROVE  C!CNext \/ UNCHANGED C!cvars
<1>1. /\ calls[c].pc = "incr" /\ UNCHANGED <<users, resets, refresh, issued, key>>
      /\ Fault \/ UNCHANGED faults
  BY DEF Increment, At, Command
<1>2. PICK n : Counted(c, n) \/ Gate(c, n)
  BY DEF Increment, Command
<1>3. CASE Goto(c, "expire")
  BY <1>1, <1>3, Hidden DEF Stage
<1>4. CASE Gate(c, n)
  BY <1>1, <1>4, GateImplements
<1>. QED
  BY <1>2, <1>3, <1>4 DEF Counted

LEMMA ExpireImplements ==
  ASSUME TypeOK, NEW c \in Calls, Expire(c)
  PROVE  C!CNext \/ UNCHANGED C!cvars
BY GateImplements DEF Expire, At, Command

\* The one place where the contract needs an address to have one account: the
\* row that GetByEmail returned is the only one the reply can be about.
LEMMA AuthenticateImplements ==
  ASSUME TypeOK, OneAccountPerEmail, NEW c \in Calls, Authenticate(c)
  PROVE  C!CNext
<1>. DEFINE own == Holders(calls[c].email)
<1>1. /\ CallsOK /\ calls[c].pc = "lookup" /\ UNCHANGED stores
      /\ faults' \in {faults, faults + 1}
  BY FaultExcuses DEF TypeOK, Authenticate, At, Query
<1>2. C!In(c, "Login", "open")
  BY <1>1, Serves, Seen DEF Stage, LoginLabels
<1>3. UNCHANGED {t \in issued : t.gen = key.gen}
  BY <1>1 DEF stores
<1>4. \A u, v \in own : u = v
  BY DEF OneAccountPerEmail, Holders
<1>5. CASE /\ Reply(c, "unauthenticated")
           /\ \/ C!Excused
              \/ own = {}
              \/ \E u \in own : users[u].pwd # calls[c].pwd
  <2>1. C!Excused \/ ~\E u \in own : C!May(u, calls[c].pwd)
    BY <1>4, <1>5 DEF C!May
  <2>2. C!NotRecognised(c)
    BY <1>1, <1>2, <1>3, <1>5, <2>1, ReplyCloses, OwnerIsHolder, SeenFields
       DEF C!NotRecognised, stores
  <2>. QED
    BY <1>1, <2>2 DEF C!CNext, stores
<1>6. CASE /\ Reply(c, "disabled")
           /\ \E u \in own : ~users[u].active
  <2>1. C!NotRecognised(c)
    BY <1>1, <1>2, <1>3, <1>6, ReplyCloses, OwnerIsHolder, SeenFields
       DEF C!NotRecognised, stores
  <2>. QED
    BY <1>1, <2>1 DEF C!CNext, stores
<1>7. ASSUME NEW u \in own, users[u].active, users[u].pwd = calls[c].pwd,
             GotoAs(c, "clear", u)
      PROVE  C!CNext
  <2>1. C!Pass(c, "granted", u)
    BY <1>1, <1>7, GotoAsPasses DEF Stage
  <2>2. C!Recognise(c)
    BY <1>1, <1>2, <1>3, <1>7, <2>1, OwnerIsHolder, SeenFields
       DEF C!Recognise, C!May, stores
  <2>. QED
    BY <1>1, <2>2 DEF C!CNext, stores
<1>. HIDE DEF own
<1>8. own = Holders(calls[c].email)
  BY DEF own
<1>. QED
  BY <1>5, <1>6, <1>7, <1>8, FaultExcuses DEF Authenticate, Query

LEMMA ClearLoginAttemptsImplements ==
  ASSUME TypeOK, NEW c \in Calls, ClearLoginAttempts(c)
  PROVE  C!CNext \/ UNCHANGED C!cvars
BY Hidden DEF ClearLoginAttempts, At, Command, Stage

LEMMA UpdateLastLoginImplements ==
  ASSUME TypeOK, NEW c \in Calls, UpdateLastLogin(c)
  PROVE  C!CNext \/ UNCHANGED C!cvars
<1>1. /\ CallsOK /\ calls[c].pc = "touch" /\ UNCHANGED stores
      /\ faults' \in {faults, faults + 1} /\ (Fault \/ UNCHANGED faults)
  BY FaultExcuses DEF TypeOK, UpdateLastLogin, At, Query
<1>2. CASE Goto(c, "store")
  BY <1>1, <1>2, Hidden DEF Stage, stores
<1>3. CASE Reply(c, "internal") /\ key.mode = "mixed"
  <2>1. C!In(c, "Login", "granted")
    BY <1>1, Serves, Seen DEF Stage, LoginLabels
  <2>2. UNCHANGED {t \in issued : t.gen = key.gen}
    BY <1>1 DEF stores
  <2>3. C!NoSession(c)
    BY <1>1, <1>3, <2>1, <2>2, ReplyCloses DEF C!NoSession, stores
  <2>. QED
    BY <1>1, <2>3 DEF C!CNext, stores
<1>. QED
  BY <1>2, <1>3 DEF UpdateLastLogin, Query

LEMMA SetRefreshTokenImplements ==
  ASSUME TypeOK, NEW c \in Calls, SetRefreshToken(c)
  PROVE  C!CNext
<1>. DEFINE badge == [user |-> calls[c].user, gen |-> key.gen]
<1>1. /\ CallsOK /\ calls[c].pc = "store"
      /\ UNCHANGED <<users, attempts, resets, key>>
      /\ faults' \in {faults, faults + 1}
  BY FaultExcuses DEF TypeOK, SetRefreshToken, At
<1>2. C!In(c, "Login", "granted")
  BY <1>1, Serves, Seen DEF Stage, LoginLabels
<1>3. CASE /\ refresh' = [refresh EXCEPT ![c] = calls[c].user]
           /\ issued' = issued \cup {badge}
           /\ Reply(c, "ok")
  <2>1. badge \in AccessTokens
    <3>1. calls[c].user \in UserIds
      BY <1>1 DEF CallsOK, WellFormed
    <3>2. key.gen \in 0..MaxFaults
      BY BackendAssumption, ConstantsAssumption DEF TypeOK, StoresOK
    <3>. QED
      BY <3>1, <3>2 DEF AccessTokens
  <2>2. {t \in issued : t.gen = key.gen}'
          = {t \in issued : t.gen = key.gen} \cup {badge}
    BY <1>1, <1>3
  <2>3. C!OpenSession(c)
    BY <1>1, <1>2, <1>3, <2>1, <2>2, ReplyCloses, SeenFields
       DEF C!OpenSession, C!HandOut, AllPromises
  <2>. QED
    BY <1>1, <2>3 DEF C!CNext
<1>4. CASE /\ Fault /\ UNCHANGED issued /\ Reply(c, "internal")
           /\ refresh' = [refresh EXCEPT ![c] = calls[c].user]
  <2>1. UNCHANGED {t \in issued : t.gen = key.gen}
    BY <1>1, <1>4
  <2>2. C!Excused /\ C!Close(c, "internal")
    BY <1>1, <1>4, ReplyCloses, FaultExcuses
  <2>3. C!OpenSession(c)
    BY <1>1, <1>2, <1>4, <2>1, <2>2, SeenFields DEF C!OpenSession, AllPromises
  <2>. QED
    BY <1>1, <2>3 DEF C!CNext
<1>5. CASE Fault /\ UNCHANGED issued /\ Reply(c, "internal") /\ UNCHANGED refresh
  <2>1. UNCHANGED {t \in issued : t.gen = key.gen}
    BY <1>1, <1>5
  <2>2. C!NoSession(c)
    BY <1>1, <1>2, <1>5, <2>1, ReplyCloses, FaultExcuses DEF C!NoSession
  <2>. QED
    BY <1>1, <2>2 DEF C!CNext
<1>. QED
  BY <1>3, <1>4, <1>5 DEF SetRefreshToken, Remember

LEMMA FindAccountImplements ==
  ASSUME TypeOK, NEW c \in Calls, FindAccount(c)
  PROVE  C!CNext
<1>1. /\ CallsOK /\ calls[c].pc = "find" /\ UNCHANGED stores
      /\ faults' \in {faults, faults + 1}
  BY FaultExcuses DEF TypeOK, FindAccount, At, Query
<1>2. C!In(c, "ForgotPassword", "open")
  BY <1>1, Serves, Seen DEF Stage
<1>3. UNCHANGED {t \in issued : t.gen = key.gen}
  BY <1>1 DEF stores
<1>4. CASE Reply(c, "ok") /\ (Fault \/ Holders(calls[c].email) = {})
  <2>1. C!Find(c)
    BY <1>1, <1>2, <1>3, <1>4, ReplyCloses, OwnerIsHolder, SeenFields,
       FaultExcuses DEF C!Find, stores
  <2>. QED
    BY <1>1, <2>1 DEF C!CNext, stores
<1>5. ASSUME NEW u \in Holders(calls[c].email), GotoAs(c, "grant", u)
      PROVE  C!CNext
  <2>1. C!Pass(c, "granted", u)
    BY <1>1, <1>5, GotoAsPasses DEF Stage
  <2>2. C!Find(c)
    BY <1>1, <1>2, <1>3, <1>5, <2>1, OwnerIsHolder, SeenFields
       DEF C!Find, stores
  <2>. QED
    BY <1>1, <2>2 DEF C!CNext, stores
<1>. QED
  BY <1>4, <1>5 DEF FindAccount, Query

LEMMA SetPasswordResetTokenImplements ==
  ASSUME TypeOK, NEW c \in Calls, SetPasswordResetToken(c)
  PROVE  C!CNext
<1>1. /\ CallsOK /\ calls[c].pc = "grant"
      /\ UNCHANGED <<users, attempts, refresh, issued, key>>
      /\ faults' \in {faults, faults + 1}
  BY FaultExcuses DEF TypeOK, SetPasswordResetToken, At, Command
<1>2. C!In(c, "ForgotPassword", "granted")
  BY <1>1, Serves, Seen DEF Stage
<1>3. UNCHANGED {t \in issued : t.gen = key.gen}
  BY <1>1
<1>4. CASE Fault /\ UNCHANGED resets /\ Reply(c, "internal")
  <2>1. C!Grant(c)
    BY <1>1, <1>2, <1>3, <1>4, ReplyCloses, FaultExcuses DEF C!Grant
  <2>. QED
    BY <1>1, <2>1 DEF C!CNext
<1>5. ASSUME NEW t \in ResetTokens, resets[t] = None,
             resets' = [resets EXCEPT ![t] = calls[c].user],
             Reply(c, "ok") \/ (Fault /\ Reply(c, "internal"))
      PROVE  C!CNext
  <2>1. C!Close(c, "ok") \/ (C!Excused /\ C!Close(c, "internal"))
    BY <1>1, <1>5, ReplyCloses, FaultExcuses
  <2>2. C!Grant(c)
    BY <1>1, <1>2, <1>3, <1>5, <2>1, SeenFields DEF C!Grant
  <2>. QED
    BY <1>1, <2>2 DEF C!CNext
<1>. QED
  BY <1>4, <1>5 DEF SetPasswordResetToken, Command

LEMMA GetPasswordResetTokenImplements ==
  ASSUME TypeOK, NEW c \in Calls, GetPasswordResetToken(c)
  PROVE  C!CNext
<1>. DEFINE u == resets[calls[c].token]
<1>1. /\ CallsOK /\ calls[c].pc = "redeem" /\ UNCHANGED stores
      /\ faults' \in {faults, faults + 1}
  BY FaultExcuses DEF TypeOK, GetPasswordResetToken, At, Query
<1>2. C!In(c, "ResetPassword", "open")
  BY <1>1, Serves, Seen DEF Stage
<1>3. UNCHANGED {t \in issued : t.gen = key.gen}
  BY <1>1 DEF stores
<1>4. CASE Reply(c, "badtoken") /\ (Fault \/ u = Gone)
  <2>1. C!Redeem(c)
    BY <1>1, <1>2, <1>3, <1>4, ReplyCloses, SeenFields, FaultExcuses
       DEF C!Redeem, stores
  <2>. QED
    BY <1>1, <2>1 DEF C!CNext, stores
<1>5. CASE GotoAs(c, "update", u) /\ u # Gone
  <2>1. u \notin {None, Gone}
    BY <1>1, <1>5 DEF TypeOK, TokensOK
  <2>2. C!Pass(c, "granted", u)
    BY <1>1, <1>5, GotoAsPasses DEF Stage
  <2>3. C!Redeem(c)
    BY <1>1, <1>2, <1>3, <2>1, <2>2, SeenFields DEF C!Redeem, stores
  <2>. QED
    BY <1>1, <2>3 DEF C!CNext, stores
<1>. QED
  BY <1>4, <1>5 DEF GetPasswordResetToken, Query

LEMMA UpdatePasswordImplements ==
  ASSUME TypeOK, NEW c \in Calls, UpdatePassword(c)
  PROVE  C!CNext
<1>. DEFINE u == calls[c].user
<1>1. /\ CallsOK /\ calls[c].pc = "update"
      /\ UNCHANGED <<attempts, resets, refresh, issued, key>>
      /\ faults' \in {faults, faults + 1}
  BY FaultExcuses DEF TypeOK, UpdatePassword, At, Query, Command
<1>2. C!In(c, "ResetPassword", "granted")
  BY <1>1, Serves, Seen DEF Stage
<1>3. UNCHANGED {t \in issued : t.gen = key.gen}
  BY <1>1
<1>4. CASE UNCHANGED users /\ Reply(c, "internal") /\ (Fault \/ ~Live(u))
  <2>1. C!Change(c)
    BY <1>1, <1>2, <1>3, <1>4, ReplyCloses, SeenFields, FaultExcuses
       DEF C!Change, C!Exists, Live
  <2>. QED
    BY <1>1, <2>1 DEF C!CNext
<1>5. CASE /\ Live(u)
           /\ users' = [users EXCEPT ![u].pwd = calls[c].pwd]
           /\ Goto(c, "drop") \/ (Fault /\ Reply(c, "internal"))
  <2>1. C!Pass(c, "effected", u) \/ (C!Excused /\ C!Close(c, "internal"))
    BY <1>1, <1>5, GotoPasses, ReplyCloses, FaultExcuses DEF Stage
  <2>2. C!Change(c)
    BY <1>1, <1>2, <1>3, <1>5, <2>1, SeenFields DEF C!Change, C!Exists, Live
  <2>. QED
    BY <1>1, <2>2 DEF C!CNext
<1>. QED
  BY <1>4, <1>5 DEF UpdatePassword, Query, Command

LEMMA DeletePasswordResetTokenImplements ==
  ASSUME TypeOK, NEW c \in Calls, DeletePasswordResetToken(c)
  PROVE  C!CNext
<1>1. /\ CallsOK /\ calls[c].pc = "drop" /\ Reply(c, "ok")
      /\ UNCHANGED <<users, attempts, refresh, issued, key>>
      /\ faults' \in {faults, faults + 1}
      /\ DropToken(calls[c].token) \/ (Fault /\ UNCHANGED resets)
  BY FaultExcuses DEF TypeOK, DeletePasswordResetToken, At, Command
<1>2. C!In(c, "ResetPassword", "effected")
  BY <1>1, Serves, Seen DEF Stage
<1>3. UNCHANGED {t \in issued : t.gen = key.gen}
  BY <1>1
<1>4. C!Spend(c)
  BY <1>1, <1>2, <1>3, ReplyCloses, SeenFields, FaultExcuses
     DEF C!Spend, DropToken
<1>. QED
  BY <1>1, <1>4 DEF C!CNext

LEMMA GetByIDImplements ==
  ASSUME TypeOK, NEW c \in Calls, GetByID(c)
  PROVE  C!CNext
<1>. DEFINE u == calls[c].token.user
<1>1. /\ CallsOK /\ calls[c].pc = "getbyid" /\ UNCHANGED stores
      /\ faults' \in {faults, faults + 1}
  BY FaultExcuses DEF TypeOK, GetByID, At, Query
<1>2. C!In(c, "ValidateToken", "open")
  BY <1>1, Serves, Seen DEF Stage
<1>3. UNCHANGED {t \in issued : t.gen = key.gen}
  BY <1>1 DEF stores
<1>4. \/ Live(u) /\ users[u].active /\ Reply(c, "valid")
      \/ (Fault \/ ~Live(u) \/ ~users[u].active) /\ Reply(c, "notvalid")
  BY DEF GetByID, Query
<1>5. C!Vouch(c)
  BY <1>1, <1>2, <1>3, <1>4, ReplyCloses, SeenFields, FaultExcuses
     DEF C!Vouch, C!Exists, Live, stores
<1>. QED
  BY <1>1, <1>5 DEF C!CNext, stores

----------------------------------------------------------------------------
(* Requests that arrive. *)

\* A slot that takes a request: nothing else the contract sees changes.
LEMMA Arrives ==
  ASSUME TypeOK, NEW c \in Calls, NEW r, Ready(c),
         calls' = [calls EXCEPT ![c] = r],
         \/ Abstract(r) \in
              [op : {"SignUp", "Login", "ForgotPassword", "ResetPassword"},
               email : Emails \cup {None}, pwd : Passwords \cup {None},
               user : {None}, token : ResetTokens \cup {None},
               stage : {"open"}, reply : {"none"}]
         \/ Abstract(r) \in
              [op : {"ValidateToken"}, email : {None}, pwd : {None},
               user : {None}, token : {t \in issued : t.gen = key.gen},
               stage : {"open"}, reply : {"none"}]
         \/ Abstract(r) \in
              [op : AllMethods, email : {None}, pwd : {None}, user : {None},
               token : {None}, stage : {"done"}, reply : {"invalid", "notvalid"}],
         refresh' \in {refresh, [refresh EXCEPT ![c] = None]},
         UNCHANGED <<users, resets, issued, key, faults>>
  PROVE  C!CNext
<1>. DEFINE abs == [d \in Calls |-> Abstract(calls[d])]
            abs2 == [d \in Calls |-> Abstract(calls'[d])]
<1>1. abs[c].stage \in {"idle", "done"}
  BY DEF Ready, Abstract, Stage
<1>2. calls'[c] = r /\ \A d \in Calls : d # c => calls'[d] = calls[d]
  BY DEF TypeOK, CallsOK
<1>3. abs2[c] = Abstract(r)
  BY <1>2
<1>4. abs2 = [abs EXCEPT ![c] = abs2[c]]
  <2>1. \A d \in Calls : abs2[d] = [abs EXCEPT ![c] = abs2[c]][d]
    <3>. HIDE DEF abs2
    <3>1. \A d \in Calls : d # c => abs2[d] = abs[d]
      BY <1>2 DEF abs2
    <3>. QED
      BY <3>1
  <2>. QED
    BY <2>1
<1>5. UNCHANGED {t \in issued : t.gen = key.gen}
  OBVIOUS
<1>6. AllMethods = C!AllOps
  BY DEF AllMethods, C!AllOps
<1>7. C!Ask(c)
  BY <1>1, <1>3, <1>4, <1>5, <1>6 DEF C!Ask
<1>8. faults' \in {faults, faults + 1}
  OBVIOUS
<1>. QED
  BY <1>7, <1>8 DEF C!CNext

LEMMA StartArrives ==
  ASSUME TypeOK, NEW c \in Calls,
         NEW op \in {"SignUp", "Login", "ForgotPassword", "ResetPassword"},
         NEW l, Stage(l) = "open",
         NEW e \in Emails \cup {None}, NEW p \in Passwords \cup {None},
         NEW t \in ResetTokens \cup {None},
         Start(c, op, l, e, p, t),
         refresh' \in {refresh, [refresh EXCEPT ![c] = None]},
         UNCHANGED <<users, resets, issued, key, faults>>
  PROVE  C!CNext
<1>. DEFINE r == [Idle EXCEPT !.op = op, !.pc = l, !.email = e, !.pwd = p,
                              !.token = t]
<1>1. /\ r.op = op /\ r.pc = l /\ r.email = e /\ r.pwd = p /\ r.token = t
      /\ r.user = None /\ r.reply = "none"
  BY DEF Idle
<1>2. Ready(c) /\ calls' = [calls EXCEPT ![c] = r]
  BY DEF Start
<1>. HIDE DEF r
<1>3. Abstract(r) \in
        [op : {"SignUp", "Login", "ForgotPassword", "ResetPassword"},
         email : Emails \cup {None}, pwd : Passwords \cup {None},
         user : {None}, token : ResetTokens \cup {None},
         stage : {"open"}, reply : {"none"}]
  BY <1>1 DEF Abstract
<1>. QED
  BY <1>2, <1>3, Arrives

LEMMA AnswerArrives ==
  ASSUME TypeOK, NEW c \in Calls, NEW op \in AllMethods,
         NEW r \in {"invalid", "notvalid"}, Answer(c, op, r),
         UNCHANGED <<users, resets, refresh, issued, key, faults>>
  PROVE  C!CNext
<1>. DEFINE q == [Idle EXCEPT !.op = op, !.pc = "done", !.reply = r]
<1>1. /\ q.op = op /\ q.pc = "done" /\ q.email = None /\ q.pwd = None
      /\ q.token = None /\ q.user = None /\ q.reply = r
  BY DEF Idle
<1>2. Stage(q.pc) = "done"
  BY <1>1 DEF Stage
<1>3. Ready(c) /\ calls' = [calls EXCEPT ![c] = q]
  BY DEF Answer
<1>. HIDE DEF q
<1>4. Abstract(q) \in
        [op : AllMethods, email : {None}, pwd : {None}, user : {None},
         token : {None}, stage : {"done"}, reply : {"invalid", "notvalid"}]
  BY <1>1, <1>2 DEF Abstract
<1>. QED
  BY <1>3, <1>4, Arrives

LEMMA ValidateTokenArrives ==
  ASSUME TypeOK, NEW c \in Calls, NEW t \in issued, SignedByUs(t),
         Start(c, "ValidateToken", "getbyid", None, None, t),
         UNCHANGED <<users, resets, refresh, issued, key, faults>>
  PROVE  C!CNext
<1>. DEFINE r == [Idle EXCEPT !.op = "ValidateToken", !.pc = "getbyid",
                              !.email = None, !.pwd = None, !.token = t]
<1>1. /\ r.op = "ValidateToken" /\ r.pc = "getbyid" /\ r.email = None
      /\ r.pwd = None /\ r.token = t /\ r.user = None /\ r.reply = "none"
  BY DEF Idle
<1>2. Ready(c) /\ calls' = [calls EXCEPT ![c] = r]
  BY DEF Start
<1>3. Stage(r.pc) = "open"
  BY <1>1 DEF Stage
<1>. HIDE DEF r
<1>4. Abstract(r) \in
        [op : {"ValidateToken"}, email : {None}, pwd : {None}, user : {None},
         token : {d \in issued : d.gen = key.gen},
         stage : {"open"}, reply : {"none"}]
  BY <1>1, <1>3 DEF Abstract, SignedByUs
<1>. QED
  BY <1>2, <1>4, Arrives

LEMMA ArrivalsImplement ==
  ASSUME TypeOK, NEW c \in Calls, Arrive(c)
  PROVE  C!CNext
<1>1. /\ Stage("exists") = "open" /\ Stage("incr") = "open"
      /\ Stage("find") = "open" /\ Stage("redeem") = "open"
  BY DEF Stage
<1>2. CASE SignUp(c)
  BY <1>1, <1>2, StartArrives DEF SignUp, stores
<1>3. CASE Login(c)
  BY <1>1, <1>3, StartArrives DEF Login
<1>4. CASE ForgotPassword(c)
  BY <1>1, <1>4, StartArrives DEF ForgotPassword, stores
<1>5. CASE ResetPassword(c)
  BY <1>1, <1>5, StartArrives DEF ResetPassword, stores
<1>6. CASE ValidateToken(c)
  BY <1>6, ValidateTokenArrives, AnswerArrives
     DEF ValidateToken, stores, AllMethods
<1>7. CASE Reject(c)
  BY <1>7, AnswerArrives, BackendAssumption, ConstantsAssumption DEF Reject, stores
<1>. QED
  BY <1>2, <1>3, <1>4, <1>5, <1>6, <1>7 DEF Arrive

----------------------------------------------------------------------------
(* Around the handlers. *)

\* No token was signed by a key that is still to come: what a restart that
\* loses the key must not bring back.
NoFutureKey == \A t \in issued : t.gen <= key.gen

LEMMA RestartImplements ==
  ASSUME TypeOK, NoFutureKey, Restart
  PROVE  C!CNext
<1>1. /\ faults' \in {faults, faults + 1} /\ C!Excused
      /\ UNCHANGED <<users, resets, refresh, issued>>
  BY FaultExcuses DEF Restart
<1>2. [c \in Calls |-> Abstract(calls'[c])] = [c \in Calls |-> C!NoRequest]
  <2>1. Abstract(Idle) = C!NoRequest
    BY DEF Abstract, Idle, Stage, C!NoRequest
  <2>. QED
    BY <2>1 DEF Restart
<1>3. /\ key' = key \/ key'.gen = key.gen + 1
      /\ key'.mode = key.mode
  BY DEF Restart, TypeOK, StoresOK
<1>4. {t \in issued : t.gen = key.gen}' \in {{t \in issued : t.gen = key.gen}, {}}
  <2>1. CASE key' = key
    BY <1>1, <2>1
  <2>2. CASE key'.gen = key.gen + 1
    <3>1. \A t \in issued : t.gen \in Nat
      BY BackendAssumption, ConstantsAssumption DEF TypeOK, StoresOK, AccessTokens
    <3>2. key.gen \in Nat
      BY DEF TypeOK, StoresOK
    <3>. QED
      BY <1>1, <2>2, <3>1, <3>2 DEF NoFutureKey
  <2>. QED
    BY <1>3, <2>1, <2>2
<1>5. C!Crash
  BY <1>1, <1>2, <1>4 DEF C!Crash
<1>. QED
  BY <1>1, <1>3, <1>5 DEF C!CNext

LEMMA EnvironmentImplements ==
  ASSUME TypeOK, NoFutureKey, Environment
  PROVE  C!CNext \/ UNCHANGED C!cvars
<1>1. CASE Restart
  BY <1>1, RestartImplements
<1>2. ASSUME UNCHANGED <<issued, key, calls, faults>>
      PROVE  /\ UNCHANGED {t \in issued : t.gen = key.gen}
             /\ [c \in Calls |-> Abstract(calls'[c])] = [c \in Calls |-> Abstract(calls[c])]
             /\ faults' \in {faults, faults + 1}
  BY <1>2
<1>3. ASSUME NEW e \in Emails, Tick(e)
      PROVE  UNCHANGED C!cvars
  BY <1>2, <1>3 DEF Tick, C!cvars
<1>4. ASSUME NEW t \in ResetTokens, ResetTokenExpires(t)
      PROVE  C!CNext
  <2>1. C!Lapse
    BY <1>2, <1>4 DEF ResetTokenExpires, DropToken, C!Lapse
  <2>. QED
    BY <1>2, <1>4, <2>1 DEF C!CNext, ResetTokenExpires
<1>5. ASSUME NEW c \in Calls, RefreshTokenExpires(c)
      PROVE  C!CNext
  <2>1. C!Lapse
    BY <1>2, <1>5 DEF RefreshTokenExpires, C!Lapse
  <2>. QED
    BY <1>2, <1>5, <2>1 DEF C!CNext, RefreshTokenExpires
<1>6. ASSUME NEW u \in UserIds, Delete(u) \/ HardDelete(u)
      PROVE  C!CNext
  <2>1. C!Administer
    BY <1>2, <1>6 DEF Delete, HardDelete, Live, C!Administer, C!Exists
  <2>. QED
    BY <1>2, <1>6, <2>1 DEF C!CNext, Delete, HardDelete
<1>. QED
  BY <1>1, <1>3, <1>4, <1>5, <1>6 DEF Environment

LEMMA StepsImplement ==
  ASSUME TypeOK, OneAccountPerEmail, NEW c \in Calls, Step(c)
  PROVE  C!CNext \/ UNCHANGED C!cvars
BY EmailExistsImplements, CreateImplements, IncrementImplements,
   ExpireImplements, AuthenticateImplements, ClearLoginAttemptsImplements,
   UpdateLastLoginImplements, SetRefreshTokenImplements,
   FindAccountImplements, SetPasswordResetTokenImplements,
   GetPasswordResetTokenImplements, UpdatePasswordImplements,
   DeletePasswordResetTokenImplements, GetByIDImplements
   DEF Step

LEMMA NextImplements ==
  ASSUME TypeOK, OneAccountPerEmail, NoFutureKey, [Next]_vars
  PROVE  C!CNext \/ UNCHANGED C!cvars
<1>1. ASSUME UNCHANGED vars
      PROVE  UNCHANGED C!cvars
  BY <1>1 DEF vars, C!cvars
<1>. QED
  BY <1>1, ArrivalsImplement, StepsImplement, EnvironmentImplements DEF Next

LEMMA InitImplements ==
  ASSUME Init
  PROVE  C!CInit
<1>1. Abstract(Idle) = C!NoRequest
  BY DEF Abstract, Idle, Stage, C!NoRequest
<1>2. [c \in Calls |-> Abstract(calls[c])] = [c \in Calls |-> C!NoRequest]
  BY <1>1 DEF Init
<1>3. \A u, v \in UserIds :
        C!Exists(u) /\ C!Exists(v) /\ users[u].email = users[v].email => u = v
  BY BackendAssumption, ConstantsAssumption DEF Init, C!Exists
<1>. QED
  BY <1>2, <1>3 DEF Init, C!CInit

\* Only SetRefreshToken hands tokens out, signed by the key of the moment, and
\* only a restart changes that key, for a later one.
LEMMA NoFutureKeyStays ==
  ASSUME TypeOK, NoFutureKey, [Next]_vars
  PROVE  NoFutureKey'
<1>1. key.gen \in Nat /\ \A t \in issued : t.gen \in Nat
  BY BackendAssumption, ConstantsAssumption DEF TypeOK, StoresOK, AccessTokens
<1>2. ASSUME UNCHANGED <<issued, key>>
      PROVE  NoFutureKey'
  BY <1>2 DEF NoFutureKey
<1>3. ASSUME NEW c \in Calls, Arrive(c)
      PROVE  UNCHANGED <<issued, key>>
  BY <1>3 DEF Arrive, SignUp, Login, ForgotPassword, ResetPassword,
              ValidateToken, Reject, stores
<1>4. ASSUME NEW c \in Calls, SetRefreshToken(c)
      PROVE  NoFutureKey'
  BY <1>1, <1>4 DEF SetRefreshToken, NoFutureKey
<1>5. ASSUME NEW c \in Calls, Step(c), ~SetRefreshToken(c)
      PROVE  UNCHANGED <<issued, key>>
  BY <1>5 DEF Step, EmailExists, Create, Increment, Expire, Authenticate,
              ClearLoginAttempts, UpdateLastLogin, FindAccount,
              SetPasswordResetToken, GetPasswordResetToken, UpdatePassword,
              DeletePasswordResetToken, GetByID, stores
<1>6. CASE Restart
  <2>1. UNCHANGED issued /\ (key'.gen = key.gen \/ key'.gen = key.gen + 1)
    BY <1>6 DEF Restart, TypeOK, StoresOK
  <2>. QED
    BY <1>1, <2>1 DEF NoFutureKey
<1>7. ASSUME Environment, ~Restart
      PROVE  UNCHANGED <<issued, key>>
  BY <1>7 DEF Environment, Tick, ResetTokenExpires, RefreshTokenExpires,
              Delete, HardDelete
<1>8. CASE UNCHANGED vars
  BY <1>2, <1>8 DEF vars
<1>. QED
  BY <1>2, <1>3, <1>4, <1>5, <1>6, <1>7, <1>8 DEF Next

\* The service keeps its promises (AuthContract): each reply is one that the
\* accounts, grants and sessions of some instant of the call justify, and each
\* change of theirs is one that a request, with what it showed, may make.
THEOREM Implements == Spec => Contract
<1>1. Spec => []NoFutureKey
  <2>1. Init => NoFutureKey
    BY DEF Init, NoFutureKey
  <2>2. TypeOK /\ NoFutureKey /\ [Next]_vars => NoFutureKey'
    BY NoFutureKeyStays
  <2>. QED
    BY <2>1, <2>2, TypeCorrect, PTL DEF Spec
<1>2. Init => C!CInit
  BY InitImplements
<1>3. TypeOK /\ OneAccountPerEmail /\ NoFutureKey /\ [Next]_vars
        => [C!CNext]_(C!cvars)
  BY NextImplements
<1>. QED
  BY <1>1, <1>2, <1>3, TypeCorrect, AccountsAreUnique, PTL
     DEF Spec, Contract, C!CSpec

==============================================================================
