----------------------------- MODULE RustProofs -----------------------------
(***************************************************************************)
(* What holds of RustAuth for every number of handlers, addresses,         *)
(* accounts, tokens and faults; and, in the second half, that RustAuth     *)
(* implements AuthContract without the promises that only the Go backend   *)
(* makes: the initial states map to initial states, and every step to a    *)
(* step of the contract or to a stutter.                                   *)
(***************************************************************************)
EXTENDS RustRefinement, TLAPS

----------------------------------------------------------------------------
(* How the control operators move a request. *)

\* The reply of a handler leaves a request of the right shape.
LEMMA ReplyOK ==
  ASSUME CallsOK, NEW c \in Calls, calls[c].op # "none",
         NEW r \in Replies, Reply(c, r)
  PROVE  CallsOK'
<1>1. WellFormed([Idle EXCEPT !.op = calls[c].op, !.pc = "done", !.reply = r])
  BY DEF CallsOK, Request, WellFormed, Idle, AllMethods, Labels
<1>2. [Idle EXCEPT !.op = calls[c].op, !.pc = "done", !.reply = r] \in Request
  BY DEF CallsOK, Request, Idle, AllMethods, AllLabels, Replies
<1>. QED
  BY <1>1, <1>2 DEF CallsOK, Reply

\* A handler that goes on keeps its shape when it knows what the next label
\* needs.
LEMMA GotoOK ==
  ASSUME CallsOK, NEW c \in Calls, NEW l \in AllLabels,
         WellFormed([calls[c] EXCEPT !.pc = l]), Goto(c, l)
  PROVE  CallsOK'
<1>1. [calls[c] EXCEPT !.pc = l] \in Request
  BY DEF CallsOK, Request
<1>. QED
  BY <1>1 DEF CallsOK, Goto

LEMMA GotoAsOK ==
  ASSUME CallsOK, NEW c \in Calls, NEW l \in AllLabels, NEW u \in UserIds,
         WellFormed([calls[c] EXCEPT !.pc = l, !.user = u]), GotoAs(c, l, u)
  PROVE  CallsOK'
<1>1. [calls[c] EXCEPT !.pc = l, !.user = u] \in Request
  BY DEF CallsOK, Request
<1>. QED
  BY <1>1 DEF CallsOK, GotoAs

\* An arriving request has the shape its first label needs.
LEMMA StartOK ==
  ASSUME CallsOK, NEW c \in Calls, NEW op \in AllMethods, NEW l \in AllLabels,
         NEW e \in Emails \cup {None}, NEW p \in Passwords \cup {None},
         NEW t \in ResetTokens \cup AccessTokens \cup {None},
         WellFormed([Idle EXCEPT !.op = op, !.pc = l, !.email = e, !.pwd = p,
                                 !.token = t]),
         Start(c, op, l, e, p, t)
  PROVE  CallsOK'
<1>1. [Idle EXCEPT !.op = op, !.pc = l, !.email = e, !.pwd = p, !.token = t]
        \in Request
  BY DEF Request, Idle, Replies
<1>. QED
  BY <1>1 DEF CallsOK, Start

LEMMA AnswerOK ==
  ASSUME CallsOK, NEW c \in Calls, NEW op \in AllMethods, NEW r \in Replies,
         Answer(c, op, r)
  PROVE  CallsOK'
<1>1. WellFormed([Idle EXCEPT !.op = op, !.pc = "done", !.reply = r])
  BY DEF WellFormed, Idle, AllMethods, Labels
<1>2. [Idle EXCEPT !.op = op, !.pc = "done", !.reply = r] \in Request
  BY DEF Request, Idle, AllLabels, Replies
<1>. QED
  BY <1>1, <1>2 DEF CallsOK, Answer

\* A request that is not redeeming a token cannot break TokensOK.
LEMMA SameTokensOK ==
  ASSUME CallsOK, TokensOK, NEW c \in Calls,
         UNCHANGED resets,
         calls' = [calls EXCEPT ![c] = calls'[c]],
         calls'[c].pc \in {"update"} =>
           /\ calls[c].pc \in {"redeem", "update"}
           /\ calls'[c].token = calls[c].token,
         calls'[c].pc # "redeem"
  PROVE  TokensOK'
BY DEF TokensOK, CallsOK

LEMMA ReplyMoves ==
  ASSUME CallsOK, NEW c \in Calls, NEW r, Reply(c, r)
  PROVE  calls' = [calls EXCEPT ![c] = calls'[c]] /\ calls'[c].pc = "done"
BY DEF Reply, CallsOK, Idle

LEMMA GotoMoves ==
  ASSUME CallsOK, NEW c \in Calls, NEW l, Goto(c, l)
  PROVE  /\ calls' = [calls EXCEPT ![c] = calls'[c]]
         /\ calls'[c].pc = l
         /\ calls'[c].token = calls[c].token
BY DEF Goto, CallsOK, Request

LEMMA GotoAsMoves ==
  ASSUME CallsOK, NEW c \in Calls, NEW l, NEW u, GotoAs(c, l, u)
  PROVE  /\ calls' = [calls EXCEPT ![c] = calls'[c]]
         /\ calls'[c].pc = l
         /\ calls'[c].token = calls[c].token
BY DEF GotoAs, CallsOK, Request

LEMMA StartMoves ==
  ASSUME CallsOK, NEW c \in Calls, NEW op, NEW l, NEW e, NEW p, NEW t,
         Start(c, op, l, e, p, t)
  PROVE  /\ calls' = [calls EXCEPT ![c] = calls'[c]]
         /\ calls'[c].pc = l
         /\ calls'[c].token = t
         /\ op \in AllMethods
BY BackendAssumption DEF Start, CallsOK, Idle

\* What a handler knows at each of its labels.
LEMMA Shape ==
  ASSUME CallsOK, NEW c \in Calls
  PROVE  /\ calls[c].pc = "create" => calls[c].op = "SignUp"
         /\ calls[c].pc \in {"lookup", "store", "stamp"} => calls[c].op = "Login"
         /\ calls[c].pc \in {"find", "grant"} => calls[c].op = "ForgotPassword"
         /\ calls[c].pc \in {"redeem", "update"} =>
              /\ calls[c].op = "ResetPassword"
              /\ calls[c].token \in ResetTokens
         /\ calls[c].pc \in {"create", "lookup", "find"} => calls[c].email \in Emails
         /\ calls[c].pc \in {"create", "lookup", "redeem", "update"}
              => calls[c].pwd \in Passwords
         /\ calls[c].pc \in {"store", "stamp", "grant", "update"}
              => calls[c].user \in UserIds
         /\ calls[c].pc = "getbyid" =>
              /\ calls[c].op = "ValidateToken"
              /\ calls[c].token \in AccessTokens
BY DEF CallsOK, WellFormed, Labels, Request, AllMethods

----------------------------------------------------------------------------
(* Type correctness. *)

LEMMA InitTypeOK == Init => TypeOK
<1>. SUFFICES ASSUME Init PROVE TypeOK
  OBVIOUS
<1>1. StoresOK
  BY BackendAssumption DEF Init, StoresOK
<1>2. CallsOK
  <2>1. Idle \in Request
    BY DEF Idle, Request, AllLabels, Replies
  <2>2. WellFormed(Idle)
    BY DEF Idle, WellFormed, Labels
  <2>. QED
    BY <2>1, <2>2 DEF Init, CallsOK
<1>3. TokensOK
  BY DEF Init, TokensOK, Idle
<1>4. SessionsOK
  BY RustAssumption DEF Init, SessionsOK
<1>. QED
  BY <1>1, <1>2, <1>3, <1>4 DEF TypeOK

LEMMA FaultsOK ==
  ASSUME faults \in 0..MaxFaults, Fault \/ UNCHANGED faults
  PROVE  faults' \in 0..MaxFaults
BY BackendAssumption DEF Fault

\* A request that does not become a login about to store its token cannot
\* break SessionsOK while the stored tokens stay.
LEMMA SameSessionsOK ==
  ASSUME CallsOK, SessionsOK, NEW c \in Calls,
         UNCHANGED refresh,
         calls' = [calls EXCEPT ![c] = calls'[c]],
         \/ calls'[c].pc \notin {"lookup", "store"}
         \/ calls[c].pc \in {"lookup", "store"}
  PROVE  SessionsOK'
BY DEF SessionsOK, CallsOK

\* A step of slot c that leaves the stores alone and moves its request on to
\* the label l, which is not one that needs more than its request knew.
LEMMA QuietStep ==
  ASSUME TypeOK, NEW c \in Calls, CallsOK', UNCHANGED stores,
         Fault \/ UNCHANGED faults,
         calls' = [calls EXCEPT ![c] = calls'[c]],
         calls'[c].pc # "redeem",
         calls'[c].pc = "update" =>
           calls[c].pc = "redeem" /\ calls'[c].token = calls[c].token,
         calls'[c].pc \in {"lookup", "store"} => calls[c].pc \in {"lookup", "store"}
  PROVE  TypeOK'
<1>1. StoresOK'
  BY FaultsOK DEF TypeOK, StoresOK, stores
<1>2. TokensOK'
  BY SameTokensOK DEF TypeOK, stores
<1>3. SessionsOK'
  BY SameSessionsOK DEF TypeOK, stores
<1>. QED
  BY <1>1, <1>2, <1>3 DEF TypeOK

LEMMA SignUpSteps ==
  ASSUME TypeOK, NEW c \in Calls, SignUp(c) \/ Create(c)
  PROVE  TypeOK'
<1>. USE DEF TypeOK
<1>1. CASE SignUp(c)
  <2>1. PICK e \in Emails, p \in Passwords :
          Start(c, "SignUp", "create", e, p, None)
    BY <1>1 DEF SignUp
  <2>2. CallsOK'
    BY <2>1, StartOK DEF WellFormed, Labels, AllLabels, AllMethods, Idle
  <2>. QED
    BY <1>1, <2>1, <2>2, StartMoves, QuietStep DEF SignUp
<1>2. CASE Create(c)
  <2>1. /\ calls[c].pc = "create" /\ UNCHANGED <<resets, refresh, issued>>
        /\ Reply(c, "ok") \/ Reply(c, "internal")
        /\ Fault \/ UNCHANGED faults
    BY <1>2 DEF Create, Command, Query, At
  <2>2. CallsOK'
    BY <2>1, Shape, ReplyOK DEF Replies
  <2>3. users' \in [UserIds -> Row \cup {None, Gone}]
    <3>1. [email |-> calls[c].email, pwd |-> calls[c].pwd, active |-> TRUE] \in Row
      BY <2>1, Shape DEF Row
    <3>2. \/ UNCHANGED users
          \/ \E u \in UserIds : Insert(u, calls[c].email, calls[c].pwd)
      BY <1>2 DEF Create, Command
    <3>. QED
      BY <3>1, <3>2 DEF Insert, StoresOK
  <2>4. StoresOK'
    BY <2>1, <2>3, FaultsOK DEF StoresOK
  <2>5. TokensOK' /\ SessionsOK'
    BY <2>1, ReplyMoves, SameTokensOK, SameSessionsOK
  <2>. QED
    BY <2>2, <2>4, <2>5
<1>. QED
  BY <1>1, <1>2

\* A login takes a slot: the token the slot stored before is named no more.
LEMMA LoginArrives ==
  ASSUME TypeOK, NEW c \in Calls, Login(c)
  PROVE  TypeOK'
<1>. USE DEF TypeOK
<1>1. PICK e \in Emails, p \in Passwords :
        Start(c, "Login", "lookup", e, p, None)
  BY DEF Login
<1>2. CallsOK'
  BY <1>1, StartOK DEF WellFormed, Labels, AllLabels, AllMethods, Idle
<1>3. refresh' \in [UserIds -> Calls \cup {None, Old}]
  BY DEF Login, StoresOK
<1>4. StoresOK'
  BY <1>3 DEF Login, StoresOK
<1>5. TokensOK'
  BY <1>1, StartMoves, SameTokensOK DEF Login
<1>6. SessionsOK'
  <2>1. \A u \in UserIds :
          refresh'[u] = IF refresh[u] = c THEN Old ELSE refresh[u]
    BY DEF Login
  <2>2. \A d \in Calls : d # c => calls'[d] = calls[d]
    BY <1>1, StartMoves DEF CallsOK
  <2>3. Old \notin Calls
    BY RustAssumption
  <2>. QED
    BY <2>1, <2>2, <2>3 DEF SessionsOK
<1>. QED
  BY <1>2, <1>4, <1>5, <1>6

LEMMA LoginSteps ==
  ASSUME TypeOK, NEW c \in Calls,
         FindByEmail(c) \/ StoreRefreshToken(c) \/ UpdateLastLogin(c)
  PROVE  TypeOK'
<1>. USE DEF TypeOK
<1>1. CASE FindByEmail(c)
  <2>1. /\ calls[c].pc = "lookup" /\ UNCHANGED stores
        /\ Fault \/ UNCHANGED faults
    BY <1>1 DEF FindByEmail, At, Query
  <2>2. \/ Reply(c, "unauthenticated") \/ Reply(c, "internal")
        \/ \E u \in UserIds : GotoAs(c, "store", u)
    BY <1>1 DEF FindByEmail, Query, Holders
  <2>3. ASSUME NEW u \in UserIds
        PROVE  WellFormed([calls[c] EXCEPT !.pc = "store", !.user = u])
    BY <2>1, Shape DEF WellFormed, Labels, CallsOK, Request
  <2>4. CallsOK'
    BY <2>1, <2>2, <2>3, ReplyOK, GotoAsOK, Shape DEF Replies, AllLabels
  <2>. QED
    BY <2>1, <2>2, <2>4, ReplyMoves, GotoAsMoves, QuietStep
<1>2. CASE StoreRefreshToken(c)
  <2>1. /\ calls[c].pc = "store" /\ UNCHANGED <<users, resets, issued>>
        /\ Goto(c, "stamp") \/ Reply(c, "internal")
        /\ Fault \/ UNCHANGED faults
    BY <1>2 DEF StoreRefreshToken, At, Command
  <2>2. calls[c].op = "Login" /\ calls[c].user \in UserIds
    BY <2>1, Shape
  <2>3. WellFormed([calls[c] EXCEPT !.pc = "stamp"])
    BY <2>1, <2>2 DEF WellFormed, Labels, CallsOK, Request
  <2>4. CallsOK'
    BY <2>1, <2>2, <2>3, ReplyOK, GotoOK DEF Replies, AllLabels
  <2>5. \/ UNCHANGED refresh
        \/ refresh' = [refresh EXCEPT ![calls[c].user] = c]
    BY <1>2 DEF StoreRefreshToken, Command
  <2>6. StoresOK'
    BY <2>1, <2>2, <2>5, FaultsOK DEF StoresOK
  <2>7. TokensOK'
    BY <2>1, ReplyMoves, GotoMoves, SameTokensOK
  <2>8. SessionsOK'
    <3>1. /\ calls' = [calls EXCEPT ![c] = calls'[c]]
          /\ calls'[c].pc \notin {"lookup", "store"}
      BY <2>1, ReplyMoves, GotoMoves
    <3>2. CASE UNCHANGED refresh
      BY <3>1, <3>2, SameSessionsOK
    <3>3. CASE refresh' = [refresh EXCEPT ![calls[c].user] = c]
      <4>1. \A u \in UserIds :
              refresh'[u] = IF u = calls[c].user THEN c ELSE refresh[u]
        BY <3>3 DEF StoresOK
      <4>2. \A u \in UserIds : refresh[u] # c
        BY <2>1 DEF SessionsOK
      <4>3. \A d \in Calls : d # c => calls'[d] = calls[d]
        BY <3>1 DEF CallsOK
      <4>. QED
        BY <3>1, <4>1, <4>2, <4>3 DEF SessionsOK
    <3>. QED
      BY <2>5, <3>2, <3>3
  <2>. QED
    BY <2>4, <2>6, <2>7, <2>8
<1>3. CASE UpdateLastLogin(c)
  <2>1. /\ calls[c].pc = "stamp" /\ UNCHANGED <<users, resets, refresh>>
        /\ Reply(c, "ok") \/ Reply(c, "internal")
        /\ Fault \/ UNCHANGED faults
    BY <1>3 DEF UpdateLastLogin, At
  <2>2. CallsOK'
    BY <2>1, ReplyOK, Shape DEF Replies
  <2>3. issued' \subseteq AccessTokens
    BY <1>3, <2>1, Shape DEF UpdateLastLogin, AccessTokens, StoresOK
  <2>4. StoresOK'
    BY <2>1, <2>3, FaultsOK DEF StoresOK
  <2>5. TokensOK' /\ SessionsOK'
    BY <2>1, ReplyMoves, SameTokensOK, SameSessionsOK
  <2>. QED
    BY <2>2, <2>4, <2>5
<1>. QED
  BY <1>1, <1>2, <1>3

LEMMA ForgotPasswordSteps ==
  ASSUME TypeOK, NEW c \in Calls,
         ForgotPassword(c) \/ FindAccount(c) \/ StoreResetToken(c)
  PROVE  TypeOK'
<1>. USE DEF TypeOK
<1>1. CASE ForgotPassword(c)
  <2>1. PICK e \in Emails : Start(c, "ForgotPassword", "find", e, None, None)
    BY <1>1 DEF ForgotPassword
  <2>2. CallsOK'
    BY <2>1, StartOK DEF WellFormed, Labels, AllLabels, AllMethods, Idle
  <2>. QED
    BY <1>1, <2>1, <2>2, StartMoves, QuietStep DEF ForgotPassword
<1>2. CASE FindAccount(c)
  <2>1. /\ calls[c].pc = "find" /\ UNCHANGED stores
        /\ Fault \/ UNCHANGED faults
    BY <1>2 DEF FindAccount, At, Query
  <2>2. \/ Reply(c, "ok") \/ Reply(c, "internal")
        \/ \E u \in UserIds : GotoAs(c, "grant", u)
    BY <1>2 DEF FindAccount, Query, Holders
  <2>3. ASSUME NEW u \in UserIds
        PROVE  WellFormed([calls[c] EXCEPT !.pc = "grant", !.user = u])
    BY <2>1, Shape DEF WellFormed, Labels, CallsOK, Request
  <2>4. CallsOK'
    BY <2>1, <2>2, <2>3, ReplyOK, GotoAsOK, Shape DEF Replies, AllLabels
  <2>. QED
    BY <2>1, <2>2, <2>4, ReplyMoves, GotoAsMoves, QuietStep
<1>3. CASE StoreResetToken(c)
  <2>1. /\ calls[c].pc = "grant" /\ UNCHANGED <<users, refresh, issued>>
        /\ Reply(c, "ok") \/ Reply(c, "internal")
        /\ Fault \/ UNCHANGED faults
    BY <1>3 DEF StoreResetToken, Command, At
  <2>2. calls[c].user \in UserIds /\ calls[c].user # None
    BY <2>1, Shape, BackendAssumption
  <2>3. PICK t \in ResetTokens :
          \/ resets' = [resets EXCEPT ![t] = calls[c].user]
          \/ UNCHANGED resets
    BY <1>3 DEF StoreResetToken, Command
  <2>4. CallsOK'
    BY <2>1, ReplyOK, Shape DEF Replies
  <2>5. TokensOK'
    <3>1. CASE UNCHANGED resets
      BY <2>1, <3>1, ReplyMoves, SameTokensOK
    <3>2. CASE resets' = [resets EXCEPT ![t] = calls[c].user]
      BY <2>1, <2>2, <3>2, ReplyMoves
         DEF StoresOK, TokensOK, CallsOK, WellFormed
    <3>. QED
      BY <2>3, <3>1, <3>2
  <2>6. StoresOK'
    BY <2>1, <2>2, <2>3, FaultsOK DEF StoresOK
  <2>7. SessionsOK'
    BY <2>1, ReplyMoves, SameSessionsOK
  <2>. QED
    BY <2>4, <2>5, <2>6, <2>7
<1>. QED
  BY <1>1, <1>2, <1>3

LEMMA ResetPasswordSteps ==
  ASSUME TypeOK, NEW c \in Calls,
         \/ ResetPassword(c) \/ GetUserIdFromResetToken(c) \/ UpdatePassword(c)
  PROVE  TypeOK'
<1>. USE DEF TypeOK
<1>1. CASE ResetPassword(c)
  <2>1. PICK t \in ResetTokens, p \in Passwords :
          resets[t] # None /\ Start(c, "ResetPassword", "redeem", None, p, t)
    BY <1>1 DEF ResetPassword
  <2>2. CallsOK'
    BY <2>1, StartOK DEF WellFormed, Labels, AllLabels, AllMethods, Idle
  <2>3. StoresOK'
    BY <1>1, FaultsOK DEF ResetPassword, StoresOK, stores
  <2>4. TokensOK'
    BY <1>1, <2>1, StartMoves DEF ResetPassword, stores, TokensOK, CallsOK
  <2>5. SessionsOK'
    BY <1>1, <2>1, StartMoves, SameSessionsOK DEF ResetPassword, stores
  <2>. QED
    BY <2>2, <2>3, <2>4, <2>5
<1>2. CASE GetUserIdFromResetToken(c)
  <2>. DEFINE u == resets[calls[c].token]
  <2>1. /\ calls[c].pc = "redeem" /\ UNCHANGED stores
        /\ Fault \/ UNCHANGED faults
    BY <1>2 DEF GetUserIdFromResetToken, At, Query
  <2>2. u \in UserIds \cup {Gone}
    BY <2>1, Shape DEF StoresOK, TokensOK
  <2>3. \/ Reply(c, "badtoken") \/ Reply(c, "internal")
        \/ u \in UserIds /\ GotoAs(c, "update", u)
    BY <1>2, <2>2 DEF GetUserIdFromResetToken, Query
  <2>4. u \in UserIds => WellFormed([calls[c] EXCEPT !.pc = "update", !.user = u])
    BY <2>1, Shape DEF WellFormed, Labels, CallsOK, Request
  <2>5. CallsOK'
    <3>. HIDE DEF u
    <3>. QED
      BY <2>1, <2>3, <2>4, ReplyOK, GotoAsOK, Shape DEF Replies, AllLabels
  <2>. QED
    BY <2>1, <2>3, <2>5, ReplyMoves, GotoAsMoves, QuietStep
<1>3. CASE UpdatePassword(c)
  <2>1. /\ calls[c].pc = "update" /\ UNCHANGED <<resets, refresh, issued>>
        /\ Reply(c, "ok") \/ Reply(c, "internal")
        /\ Fault \/ UNCHANGED faults
    BY <1>3 DEF UpdatePassword, Command, At
  <2>2. CallsOK'
    BY <2>1, ReplyOK, Shape DEF Replies
  <2>3. users' \in [UserIds -> Row \cup {None, Gone}]
    <3>1. \/ UNCHANGED users
          \/ /\ Live(calls[c].user)
             /\ users' = [users EXCEPT ![calls[c].user].pwd = calls[c].pwd]
      BY <1>3 DEF UpdatePassword, Command
    <3>2. calls[c].user \in UserIds /\ calls[c].pwd \in Passwords
      BY <2>1, Shape
    <3>. QED
      BY <3>1, <3>2 DEF Live, StoresOK, Row
  <2>4. StoresOK'
    BY <2>1, <2>3, FaultsOK DEF StoresOK
  <2>5. TokensOK' /\ SessionsOK'
    BY <2>1, ReplyMoves, SameTokensOK, SameSessionsOK
  <2>. QED
    BY <2>2, <2>4, <2>5
<1>. QED
  BY <1>1, <1>2, <1>3

LEMMA ValidateTokenSteps ==
  ASSUME TypeOK, NEW c \in Calls, ValidateToken(c) \/ FindById(c) \/ Reject(c)
  PROVE  TypeOK'
<1>. USE DEF TypeOK
<1>0. ASSUME NEW op \in AllMethods, NEW r \in Replies, Answer(c, op, r)
      PROVE  calls' = [calls EXCEPT ![c] = calls'[c]] /\ calls'[c].pc = "done"
  BY <1>0 DEF Answer, CallsOK, Idle
<1>1. CASE ValidateToken(c)
  <2>1. PICK t \in AccessTokens :
          \/ Start(c, "ValidateToken", "getbyid", None, None, t)
          \/ Answer(c, "ValidateToken", "notvalid")
    BY <1>1 DEF ValidateToken, StoresOK
  <2>2. CallsOK'
    BY <2>1, StartOK, AnswerOK
       DEF WellFormed, Labels, AllLabels, AllMethods, Idle, Replies
  <2>3. CASE Start(c, "ValidateToken", "getbyid", None, None, t)
    BY <1>1, <2>2, <2>3, StartMoves, QuietStep DEF ValidateToken
  <2>4. CASE Answer(c, "ValidateToken", "notvalid")
    BY <1>0, <1>1, <2>2, <2>4, QuietStep DEF ValidateToken, AllMethods, Replies
  <2>. QED
    BY <2>1, <2>3, <2>4
<1>2. CASE FindById(c)
  <2>1. /\ calls[c].pc = "getbyid" /\ UNCHANGED stores
        /\ Reply(c, "valid") \/ Reply(c, "notvalid") \/ Reply(c, "internal")
        /\ Fault \/ UNCHANGED faults
    BY <1>2 DEF FindById, Query, At
  <2>2. CallsOK'
    BY <2>1, ReplyOK, Shape DEF Replies
  <2>. QED
    BY <2>1, <2>2, ReplyMoves, QuietStep
<1>3. CASE Reject(c)
  <2>1. PICK op \in AllMethods : Answer(c, op, "invalid")
    BY <1>3, BackendAssumption DEF Reject
  <2>2. CallsOK'
    BY <2>1, AnswerOK DEF Replies
  <2>. QED
    BY <1>0, <1>3, <2>1, <2>2, QuietStep DEF Reject, Replies
<1>. QED
  BY <1>1, <1>2, <1>3

LEMMA EnvironmentSteps ==
  ASSUME TypeOK, Environment
  PROVE  TypeOK'
<1>. USE DEF TypeOK
<1>1. CASE \E t \in ResetTokens : ResetTokenExpires(t)
  <2>1. PICK t \in ResetTokens : ResetTokenExpires(t)
    BY <1>1
  <2>2. StoresOK'
    BY <2>1 DEF ResetTokenExpires, StoresOK
  <2>3. TokensOK'
    BY <2>1, BackendAssumption
       DEF ResetTokenExpires, StoresOK, TokensOK, CallsOK, WellFormed
  <2>. QED
    BY <2>1, <2>2, <2>3 DEF ResetTokenExpires, CallsOK, SessionsOK
<1>2. CASE \E u \in UserIds : RefreshTokenExpires(u)
  <2>1. PICK u \in UserIds : RefreshTokenExpires(u)
    BY <1>2
  <2>2. StoresOK'
    BY <2>1 DEF RefreshTokenExpires, StoresOK
  <2>3. \A v \in UserIds : refresh'[v] = IF v = u THEN None ELSE refresh[v]
    BY <2>1 DEF RefreshTokenExpires, StoresOK
  <2>4. SessionsOK'
    BY <2>1, <2>3, RustAssumption DEF RefreshTokenExpires, SessionsOK
  <2>. QED
    BY <2>1, <2>2, <2>4 DEF RefreshTokenExpires, CallsOK, TokensOK
<1>3. CASE \E u \in UserIds : Deactivate(u) \/ Remove(u)
  <2>1. PICK u \in UserIds : Deactivate(u) \/ Remove(u)
    BY <1>3
  <2>2. users' \in [UserIds -> Row \cup {None, Gone}]
    BY <2>1 DEF Deactivate, Remove, Live, StoresOK, Row
  <2>. QED
    BY <2>1, <2>2 DEF Deactivate, Remove, StoresOK, CallsOK, TokensOK, SessionsOK
<1>4. CASE Restart
  <2>1. Idle \in Request /\ WellFormed(Idle) /\ Idle.pc = "idle"
    BY DEF Idle, Request, AllLabels, Replies, WellFormed, Labels
  <2>2. CallsOK' /\ TokensOK' /\ SessionsOK'
    BY <1>4, <2>1 DEF Restart, CallsOK, TokensOK, SessionsOK, stores
  <2>3. StoresOK'
    BY <1>4, FaultsOK DEF Restart, StoresOK, stores
  <2>. QED
    BY <2>2, <2>3
<1>. QED
  BY <1>1, <1>2, <1>3, <1>4 DEF Environment

\* Every variable of RustAuth keeps its type and every handler the data its
\* next statement needs (main.rs:45-309).
THEOREM TypeCorrect == Spec => []TypeOK
<1>1. TypeOK /\ [Next]_vars => TypeOK'
  <2>. SUFFICES ASSUME TypeOK, [Next]_vars PROVE TypeOK'
    OBVIOUS
  <2>1. CASE \E c \in Calls : Arrive(c) \/ Step(c)
    BY <2>1, SignUpSteps, LoginArrives, LoginSteps, ForgotPasswordSteps,
       ResetPasswordSteps, ValidateTokenSteps DEF Arrive, Step
  <2>2. CASE Environment
    BY <2>2, EnvironmentSteps
  <2>3. CASE UNCHANGED vars
    BY <2>3 DEF vars, TypeOK, StoresOK, CallsOK, TokensOK, SessionsOK
  <2>. QED
    BY <2>1, <2>2, <2>3 DEF Next
<1>. QED
  BY InitTypeOK, <1>1, PTL DEF Spec

----------------------------------------------------------------------------
(* One account per address. *)

\* The only ways the users table changes.
LEMMA TableSteps ==
  ASSUME TypeOK, [Next]_vars
  PROVE  \/ UNCHANGED users
         \/ \E u \in UserIds, e \in Emails, p \in Passwords :
              ~Violates(e) /\ Insert(u, e, p)
         \/ \E u \in UserIds : Live(u) /\ \E p \in Passwords :
              users' = [users EXCEPT ![u].pwd = p]
         \/ \E u \in UserIds : Deactivate(u) \/ Remove(u)
<1>. USE DEF stores
<1>1. CASE UNCHANGED vars
  BY <1>1 DEF vars
<1>2. ASSUME NEW c \in Calls, Create(c)
      PROVE  \/ UNCHANGED users
             \/ \E u \in UserIds, e \in Emails, p \in Passwords :
                  ~Violates(e) /\ Insert(u, e, p)
  <2>1. calls[c].email \in Emails /\ calls[c].pwd \in Passwords
    BY <1>2, Shape DEF Create, At, TypeOK
  <2>. QED
    BY <1>2, <2>1 DEF Create, Command
<1>3. ASSUME NEW c \in Calls, UpdatePassword(c)
      PROVE  \/ UNCHANGED users
             \/ \E u \in UserIds : Live(u) /\ \E p \in Passwords :
                  users' = [users EXCEPT ![u].pwd = p]
  <2>1. calls[c].user \in UserIds /\ calls[c].pwd \in Passwords
    BY <1>3, Shape DEF UpdatePassword, At, TypeOK
  <2>. QED
    BY <1>3, <2>1 DEF UpdatePassword, Command
<1>4. ASSUME NEW c \in Calls, Arrive(c) PROVE UNCHANGED users
  BY <1>4 DEF Arrive, SignUp, Login, ForgotPassword, ResetPassword,
              ValidateToken, Reject
<1>5. ASSUME NEW c \in Calls, Step(c), ~Create(c), ~UpdatePassword(c)
      PROVE  UNCHANGED users
  BY <1>5 DEF Step, FindByEmail, StoreRefreshToken, UpdateLastLogin,
              FindAccount, StoreResetToken, GetUserIdFromResetToken, FindById
<1>6. CASE Environment
  BY <1>6 DEF Environment, ResetTokenExpires, RefreshTokenExpires, Restart
<1>. QED
  BY <1>1, <1>2, <1>3, <1>4, <1>5, <1>6 DEF Next

\* sign_up inserts without looking first (main.rs:61): the UNIQUE column keeps
\* two accounts from holding one address.
THEOREM AccountsAreUnique == Spec => []OneAccountPerEmail
<1>1. Init => OneAccountPerEmail
  BY BackendAssumption DEF Init, OneAccountPerEmail, Live
<1>2. TypeOK /\ OneAccountPerEmail /\ [Next]_vars => OneAccountPerEmail'
  <2>. SUFFICES ASSUME TypeOK, OneAccountPerEmail, [Next]_vars
                PROVE  OneAccountPerEmail'
    OBVIOUS
  <2>. USE DEF TypeOK, StoresOK, Row, OneAccountPerEmail, Live
  <2>1. CASE UNCHANGED users
    BY <2>1
  <2>2. ASSUME NEW w \in UserIds, NEW e \in Emails, NEW p \in Passwords,
               ~Violates(e), Insert(w, e, p)
        PROVE  OneAccountPerEmail'
    <3>1. \A u \in UserIds : Live(u) => users[u].email # e
      BY <2>2 DEF Violates, Holders
    <3>2. \A u \in UserIds :
            users'[u] = IF u = w THEN [email |-> e, pwd |-> p, active |-> TRUE]
                                 ELSE users[u]
      BY <2>2 DEF Insert
    <3>. QED
      BY <3>1, <3>2
  <2>3. ASSUME NEW w \in UserIds, Live(w), NEW p \in Passwords,
               users' = [users EXCEPT ![w].pwd = p]
        PROVE  OneAccountPerEmail'
    BY <2>3
  <2>4. ASSUME NEW w \in UserIds, Deactivate(w) \/ Remove(w)
        PROVE  OneAccountPerEmail'
    BY <2>4 DEF Deactivate, Remove
  <2>. QED
    BY <2>1, <2>2, <2>3, <2>4, TableSteps
<1>. QED
  BY <1>1, <1>2, TypeCorrect, PTL DEF Spec
----------------------------------------------------------------------------
(* What the control operators look like to the contract. *)

LEMMA ReplyCloses ==
  ASSUME CallsOK, NEW c \in Calls, NEW r, Reply(c, r)
  PROVE  C!Close(c, r)
<1>. DEFINE done == [Idle EXCEPT !.op = calls[c].op, !.pc = "done", !.reply = r]
            closed == [C!NoRequest EXCEPT !.op = calls[c].op,
                                          !.stage = "done", !.reply = r]
            ending == [op : {calls[c].op}, email : {None}, pwd : {None},
                       user : {None}, token : {None}, stage : {"done"},
                       reply : {r}]
<1>1. closed \in ending
  BY DEF C!NoRequest
<1>2. /\ done.op = calls[c].op /\ done.pc = "done" /\ done.reply = r
      /\ done.email = None /\ done.pwd = None /\ done.user = None
      /\ done.token = None
  BY DEF Idle
<1>3. Stage(done.pc) = "done"
  BY <1>2 DEF Stage
<1>. HIDE DEF done
<1>4. Abstract(done) \in ending
  BY <1>2, <1>3 DEF Abstract
<1>. HIDE DEF closed
<1>5. Abstract(done) = closed
  BY <1>1, <1>4
<1>6. calls' = [calls EXCEPT ![c] = done]
  BY DEF Reply, done
<1>. HIDE DEF ending
<1>7. [d \in Calls |-> Abstract(calls'[d])]
        = [[d \in Calls |-> Abstract(calls[d])] EXCEPT ![c] = closed]
  BY <1>5, <1>6 DEF CallsOK
<1>8. [d \in Calls |-> Abstract(calls[d])][c].op = calls[c].op
  BY DEF Abstract
<1>. QED
  BY <1>7, <1>8 DEF C!Close, closed

LEMMA GotoAsPasses ==
  ASSUME CallsOK, NEW c \in Calls, NEW l, NEW u, GotoAs(c, l, u)
  PROVE  C!Pass(c, Stage(l), u)
BY DEF CallsOK, Request, GotoAs, Abstract, C!Pass

LEMMA GotoHides ==
  ASSUME CallsOK, NEW c \in Calls, NEW l, Goto(c, l),
         Stage(l) = Stage(calls[c].pc)
  PROVE  [d \in Calls |-> Abstract(calls'[d])] = [d \in Calls |-> Abstract(calls[d])]
BY DEF CallsOK, Request, Goto, Abstract

LEMMA GotoPasses ==
  ASSUME CallsOK, NEW c \in Calls, NEW l, Goto(c, l)
  PROVE  C!Pass(c, Stage(l), calls[c].user)
BY DEF CallsOK, Request, Goto, Abstract, C!Pass

\* The contract sees the request of a handler, but not where it stands.
LEMMA Seen ==
  ASSUME NEW c \in Calls, NEW op, NEW stage,
         calls[c].op = op, Stage(calls[c].pc) = stage
  PROVE  C!In(c, op, stage)
BY DEF C!In, Abstract

LEMMA SeenFields ==
  ASSUME NEW c \in Calls
  PROVE  LET r == [d \in Calls |-> Abstract(calls[d])][c]
         IN  /\ r.email = calls[c].email /\ r.pwd = calls[c].pwd
             /\ r.user = calls[c].user /\ r.token = calls[c].token
             /\ r.op = calls[c].op /\ r.stage = Stage(calls[c].pc)
BY DEF Abstract

LEMMA OwnerIsHolder ==
  ASSUME NEW e
  PROVE  C!Owner(e) = Holders(e)
BY DEF C!Owner, C!Exists, Holders, Live

LEMMA FaultExcuses ==
  ASSUME TypeOK
  PROVE  /\ Fault => C!Excused /\ faults' = faults + 1
         /\ (Fault \/ UNCHANGED faults) => faults' \in {faults, faults + 1}
BY BackendAssumption DEF TypeOK, StoresOK, Fault, C!Excused

\* What the contract sees of the stored refresh tokens.
LEMMA SessionIs ==
  ASSUME SessionsOK, NEW c \in Calls
  PROVE  /\ \A u \in UserIds : refresh[u] = c => Session(c) = u
         /\ (\A u \in UserIds : refresh[u] # c) => Session(c) = None
         /\ Session(c) \in UserIds \cup {None}
         /\ \A u \in UserIds : Session(c) = u => refresh[u] = c
<1>1. None \notin UserIds
  BY BackendAssumption
<1>2. CASE \A u \in UserIds : refresh[u] # c
  BY <1>1, <1>2 DEF Session
<1>3. ASSUME NEW u \in UserIds, refresh[u] = c
      PROVE  Session(c) = u
  <2>1. Session(c) \in UserIds /\ refresh[Session(c)] = c
    BY <1>3 DEF Session
  <2>. QED
    BY <1>3, <2>1 DEF SessionsOK
<1>. QED
  BY <1>1, <1>2, <1>3

LEMMA SessionBecomes ==
  ASSUME SessionsOK', NEW c \in Calls, NEW u \in UserIds, refresh'[u] = c
  PROVE  Session(c)' = u
<1>1. Session(c)' \in UserIds /\ refresh'[Session(c)'] = c
  BY DEF Session
<1>. QED
  BY <1>1 DEF SessionsOK

LEMMA SameSessions ==
  ASSUME UNCHANGED refresh
  PROVE  [c \in Calls |-> Session(c)]' = [c \in Calls |-> Session(c)]
BY DEF Session

----------------------------------------------------------------------------
(* The steps of the handlers, one lemma for each. *)

LEMMA CreateImplements ==
  ASSUME TypeOK, NEW c \in Calls, Create(c)
  PROVE  C!CNext
<1>1. /\ CallsOK /\ calls[c].pc = "create"
      /\ UNCHANGED <<resets, refresh, issued>>
      /\ UNCHANGED [d \in Calls |-> Session(d)]
      /\ faults' \in {faults, faults + 1}
  BY FaultExcuses, SameSessions DEF TypeOK, Create, At, Command, Query
<1>2. C!In(c, "SignUp", "open")
  BY <1>1, Shape, Seen DEF Stage
<1>3. CASE /\ Violates(calls[c].email) \/ Fault
           /\ UNCHANGED users /\ Reply(c, "internal")
  <2>1. C!NotRegistered(c)
    BY <1>1, <1>2, <1>3, ReplyCloses, OwnerIsHolder, SeenFields, FaultExcuses
       DEF C!NotRegistered, Violates
  <2>. QED
    BY <1>1, <2>1 DEF C!CNext
<1>4. ASSUME NEW u \in UserIds, users[u] = None, ~Violates(calls[c].email),
             Insert(u, calls[c].email, calls[c].pwd),
             \/ Reply(c, "ok")
             \/ Fault /\ Reply(c, "internal")
      PROVE  C!CNext
  <2>1. C!Close(c, "ok") \/ (C!Excused /\ C!Close(c, "internal"))
    BY <1>1, <1>4, ReplyCloses, FaultExcuses
  <2>2. C!Register(c)
    BY <1>1, <1>2, <1>4, <2>1, OwnerIsHolder, SeenFields
       DEF C!Register, Violates, Insert
  <2>. QED
    BY <1>1, <2>2 DEF C!CNext
<1>. QED
  BY <1>3, <1>4 DEF Create, Command, Query

LEMMA FindByEmailImplements ==
  ASSUME TypeOK, NEW c \in Calls, FindByEmail(c)
  PROVE  C!CNext
<1>1. /\ CallsOK /\ calls[c].pc = "lookup" /\ UNCHANGED stores
      /\ UNCHANGED [d \in Calls |-> Session(d)]
      /\ faults' \in {faults, faults + 1}
  BY FaultExcuses, SameSessions DEF TypeOK, FindByEmail, At, Query, stores
<1>2. C!In(c, "Login", "open")
  BY <1>1, Shape, Seen DEF Stage
<1>3. CASE \/ /\ ~\E u \in Holders(calls[c].email) : users[u].pwd = calls[c].pwd
              /\ Reply(c, "unauthenticated")
           \/ Fault /\ Reply(c, "internal")
  <2>1. C!NotRecognised(c)
    BY <1>1, <1>2, <1>3, ReplyCloses, OwnerIsHolder, SeenFields, FaultExcuses
       DEF C!NotRecognised, C!May, stores
  <2>. QED
    BY <1>1, <2>1 DEF C!CNext
<1>4. ASSUME NEW u \in Holders(calls[c].email), users[u].pwd = calls[c].pwd,
             GotoAs(c, "store", u)
      PROVE  C!CNext
  <2>1. C!Pass(c, "granted", u)
    BY <1>1, <1>4, GotoAsPasses DEF Stage
  <2>2. C!Recognise(c)
    BY <1>1, <1>2, <1>4, <2>1, OwnerIsHolder, SeenFields
       DEF C!Recognise, C!May, stores
  <2>. QED
    BY <1>1, <2>2 DEF C!CNext
<1>. QED
  BY <1>3, <1>4 DEF FindByEmail, Query

\* The one key a user has for a refresh token: storing the token of one login
\* ends the session of the login before.
LEMMA StoreReplaces ==
  ASSUME TypeOK, NEW c \in Calls, NEW u \in UserIds,
         refresh' = [refresh EXCEPT ![u] = c],
         \A v \in UserIds : refresh[v] # c,
         SessionsOK'
  PROVE  [d \in Calls |-> Session(d)]' =
           [d \in Calls |->
              IF d # c /\ [b \in Calls |-> Session(b)][d] = u THEN None
              ELSE [[b \in Calls |-> Session(b)] EXCEPT ![c] = u][d]]
<1>1. \A v \in UserIds : refresh'[v] = IF v = u THEN c ELSE refresh[v]
  BY DEF TypeOK, StoresOK
<1>2. SessionsOK
  BY DEF TypeOK
<1>3. Session(c)' = u
  <2>1. refresh'[u] = c
    BY <1>1
  <2>. QED
    BY <2>1, SessionBecomes
<1>4. ASSUME NEW d \in Calls, d # c, Session(d) = u
      PROVE  Session(d)' = None
  <2>1. refresh[u] = d
    BY <1>2, <1>4, SessionIs
  <2>2. \A v \in UserIds : refresh'[v] # d
    BY <1>1, <1>2, <1>4, <2>1 DEF SessionsOK
  <2>. QED
    BY <2>2 DEF Session
<1>5. ASSUME NEW d \in Calls, d # c, Session(d) # u
      PROVE  Session(d)' = Session(d)
  <2>1. CASE \E v \in UserIds : refresh[v] = d
    <3>1. PICK v \in UserIds : refresh[v] = d
      BY <2>1
    <3>2. Session(d) = v /\ v # u
      BY <1>2, <1>5, <3>1, SessionIs
    <3>3. refresh'[v] = d
      BY <1>1, <3>1, <3>2
    <3>. QED
      BY <3>2, <3>3, SessionBecomes
  <2>2. CASE \A v \in UserIds : refresh[v] # d
    <3>1. \A v \in UserIds : refresh'[v] # d
      BY <1>1, <1>5, <2>2
    <3>. QED
      BY <2>2, <3>1 DEF Session
  <2>. QED
    BY <2>1, <2>2
<1>. QED
  BY <1>3, <1>4, <1>5

LEMMA StoreRefreshTokenImplements ==
  ASSUME TypeOK, TypeOK', NEW c \in Calls, StoreRefreshToken(c)
  PROVE  C!CNext
<1>. DEFINE u == calls[c].user
<1>1. /\ CallsOK /\ calls[c].pc = "store"
      /\ UNCHANGED <<users, resets, issued>>
      /\ faults' \in {faults, faults + 1}
  BY FaultExcuses DEF TypeOK, StoreRefreshToken, At, Command
<1>2. C!In(c, "Login", "granted")
  BY <1>1, Shape, Seen DEF Stage
<1>3. CASE /\ refresh' = [refresh EXCEPT ![u] = c]
           /\ Goto(c, "stamp") \/ (Fault /\ Reply(c, "internal"))
  <2>1. u \in UserIds /\ \A v \in UserIds : refresh[v] # c
    BY <1>1, Shape DEF TypeOK, SessionsOK
  <2>2. [d \in Calls |-> Session(d)]' =
          [d \in Calls |->
             IF d # c /\ [b \in Calls |-> Session(b)][d] = u THEN None
             ELSE [[b \in Calls |-> Session(b)] EXCEPT ![c] = u][d]]
    <3>1. SessionsOK'
      BY DEF TypeOK
    <3>. QED
      BY <1>3, <2>1, <3>1, StoreReplaces
  <2>3. \/ C!Pass(c, "effected", u)
        \/ C!Excused /\ C!Close(c, "internal")
    BY <1>1, <1>3, GotoPasses, ReplyCloses, FaultExcuses DEF Stage
  <2>4. C!OpenSession(c)
    BY <1>1, <1>2, <2>2, <2>3, SeenFields DEF C!OpenSession
  <2>. QED
    BY <1>1, <2>4 DEF C!CNext
<1>4. CASE Fault /\ UNCHANGED refresh /\ Reply(c, "internal")
  <2>1. UNCHANGED [d \in Calls |-> Session(d)]
    BY <1>4, SameSessions
  <2>2. C!NoSession(c)
    BY <1>1, <1>2, <1>4, <2>1, ReplyCloses, FaultExcuses DEF C!NoSession
  <2>. QED
    BY <1>1, <2>2 DEF C!CNext
<1>. QED
  BY <1>3, <1>4 DEF StoreRefreshToken, Command

LEMMA UpdateLastLoginImplements ==
  ASSUME TypeOK, NEW c \in Calls, UpdateLastLogin(c)
  PROVE  C!CNext
<1>. DEFINE u == calls[c].user
<1>1. /\ CallsOK /\ calls[c].pc = "stamp"
      /\ UNCHANGED <<users, resets, refresh>>
      /\ UNCHANGED [d \in Calls |-> Session(d)]
      /\ faults' \in {faults, faults + 1}
  BY FaultExcuses, SameSessions DEF TypeOK, UpdateLastLogin, At
<1>2. C!In(c, "Login", "effected")
  BY <1>1, Shape, Seen DEF Stage
<1>3. CASE issued' = issued \cup {[user |-> u]} /\ Reply(c, "ok")
  <2>1. [user |-> u] \in AccessTokens
    BY <1>1, Shape DEF TypeOK, AccessTokens
  <2>2. C!HandOut(u)
    BY <1>3, <2>1 DEF C!HandOut
  <2>3. C!Admit(c)
    BY <1>1, <1>2, <1>3, <2>2, ReplyCloses, SeenFields DEF C!Admit
  <2>. QED
    BY <1>1, <2>3 DEF C!CNext
<1>4. CASE Fault /\ Reply(c, "internal") /\ UNCHANGED issued
  <2>1. C!Admit(c)
    BY <1>1, <1>2, <1>4, ReplyCloses, FaultExcuses DEF C!Admit
  <2>. QED
    BY <1>1, <2>1 DEF C!CNext
<1>. QED
  BY <1>3, <1>4 DEF UpdateLastLogin

LEMMA FindAccountImplements ==
  ASSUME TypeOK, NEW c \in Calls, FindAccount(c)
  PROVE  C!CNext
<1>1. /\ CallsOK /\ calls[c].pc = "find" /\ UNCHANGED stores
      /\ UNCHANGED [d \in Calls |-> Session(d)]
      /\ faults' \in {faults, faults + 1}
  BY FaultExcuses, SameSessions DEF TypeOK, FindAccount, At, Query, stores
<1>2. C!In(c, "ForgotPassword", "open")
  BY <1>1, Shape, Seen DEF Stage
<1>3. CASE \/ Holders(calls[c].email) = {} /\ Reply(c, "ok")
           \/ Fault /\ Reply(c, "internal")
  <2>1. C!Find(c)
    BY <1>1, <1>2, <1>3, ReplyCloses, OwnerIsHolder, SeenFields,
       FaultExcuses DEF C!Find, stores
  <2>. QED
    BY <1>1, <2>1 DEF C!CNext
<1>4. ASSUME NEW u \in Holders(calls[c].email), GotoAs(c, "grant", u)
      PROVE  C!CNext
  <2>1. C!Pass(c, "granted", u)
    BY <1>1, <1>4, GotoAsPasses DEF Stage
  <2>2. C!Find(c)
    BY <1>1, <1>2, <1>4, <2>1, OwnerIsHolder, SeenFields DEF C!Find, stores
  <2>. QED
    BY <1>1, <2>2 DEF C!CNext
<1>. QED
  BY <1>3, <1>4 DEF FindAccount, Query

LEMMA StoreResetTokenImplements ==
  ASSUME TypeOK, NEW c \in Calls, StoreResetToken(c)
  PROVE  C!CNext
<1>1. /\ CallsOK /\ calls[c].pc = "grant"
      /\ UNCHANGED <<users, refresh, issued>>
      /\ UNCHANGED [d \in Calls |-> Session(d)]
      /\ faults' \in {faults, faults + 1}
  BY FaultExcuses, SameSessions DEF TypeOK, StoreResetToken, At, Command
<1>2. C!In(c, "ForgotPassword", "granted")
  BY <1>1, Shape, Seen DEF Stage
<1>3. CASE Fault /\ UNCHANGED resets /\ Reply(c, "internal")
  <2>1. C!Grant(c)
    BY <1>1, <1>2, <1>3, ReplyCloses, FaultExcuses DEF C!Grant
  <2>. QED
    BY <1>1, <2>1 DEF C!CNext
<1>4. ASSUME NEW t \in ResetTokens, resets[t] = None,
             resets' = [resets EXCEPT ![t] = calls[c].user],
             Reply(c, "ok") \/ (Fault /\ Reply(c, "internal"))
      PROVE  C!CNext
  <2>1. C!Close(c, "ok") \/ (C!Excused /\ C!Close(c, "internal"))
    BY <1>1, <1>4, ReplyCloses, FaultExcuses
  <2>2. C!Grant(c)
    BY <1>1, <1>2, <1>4, <2>1, SeenFields DEF C!Grant
  <2>. QED
    BY <1>1, <2>2 DEF C!CNext
<1>. QED
  BY <1>3, <1>4 DEF StoreResetToken, Command

LEMMA GetUserIdFromResetTokenImplements ==
  ASSUME TypeOK, NEW c \in Calls, GetUserIdFromResetToken(c)
  PROVE  C!CNext
<1>. DEFINE u == resets[calls[c].token]
<1>1. /\ CallsOK /\ calls[c].pc = "redeem" /\ UNCHANGED stores
      /\ UNCHANGED [d \in Calls |-> Session(d)]
      /\ faults' \in {faults, faults + 1}
  BY FaultExcuses, SameSessions
     DEF TypeOK, GetUserIdFromResetToken, At, Query, stores
<1>2. C!In(c, "ResetPassword", "open")
  BY <1>1, Shape, Seen DEF Stage
<1>3. CASE \/ u = Gone /\ Reply(c, "badtoken")
           \/ Fault /\ Reply(c, "internal")
  <2>1. C!Redeem(c)
    BY <1>1, <1>2, <1>3, ReplyCloses, SeenFields, FaultExcuses
       DEF C!Redeem, stores
  <2>. QED
    BY <1>1, <2>1 DEF C!CNext
<1>4. CASE GotoAs(c, "update", u) /\ u # Gone
  <2>1. u \notin {None, Gone}
    BY <1>1, <1>4 DEF TypeOK, TokensOK
  <2>2. C!Pass(c, "granted", u)
    BY <1>1, <1>4, GotoAsPasses DEF Stage
  <2>3. C!Redeem(c)
    BY <1>1, <1>2, <2>1, <2>2, SeenFields DEF C!Redeem, stores
  <2>. QED
    BY <1>1, <2>3 DEF C!CNext
<1>. QED
  BY <1>3, <1>4 DEF GetUserIdFromResetToken, Query

\* The reply is ok whether or not a row matched, and the grant stays.
LEMMA UpdatePasswordImplements ==
  ASSUME TypeOK, NEW c \in Calls, UpdatePassword(c)
  PROVE  C!CNext
<1>. DEFINE u == calls[c].user
<1>1. /\ CallsOK /\ calls[c].pc = "update"
      /\ UNCHANGED <<resets, refresh, issued>>
      /\ UNCHANGED [d \in Calls |-> Session(d)]
      /\ faults' \in {faults, faults + 1}
  BY FaultExcuses, SameSessions DEF TypeOK, UpdatePassword, At, Command
<1>2. C!In(c, "ResetPassword", "granted")
  BY <1>1, Shape, Seen DEF Stage
<1>3. Reply(c, "ok") \/ (Fault /\ Reply(c, "internal"))
  BY DEF UpdatePassword, Command
<1>4. C!Close(c, "ok") \/ (C!Excused /\ C!Close(c, "internal"))
  BY <1>1, <1>3, ReplyCloses, FaultExcuses
<1>5. CASE /\ Live(u)
           /\ users' = [users EXCEPT ![u].pwd = calls[c].pwd]
  <2>1. C!Change(c)
    BY <1>1, <1>2, <1>4, <1>5, SeenFields DEF C!Change, C!Exists, Live
  <2>. QED
    BY <1>1, <2>1 DEF C!CNext
<1>6. CASE UNCHANGED users /\ (~Live(u) \/ (Fault /\ Reply(c, "internal")))
  <2>1. C!Change(c)
    BY <1>1, <1>2, <1>4, <1>6, ReplyCloses, FaultExcuses, SeenFields
       DEF C!Change, C!Exists, Live
  <2>. QED
    BY <1>1, <2>1 DEF C!CNext
<1>. QED
  BY <1>5, <1>6 DEF UpdatePassword, Command

LEMMA FindByIdImplements ==
  ASSUME TypeOK, NEW c \in Calls, FindById(c)
  PROVE  C!CNext
<1>. DEFINE u == calls[c].token.user
<1>1. /\ CallsOK /\ calls[c].pc = "getbyid" /\ UNCHANGED stores
      /\ UNCHANGED [d \in Calls |-> Session(d)]
      /\ faults' \in {faults, faults + 1}
  BY FaultExcuses, SameSessions DEF TypeOK, FindById, At, Query, stores
<1>2. C!In(c, "ValidateToken", "open")
  BY <1>1, Shape, Seen DEF Stage
<1>3. \/ Live(u) /\ users[u].active /\ Reply(c, "valid")
      \/ (~Live(u) \/ ~users[u].active) /\ Reply(c, "notvalid")
      \/ Fault /\ Reply(c, "internal")
  BY DEF FindById, Query
<1>4. C!Vouch(c)
  BY <1>1, <1>2, <1>3, ReplyCloses, SeenFields, FaultExcuses
     DEF C!Vouch, C!Exists, Live, stores
<1>. QED
  BY <1>1, <1>4 DEF C!CNext

----------------------------------------------------------------------------
(* Requests that arrive. *)

\* A slot that takes a request: nothing else the contract sees changes.
LEMMA Arrives ==
  ASSUME TypeOK, NEW c \in Calls, NEW r, Ready(c),
         calls' = [calls EXCEPT ![c] = r],
         \/ Abstract(r) \in
              [op : {"SignUp", "Login", "ForgotPassword", "ResetPassword"},
               email : Emails \cup {None}, pwd : Passwords \cup {None},
               user : {None}, token : ResetTokens \cup {None},
               stage : {"open"}, reply : {"none"}]
         \/ Abstract(r) \in
              [op : {"ValidateToken"}, email : {None}, pwd : {None},
               user : {None}, token : issued,
               stage : {"open"}, reply : {"none"}]
         \/ Abstract(r) \in
              [op : AllMethods, email : {None}, pwd : {None}, user : {None},
               token : {None}, stage : {"done"}, reply : {"invalid", "notvalid"}],
         [d \in Calls |-> Session(d)]' \in
           {[d \in Calls |-> Session(d)],
            [[d \in Calls |-> Session(d)] EXCEPT ![c] = None]},
         UNCHANGED <<users, resets, issued, faults>>
  PROVE  C!CNext
<1>. DEFINE abs == [d \in Calls |-> Abstract(calls[d])]
            abs2 == [d \in Calls |-> Abstract(calls'[d])]
<1>1. abs[c].stage \in {"idle", "done"}
  BY DEF Ready, Abstract, Stage
<1>2. calls'[c] = r /\ \A d \in Calls : d # c => calls'[d] = calls[d]
  BY DEF TypeOK, CallsOK
<1>3. abs2[c] = Abstract(r)
  BY <1>2
<1>4. abs2 = [abs EXCEPT ![c] = abs2[c]]
  <2>1. \A d \in Calls : abs2[d] = [abs EXCEPT ![c] = abs2[c]][d]
    <3>. HIDE DEF abs2
    <3>1. \A d \in Calls : d # c => abs2[d] = abs[d]
      BY <1>2 DEF abs2
    <3>. QED
      BY <3>1
  <2>. QED
    BY <2>1
<1>5. AllMethods = C!AllOps
  BY DEF AllMethods, C!AllOps
<1>6. C!Ask(c)
  BY <1>1, <1>3, <1>4, <1>5 DEF C!Ask
<1>7. faults' \in {faults, faults + 1}
  OBVIOUS
<1>. QED
  BY <1>6, <1>7 DEF C!CNext

LEMMA StartArrives ==
  ASSUME TypeOK, NEW c \in Calls,
         NEW op \in {"SignUp", "Login", "ForgotPassword", "ResetPassword"},
         NEW l, Stage(l) = "open",
         NEW e \in Emails \cup {None}, NEW p \in Passwords \cup {None},
         NEW t \in ResetTokens \cup {None},
         Start(c, op, l, e, p, t),
         [d \in Calls |-> Session(d)]' \in
           {[d \in Calls |-> Session(d)],
            [[d \in Calls |-> Session(d)] EXCEPT ![c] = None]},
         UNCHANGED <<users, resets, issued, faults>>
  PROVE  C!CNext
<1>. DEFINE r == [Idle EXCEPT !.op = op, !.pc = l, !.email = e, !.pwd = p,
                              !.token = t]
<1>1. /\ r.op = op /\ r.pc = l /\ r.email = e /\ r.pwd = p /\ r.token = t
      /\ r.user = None /\ r.reply = "none"
  BY DEF Idle
<1>2. Ready(c) /\ calls' = [calls EXCEPT ![c] = r]
  BY DEF Start
<1>. HIDE DEF r
<1>3. Abstract(r) \in
        [op : {"SignUp", "Login", "ForgotPassword", "ResetPassword"},
         email : Emails \cup {None}, pwd : Passwords \cup {None},
         user : {None}, token : ResetTokens \cup {None},
         stage : {"open"}, reply : {"none"}]
  BY <1>1 DEF Abstract
<1>. QED
  BY <1>2, <1>3, Arrives

LEMMA AnswerArrives ==
  ASSUME TypeOK, NEW c \in Calls, NEW op \in AllMethods,
         NEW r \in {"invalid", "notvalid"}, Answer(c, op, r),
         UNCHANGED <<users, resets, refresh, issued, faults>>
  PROVE  C!CNext
<1>. DEFINE q == [Idle EXCEPT !.op = op, !.pc = "done", !.reply = r]
<1>1. /\ q.op = op /\ q.pc = "done" /\ q.email = None /\ q.pwd = None
      /\ q.token = None /\ q.user = None /\ q.reply = r
  BY DEF Idle
<1>2. Stage(q.pc) = "done"
  BY <1>1 DEF Stage
<1>3. Ready(c) /\ calls' = [calls EXCEPT ![c] = q]
  BY DEF Answer
<1>. HIDE DEF q
<1>4. Abstract(q) \in
        [op : AllMethods, email : {None}, pwd : {None}, user : {None},
         token : {None}, stage : {"done"}, reply : {"invalid", "notvalid"}]
  BY <1>1, <1>2 DEF Abstract
<1>. QED
  BY <1>3, <1>4, SameSessions, Arrives

LEMMA ValidateTokenArrives ==
  ASSUME TypeOK, NEW c \in Calls, NEW t \in issued,
         Start(c, "ValidateToken", "getbyid", None, None, t),
         UNCHANGED <<users, resets, refresh, issued, faults>>
  PROVE  C!CNext
<1>. DEFINE r == [Idle EXCEPT !.op = "ValidateToken", !.pc = "getbyid",
                              !.email = None, !.pwd = None, !.token = t]
<1>1. /\ r.op = "ValidateToken" /\ r.pc = "getbyid" /\ r.email = None
      /\ r.pwd = None /\ r.token = t /\ r.user = None /\ r.reply = "none"
  BY DEF Idle
<1>2. Ready(c) /\ calls' = [calls EXCEPT ![c] = r]
  BY DEF Start
<1>3. Stage(r.pc) = "open"
  BY <1>1 DEF Stage
<1>. HIDE DEF r
<1>4. Abstract(r) \in
        [op : {"ValidateToken"}, email : {None}, pwd : {None}, user : {None},
         token : issued, stage : {"open"}, reply : {"none"}]
  BY <1>1, <1>3 DEF Abstract
<1>. QED
  BY <1>2, <1>4, SameSessions, Arrives

\* A slot that takes a login forgets the session it opened before.
LEMMA LoginForgets ==
  ASSUME TypeOK, NEW c \in Calls,
         refresh' = [u \in UserIds |-> IF refresh[u] = c THEN Old ELSE refresh[u]]
  PROVE  [d \in Calls |-> Session(d)]' =
           [[d \in Calls |-> Session(d)] EXCEPT ![c] = None]
<1>1. Old \notin Calls
  BY RustAssumption
<1>2. Session(c)' = None
  BY <1>1 DEF Session
<1>3. ASSUME NEW d \in Calls, d # c
      PROVE  Session(d)' = Session(d)
  <2>1. \A u \in UserIds : refresh'[u] = d <=> refresh[u] = d
    BY <1>1, <1>3
  <2>2. \A u \in UserIds : (refresh[u] = d)' <=> refresh[u] = d
    BY <2>1
  <2>. QED
    BY <2>1 DEF Session
<1>. QED
  BY <1>2, <1>3

LEMMA ArrivalsImplement ==
  ASSUME TypeOK, NEW c \in Calls, Arrive(c)
  PROVE  C!CNext
<1>1. /\ Stage("create") = "open" /\ Stage("lookup") = "open"
      /\ Stage("find") = "open" /\ Stage("redeem") = "open"
  BY DEF Stage
<1>2. CASE SignUp(c)
  BY <1>1, <1>2, SameSessions, StartArrives DEF SignUp, stores
<1>3. CASE Login(c)
  BY <1>1, <1>3, LoginForgets, StartArrives DEF Login
<1>4. CASE ForgotPassword(c)
  BY <1>1, <1>4, SameSessions, StartArrives DEF ForgotPassword, stores
<1>5. CASE ResetPassword(c)
  BY <1>1, <1>5, SameSessions, StartArrives DEF ResetPassword, stores
<1>6. CASE ValidateToken(c)
  BY <1>6, ValidateTokenArrives, AnswerArrives
     DEF ValidateToken, stores, AllMethods
<1>7. CASE Reject(c)
  BY <1>7, AnswerArrives, BackendAssumption DEF Reject, stores
<1>. QED
  BY <1>2, <1>3, <1>4, <1>5, <1>6, <1>7 DEF Arrive

----------------------------------------------------------------------------
(* Around the handlers. *)

LEMMA RestartImplements ==
  ASSUME TypeOK, Restart
  PROVE  C!CNext
<1>1. /\ faults' \in {faults, faults + 1} /\ C!Excused
      /\ UNCHANGED <<users, resets, issued>>
      /\ UNCHANGED [d \in Calls |-> Session(d)]
  BY FaultExcuses, SameSessions DEF Restart, stores
<1>2. [c \in Calls |-> Abstract(calls'[c])] = [c \in Calls |-> C!NoRequest]
  <2>1. Abstract(Idle) = C!NoRequest
    BY DEF Abstract, Idle, Stage, C!NoRequest
  <2>. QED
    BY <2>1 DEF Restart
<1>3. C!Crash
  BY <1>1, <1>2 DEF C!Crash
<1>. QED
  BY <1>1, <1>3 DEF C!CNext

\* The token of the last login of a slot is dropped: its session lapses.  The
\* contract does not see an older token go.
LEMMA RefreshTokenExpiresImplements ==
  ASSUME TypeOK, NEW u \in UserIds, RefreshTokenExpires(u)
  PROVE  C!CNext \/ UNCHANGED C!cvars
<1>1. /\ UNCHANGED <<users, resets, issued, calls, faults>>
      /\ UNCHANGED [c \in Calls |-> Abstract(calls[c])]
      /\ faults' \in {faults, faults + 1}
  BY DEF RefreshTokenExpires
<1>2. /\ refresh[u] \in Calls \cup {Old}
      /\ \A v \in UserIds : refresh'[v] = IF v = u THEN None ELSE refresh[v]
      /\ None \notin Calls
  BY RustAssumption DEF RefreshTokenExpires, TypeOK, StoresOK
<1>3. ASSUME NEW d \in Calls, d # refresh[u]
      PROVE  Session(d)' = Session(d)
  <2>1. \A v \in UserIds : refresh'[v] = d <=> refresh[v] = d
    BY <1>2, <1>3
  <2>. QED
    BY <2>1 DEF Session
<1>4. CASE refresh[u] \in Calls
  <2>1. \A v \in UserIds : refresh'[v] # refresh[u]
    BY <1>2, <1>4 DEF TypeOK, SessionsOK
  <2>2. ASSUME NEW d \in Calls, d = refresh[u]
        PROVE  Session(d)' = None
    BY <2>1, <2>2 DEF Session
  <2>3. [d \in Calls |-> Session(d)]' =
          [[d \in Calls |-> Session(d)] EXCEPT ![refresh[u]] = None]
    BY <1>3, <2>2
  <2>4. C!Lapse
    BY <1>1, <1>4, <2>3 DEF C!Lapse
  <2>. QED
    BY <1>1, <2>4 DEF C!CNext
<1>5. CASE refresh[u] = Old
  <2>1. UNCHANGED [d \in Calls |-> Session(d)]
    BY <1>3, <1>5, RustAssumption
  <2>. QED
    BY <1>1, <2>1 DEF C!cvars
<1>. QED
  BY <1>2, <1>4, <1>5

LEMMA EnvironmentImplements ==
  ASSUME TypeOK, Environment
  PROVE  C!CNext \/ UNCHANGED C!cvars
<1>1. CASE Restart
  BY <1>1, RestartImplements
<1>2. ASSUME UNCHANGED <<refresh, calls, faults>>
      PROVE  /\ UNCHANGED [d \in Calls |-> Session(d)]
             /\ UNCHANGED [d \in Calls |-> Abstract(calls[d])]
             /\ faults' \in {faults, faults + 1}
  BY <1>2, SameSessions
<1>3. ASSUME NEW t \in ResetTokens, ResetTokenExpires(t)
      PROVE  C!CNext
  <2>1. C!Lapse
    BY <1>2, <1>3 DEF ResetTokenExpires, C!Lapse
  <2>. QED
    BY <1>2, <1>3, <2>1 DEF C!CNext, ResetTokenExpires
<1>4. ASSUME NEW u \in UserIds, RefreshTokenExpires(u)
      PROVE  C!CNext \/ UNCHANGED C!cvars
  BY <1>4, RefreshTokenExpiresImplements
<1>5. ASSUME NEW u \in UserIds, Deactivate(u) \/ Remove(u)
      PROVE  C!CNext
  <2>1. C!Administer
    BY <1>2, <1>5 DEF Deactivate, Remove, Live, C!Administer, C!Exists
  <2>. QED
    BY <1>2, <1>5, <2>1 DEF C!CNext, Deactivate, Remove
<1>. QED
  BY <1>1, <1>3, <1>4, <1>5 DEF Environment

LEMMA NextImplements ==
  ASSUME TypeOK, TypeOK', [Next]_vars
  PROVE  C!CNext \/ UNCHANGED C!cvars
<1>1. CASE UNCHANGED vars
  BY <1>1, SameSessions DEF vars, C!cvars
<1>2. ASSUME NEW c \in Calls, Step(c)
      PROVE  C!CNext
  BY <1>2, CreateImplements, FindByEmailImplements,
     StoreRefreshTokenImplements, UpdateLastLoginImplements,
     FindAccountImplements, StoreResetTokenImplements,
     GetUserIdFromResetTokenImplements, UpdatePasswordImplements,
     FindByIdImplements DEF Step
<1>. QED
  BY <1>1, <1>2, ArrivalsImplement, EnvironmentImplements DEF Next

LEMMA InitImplements ==
  ASSUME Init
  PROVE  C!CInit
<1>1. Abstract(Idle) = C!NoRequest
  BY DEF Abstract, Idle, Stage, C!NoRequest
<1>2. [c \in Calls |-> Abstract(calls[c])] = [c \in Calls |-> C!NoRequest]
  BY <1>1 DEF Init
<1>3. \A u, v \in UserIds :
        C!Exists(u) /\ C!Exists(v) /\ users[u].email = users[v].email => u = v
  BY BackendAssumption DEF Init, C!Exists
<1>4. [c \in Calls |-> Session(c)] = [c \in Calls |-> None]
  BY RustAssumption DEF Init, Session
<1>. QED
  BY <1>2, <1>3, <1>4 DEF Init, C!CInit

\* The Rust backend keeps the promises of AuthContract that are made of both:
\* each reply is one that the accounts, grants and sessions of some instant of
\* the call justify, although a login that fails on update_last_login
\* (main.rs:140) has opened a session and one reset token serves several resets.
THEOREM Implements == Spec => Contract
<1>1. Init => C!CInit
  BY InitImplements
<1>2. TypeOK /\ TypeOK' /\ [Next]_vars => [C!CNext]_(C!cvars)
  BY NextImplements
<1>. QED
  BY <1>1, <1>2, TypeCorrect, PTL DEF Spec, Contract, C!CSpec

=============================================================================
