------------------------- MODULE LoginHistoryProofs -------------------------
(***************************************************************************)
(* The budget of guesses, for any number of handlers, addresses, accounts  *)
(* and faults, and any limit.                                              *)
(***************************************************************************)
EXTENDS LoginHistory, AuthServiceProofs, FiniteSetTheorems

----------------------------------------------------------------------------
(* What a step does to the logins of one address. *)

\* Nobody is let in or compared.
Passes(e) ==
  /\ Pending(e)' = Pending(e) /\ Compared(e) = {}
  /\ attempts'[e].count = 0 \/ attempts'[e].count >= attempts[e].count

\* A login is let in: it took one of the attempts, or its count was lost.
LetsIn(e) ==
  /\ \E c \in Calls \ Pending(e) : Pending(e)' = Pending(e) \cup {c}
  /\ Compared(e) = {}
  /\ attempts'[e].count >= attempts[e].count
  /\ \/ faults' = faults + 1
     \/ /\ attempts[e].count < MaxLoginAttempts
        /\ attempts'[e].count = attempts[e].count + 1

Compares(e) ==
  /\ \E c \in Pending(e) : Pending(e)' = Pending(e) \ {c} /\ Compared(e) = {c}
  /\ UNCHANGED attempts

Forgets(e) ==
  /\ Pending(e)' = {} /\ Compared(e) = {}
  /\ UNCHANGED attempts

\* Labels of a handler that no login waits for its comparison at.
OffLabels == AllLabels \ {"expire", "lookup"}

\* Labels to which a step goes that is none of those that count or compare.
NewLabels == OffLabels \ {"clear"}

\* A step of c that leaves and reaches only such labels.
LEMMA OffSteps ==
  ASSUME TypeOK, NEW c \in Calls, Arrive(c) \/ Step(c),
         ~Increment(c), ~Expire(c), ~Authenticate(c)
  PROVE  /\ calls' = [calls EXCEPT ![c] = calls'[c]]
         /\ calls[c].pc \in OffLabels /\ calls'[c].pc \in NewLabels
         /\ calls[c].pc = "clear" => ClearLoginAttempts(c)
<1>1. \/ \E r : Reply(c, r)
      \/ \E l \in NewLabels : Goto(c, l)
      \/ \E l \in NewLabels : \E u : GotoAs(c, l, u)
      \/ \E l \in NewLabels : \E op, e, p, t : Start(c, op, l, e, p, t)
      \/ \E op, r : Answer(c, op, r)
  <2>1. CASE Arrive(c)
    BY <2>1 DEF Arrive, SignUp, Login, ForgotPassword, ResetPassword,
                ValidateToken, Reject, NewLabels, OffLabels, AllLabels,
                LoginLabels
  <2>2. CASE Step(c)
    BY <2>2 DEF Step, EmailExists, Create, ClearLoginAttempts, UpdateLastLogin,
         SetRefreshToken, FindAccount, SetPasswordResetToken,
         GetPasswordResetToken, UpdatePassword, DeletePasswordResetToken,
         GetByID, Query, Command, NewLabels, OffLabels, AllLabels, LoginLabels
  <2>. QED
    BY <2>1, <2>2
<1>2. calls[c].pc \in OffLabels /\ (calls[c].pc = "clear" => ClearLoginAttempts(c))
  BY DEF Arrive, SignUp, Login, ForgotPassword, ResetPassword, ValidateToken,
         Reject, Start, Answer, Ready, Step, EmailExists, Create,
         ClearLoginAttempts, UpdateLastLogin, SetRefreshToken, FindAccount,
         SetPasswordResetToken, GetPasswordResetToken, UpdatePassword,
         DeletePasswordResetToken, GetByID, At, OffLabels, AllLabels, LoginLabels
<1>3. "done" \in NewLabels
  BY DEF NewLabels, OffLabels, AllLabels, LoginLabels
<1>4. CallsOK
  BY DEF TypeOK
<1>5. CASE \E op, r : Answer(c, op, r)
  BY <1>2, <1>3, <1>4, <1>5 DEF Answer, CallsOK, Idle
<1>. QED
  BY <1>1, <1>2, <1>3, <1>4, <1>5, ReplyMoves, GotoMoves, GotoAsMoves, StartMoves

LEMMA OffStepsPass ==
  ASSUME TypeOK, NEW c \in Calls, Arrive(c) \/ Step(c),
         ~Increment(c), ~Expire(c), ~Authenticate(c), NEW e \in Emails
  PROVE  Passes(e)
<1>1. calls \in [Calls -> Request] /\ attempts \in [Emails -> Counter]
  BY DEF TypeOK, CallsOK, StoresOK
<1>2. Pending(e)' = Pending(e) /\ Compared(e) = {}
  BY <1>1, OffSteps DEF Pending, Compared, NewLabels, OffLabels
<1>3. attempts'[e].count \in {0, attempts[e].count}
  <2>1. UNCHANGED attempts \/ ClearLoginAttempts(c)
    BY CounterSteps
  <2>2. CASE ClearLoginAttempts(c)
    BY <1>1, <2>2 DEF ClearLoginAttempts, Command, DelCounter, NoCounter, Counter
  <2>. QED
    BY <2>1, <2>2
<1>. QED
  BY <1>1, <1>2, <1>3 DEF Passes, Counter, CountCap

LEMMA ExpirePasses ==
  ASSUME TypeOK, NEW c \in Calls, Expire(c), NEW e \in Emails
  PROVE  Passes(e)
<1>1. calls \in [Calls -> Request] /\ attempts \in [Emails -> Counter] /\ CallsOK
  BY DEF TypeOK, CallsOK, StoresOK
<1>2. calls[c].pc = "expire" /\ Gate(c, 1)
  BY DEF Expire, At, Command
<1>3. Pending(e)' = Pending(e) /\ Compared(e) = {}
  <2>1. CASE MaxLoginAttempts > 0
    <3>1. Goto(c, "lookup")
      BY <1>2, <2>1, ConstantsAssumption DEF Gate
    <3>2. calls' = [calls EXCEPT ![c] = [calls[c] EXCEPT !.pc = "lookup"]]
      BY <3>1 DEF Goto
    <3>3. [calls[c] EXCEPT !.pc = "lookup"].pc = "lookup"
          /\ [calls[c] EXCEPT !.pc = "lookup"].email = calls[c].email
      BY <1>1 DEF Request
    <3>. QED
      BY <1>1, <1>2, <2>1, <3>2, <3>3 DEF Pending, Compared
  <2>2. CASE ~(MaxLoginAttempts > 0)
    <3>1. Reply(c, "locked")
      BY <1>2, <2>2, ConstantsAssumption DEF Gate
    <3>2. calls' = [calls EXCEPT ![c] = calls'[c]] /\ calls'[c].pc = "done"
      BY <1>1, <3>1, ReplyMoves
    <3>. QED
      BY <1>1, <1>2, <2>2, <3>2 DEF Pending, Compared
  <2>. QED
    BY <2>1, <2>2
<1>4. attempts'[e].count = attempts[e].count
  BY <1>1 DEF Expire, Command, SetTTL, Counter
<1>. QED
  BY <1>1, <1>3, <1>4 DEF Passes, Counter, CountCap

\* INCR lets a login in with one of the attempts, or with a fault, or not.
LEMMA IncrementLetsIn ==
  ASSUME TypeOK, NEW c \in Calls, Increment(c), NEW e \in Emails
  PROVE  Passes(e) \/ LetsIn(e)
<1>. DEFINE f == calls[c].email
            n == Capped(attempts[f].count + 1)
            m == Capped(attempts[f].count + 2)
<1>1. calls \in [Calls -> Request] /\ attempts \in [Emails -> Counter] /\ CallsOK
      /\ faults \in Nat /\ MaxLoginAttempts \in Nat
  BY BackendAssumption, ConstantsAssumption DEF TypeOK, CallsOK, StoresOK
<1>2. calls[c].pc = "incr" /\ f \in Emails
  <2>1. calls[c].pc = "incr"
    BY DEF Increment, At
  <2>. QED
    BY <1>1, <2>1, LoginShape DEF LoginLabels
<1>3. /\ n \in Nat /\ m \in Nat /\ n >= attempts[f].count /\ m >= attempts[f].count
      /\ n <= MaxLoginAttempts => n = attempts[f].count + 1
      /\ n = 1 => attempts[f].count = 0
  BY <1>1, <1>2 DEF Capped, CountCap, Counter
<1>4. \/ UNCHANGED <<attempts, faults>> /\ FALSE
      \/ Incr(f, n) /\ Counted(c, n) /\ UNCHANGED faults
      \/ (UNCHANGED attempts \/ Incr(f, n)) /\ Gate(c, 0) /\ faults' = faults + 1
      \/ Incr(f, m) /\ Counted(c, m) /\ faults' = faults + 1
  BY DEF Increment, Command, Fault
<1>5. /\ attempts'[e].count >= attempts[e].count
      /\ e # f => attempts'[e].count = attempts[e].count
      /\ Incr(f, n) => attempts'[f].count = n
  <2>. HIDE DEF n, m
  <2>. QED
    BY <1>1, <1>2, <1>3, <1>4 DEF Incr, Counter
<1>6. Compared(e) = {}
  <2>1. ASSUME NEW d \in Calls, calls[d].pc = "lookup"
        PROVE  calls'[d] = calls[d]
    <3>. HIDE DEF n, m
    <3>. QED
      BY <1>1, <1>2, <1>4, <2>1 DEF Counted, Gate, Reply, Goto
  <2>. QED
    BY <2>1 DEF Compared
<1>7. ASSUME Goto(c, "lookup") \/ Goto(c, "expire") \/ Reply(c, "locked")
      PROVE  /\ calls' = [calls EXCEPT ![c] = calls'[c]]
             /\ calls'[c].pc = "done" \/ calls'[c].email = f
             /\ calls'[c].pc \in {"lookup", "expire", "done"}
             /\ Goto(c, "expire") => calls'[c].pc = "expire"
             /\ Reply(c, "locked") => calls'[c].pc = "done"
  <2>1. ASSUME NEW l \in {"lookup", "expire"}, Goto(c, l)
        PROVE  /\ calls' = [calls EXCEPT ![c] = calls'[c]]
               /\ calls'[c].email = f /\ calls'[c].pc = l
    BY <1>1, <2>1 DEF Goto, Request
  <2>2. ASSUME Reply(c, "locked")
        PROVE  calls' = [calls EXCEPT ![c] = calls'[c]] /\ calls'[c].pc = "done"
    BY <1>1, <2>2, ReplyMoves
  <2>. QED
    BY <1>7, <2>1, <2>2
<1>8. Goto(c, "lookup") \/ Goto(c, "expire") \/ Reply(c, "locked")
  <2>. HIDE DEF n, m
  <2>. QED
    BY <1>4 DEF Counted, Gate
<1>9. \/ Pending(e)' = Pending(e)
      \/ /\ e = f /\ c \in Calls \ Pending(e)
         /\ Pending(e)' = Pending(e) \cup {c}
  <2>. HIDE DEF n, m
  <2>. QED
    BY <1>1, <1>2, <1>7, <1>8 DEF Pending
<1>10. CASE Pending(e)' = Pending(e)
  BY <1>5, <1>6, <1>10 DEF Passes
<1>11. CASE Pending(e)' # Pending(e)
  <2>1. e = f /\ c \in Calls \ Pending(e) /\ Pending(e)' = Pending(e) \cup {c}
    BY <1>9, <1>11
  <2>2. ASSUME Incr(f, n), Counted(c, n), UNCHANGED faults
        PROVE  n <= MaxLoginAttempts
    <3>1. c \in Pending(e)'
      BY <2>1
    <3>2. calls'[c].pc = "lookup" \/ (calls'[c].pc = "expire" /\ MaxLoginAttempts > 0)
      BY <3>1 DEF Pending
    <3>3. ~Reply(c, "locked")
      BY <1>7, <3>2
    <3>4. CASE n = 1
      <4>1. Goto(c, "expire")
        BY <2>2, <3>4 DEF Counted
      <4>2. calls'[c].pc = "expire"
        BY <1>7, <4>1
      <4>. QED
        BY <1>1, <3>2, <3>4, <4>2
    <3>5. CASE n # 1
      <4>. HIDE DEF n
      <4>. QED
        BY <1>1, <1>3, <2>2, <3>3, <3>5 DEF Counted, Gate
    <3>. QED
      BY <3>4, <3>5
  <2>3. \/ faults' = faults + 1
        \/ /\ attempts[e].count < MaxLoginAttempts
           /\ attempts'[e].count = attempts[e].count + 1
    <3>. HIDE DEF n, m
    <3>1. attempts[e].count \in Nat
      BY <1>1 DEF Counter, CountCap
    <3>. QED
      BY <1>1, <1>3, <1>4, <1>5, <2>1, <2>2, <3>1
  <2>. QED
    BY <1>5, <1>6, <2>1, <2>3 DEF LetsIn
<1>. QED
  BY <1>10, <1>11

\* One login at a time is compared, and it has been let in.
LEMMA AuthenticateCompares ==
  ASSUME TypeOK, NEW c \in Calls, Authenticate(c), NEW e \in Emails
  PROVE  Passes(e) \/ Compares(e)
<1>1. calls \in [Calls -> Request] /\ attempts \in [Emails -> Counter] /\ CallsOK
  BY DEF TypeOK, CallsOK, StoresOK
<1>2. calls[c].pc = "lookup" /\ UNCHANGED attempts
  BY DEF Authenticate, At, stores
<1>3. (\E r : Reply(c, r)) \/ (\E u : GotoAs(c, "clear", u))
  BY DEF Authenticate, Query
<1>4. calls' = [calls EXCEPT ![c] = calls'[c]] /\ calls'[c].pc \in {"done", "clear"}
  BY <1>1, <1>3, ReplyMoves, GotoAsMoves
<1>5. CASE calls[c].email = e
  <2>1. c \in Pending(e) /\ Pending(e)' = Pending(e) \ {c}
    BY <1>1, <1>2, <1>4, <1>5 DEF Pending
  <2>2. Compared(e) = {c}
    BY <1>1, <1>2, <1>4, <1>5 DEF Compared
  <2>. QED
    BY <1>2, <2>1, <2>2 DEF Compares
<1>6. CASE calls[c].email # e
  <2>1. Pending(e)' = Pending(e) /\ Compared(e) = {}
    BY <1>1, <1>2, <1>4, <1>6 DEF Pending, Compared
  <2>. QED
    BY <1>1, <1>2, <2>1 DEF Passes, Counter, CountCap
<1>. QED
  BY <1>5, <1>6

LEMMA EnvironmentForgets ==
  ASSUME TypeOK, Environment, NEW e \in Emails
  PROVE  Passes(e) \/ Forgets(e)
<1>1. calls \in [Calls -> Request] /\ attempts \in [Emails -> Counter]
  BY DEF TypeOK, CallsOK, StoresOK
<1>2. CASE Restart
  <2>1. UNCHANGED attempts /\ calls' = [c \in Calls |-> Idle]
    BY <1>2 DEF Restart
  <2>2. Idle.pc = "idle"
    BY DEF Idle
  <2>. QED
    BY <2>1, <2>2 DEF Forgets, Pending, Compared
<1>3. CASE ~Restart
  <2>1. UNCHANGED calls
    BY <1>3 DEF Environment, Tick, ResetTokenExpires, RefreshTokenExpires,
                Delete, HardDelete
  <2>2. attempts'[e].count \in {0, attempts[e].count}
    <3>1. ASSUME NEW f \in Emails, Tick(f)
          PROVE  attempts'[e].count \in {0, attempts[e].count}
      BY <1>1, <3>1 DEF Tick, NoCounter, Counter
    <3>. QED
      BY <1>3, <3>1 DEF Environment, ResetTokenExpires, RefreshTokenExpires,
                        Delete, HardDelete
  <2>3. Pending(e)' = Pending(e) /\ Compared(e) = {}
    BY <2>1 DEF Pending, Compared
  <2>. QED
    BY <1>1, <2>2, <2>3 DEF Passes, Counter, CountCap
<1>. QED
  BY <1>2, <1>3

LEMMA StepEffects ==
  ASSUME TypeOK, [Next]_vars, NEW e \in Emails
  PROVE  Passes(e) \/ LetsIn(e) \/ Compares(e) \/ Forgets(e)
<1>1. CASE UNCHANGED vars
  <2>1. attempts[e].count \in Nat
    BY DEF TypeOK, StoresOK, Counter, CountCap
  <2>. QED
    BY <1>1, <2>1 DEF vars, Passes, Pending, Compared
<1>. QED
  BY <1>1, OffStepsPass, ExpirePasses, IncrementLetsIn, AuthenticateCompares,
     EnvironmentForgets DEF Next

----------------------------------------------------------------------------
(* The budget. *)

\* What the throttle may have let in while the counter stood at n.
Allowed(n) == IF n < MaxLoginAttempts THEN n ELSE MaxLoginAttempts

Budget(e) ==
  guesses[e] + Cardinality(Pending(e))
    <= Allowed(attempts[e].count) + carried[e] + faults

HInv ==
  /\ TypeOK
  /\ guesses \in [Emails -> Nat] /\ carried \in [Emails -> Nat]
  /\ \A e \in Emails : Budget(e)

LEMMA PendingFinite ==
  ASSUME NEW e
  PROVE  IsFiniteSet(Pending(e)) /\ Cardinality(Pending(e)) \in Nat
<1>1. Pending(e) \in SUBSET Calls
  BY DEF Pending
<1>. QED
  BY <1>1, HistoryAssumption, FS_Subset, FS_CardinalityType

LEMMA NextTypeOK ==
  ASSUME TypeOK, [Next]_vars
  PROVE  TypeOK'
<1>1. CASE \E c \in Calls : Arrive(c) \/ Step(c)
  BY <1>1, SignUpSteps, ThrottleSteps, LoginSteps, ForgotPasswordSteps,
     ResetPasswordSteps, ValidateTokenSteps DEF Arrive, Step
<1>2. CASE Environment
  BY <1>2, EnvironmentSteps
<1>3. CASE UNCHANGED vars
  BY <1>3 DEF vars, TypeOK, StoresOK, CallsOK, TokensOK
<1>. QED
  BY <1>1, <1>2, <1>3 DEF Next

\* Each step keeps the budget of an address.
LEMMA BudgetKept ==
  ASSUME HInv, HNext, NEW e \in Emails
  PROVE  Budget(e)' /\ guesses'[e] \in Nat /\ carried'[e] \in Nat
<1>. DEFINE P == Cardinality(Pending(e))
            Q == Cardinality(Pending(e)')
            K == Cardinality(Compared(e))
            n == attempts[e].count
            k == attempts'[e].count
<1>1. /\ P \in Nat /\ Q \in Nat /\ n \in Nat /\ k \in Nat
      /\ MaxLoginAttempts \in Nat
  <2>1. TypeOK' /\ TypeOK
    BY NextTypeOK DEF HInv, HNext
  <2>2. n \in Nat /\ k \in Nat
    BY <2>1 DEF TypeOK, StoresOK, Counter, CountCap
  <2>3. IsFiniteSet(Pending(e)') /\ Q \in Nat
    <3>1. Pending(e)' \in SUBSET Calls
      BY DEF Pending
    <3>. QED
      BY <3>1, HistoryAssumption, FS_Subset, FS_CardinalityType
  <2>. QED
    BY <2>2, <2>3, PendingFinite, ConstantsAssumption
<1>2. faults \in Nat /\ faults' \in Nat /\ faults <= faults'
  BY FaultsGrow DEF HInv, HNext
<1>3. guesses[e] \in Nat /\ carried[e] \in Nat
      /\ guesses[e] + P <= Allowed(n) + carried[e] + faults
  BY DEF HInv, Budget
<1>4. /\ guesses'[e] = IF n > 0 /\ k = 0 THEN 0 ELSE guesses[e] + K
      /\ carried'[e] = IF n > 0 /\ k = 0 THEN P ELSE carried[e]
  BY DEF HNext, Dropped
<1>5. Budget(e)' <=> guesses'[e] + Q <= Allowed(k) + carried'[e] + faults'
  BY DEF Budget, Allowed
<1>6. CASE Passes(e)
  <2>1. Q = P /\ K = 0 /\ (k = 0 \/ k >= n)
    BY <1>6, FS_EmptySet DEF Passes
  <2>. HIDE DEF P, Q, K, n, k
  <2>. QED
    BY <1>1, <1>2, <1>3, <1>4, <1>5, <2>1 DEF Allowed
<1>7. CASE LetsIn(e)
  <2>3. PICK c \in Calls \ Pending(e) : Pending(e)' = Pending(e) \cup {c}
    BY <1>7 DEF LetsIn
  <2>1. Q = P + 1
    BY <2>3, PendingFinite, FS_AddElement
  <2>4. K = 0
    BY <1>7, FS_EmptySet DEF LetsIn
  <2>2. /\ k >= n
        /\ faults' = faults + 1 \/ (n < MaxLoginAttempts /\ k = n + 1)
    BY <1>7 DEF LetsIn
  <2>. HIDE DEF P, Q, K, n, k
  <2>. QED
    BY <1>1, <1>2, <1>3, <1>4, <1>5, <2>1, <2>2, <2>4 DEF Allowed
<1>8. CASE Compares(e)
  <2>1. PICK c \in Pending(e) : Pending(e)' = Pending(e) \ {c} /\ Compared(e) = {c}
    BY <1>8 DEF Compares
  <2>2. Q = P - 1
    BY <2>1, PendingFinite, FS_RemoveElement
  <2>3. K = 1
    BY <2>1, FS_EmptySet, FS_AddElement
  <2>4. k = n
    BY <1>8 DEF Compares
  <2>. HIDE DEF P, Q, K, n, k
  <2>. QED
    BY <1>1, <1>2, <1>3, <1>4, <1>5, <2>2, <2>3, <2>4 DEF Allowed
<1>9. CASE Forgets(e)
  <2>1. Q = 0 /\ K = 0 /\ k = n
    BY <1>9, FS_EmptySet DEF Forgets
  <2>. HIDE DEF P, Q, K, n, k
  <2>. QED
    BY <1>1, <1>2, <1>3, <1>4, <1>5, <2>1 DEF Allowed
<1>. QED
  BY <1>6, <1>7, <1>8, <1>9, StepEffects DEF HInv, HNext

\* GuessBudget: however many handlers race with each other, with the expiry of
\* the counter and with the logins that clear it, no more passwords are
\* compared than there were attempts, faults, and logins let in before.
THEOREM GuessesAreBounded == HSpec => []GuessBudget
<1>1. HInit => HInv
  <2>. SUFFICES ASSUME HInit PROVE HInv
    OBVIOUS
  <2>1. TypeOK
    BY InitTypeOK DEF HInit
  <2>2. ASSUME NEW e \in Emails  PROVE Budget(e)
    <3>1. Pending(e) = {}
      BY DEF HInit, Init, Pending, Idle
    <3>2. Cardinality(Pending(e)) = 0
      BY <3>1, FS_EmptySet
    <3>3. attempts[e].count = 0 /\ guesses[e] = 0 /\ carried[e] = 0 /\ faults = 0
      BY DEF HInit, Init, NoCounter
    <3>. QED
      BY <3>2, <3>3, ConstantsAssumption DEF Budget, Allowed
  <2>. QED
    BY <2>1, <2>2 DEF HInit, HInv
<1>2. HInv /\ [HNext]_hvars => HInv'
  <2>. SUFFICES ASSUME HInv, [HNext]_hvars PROVE HInv'
    OBVIOUS
  <2>1. CASE HNext
    <3>1. TypeOK'
      BY <2>1, NextTypeOK DEF HInv, HNext
    <3>2. \A e \in Emails : Budget(e)' /\ guesses'[e] \in Nat /\ carried'[e] \in Nat
      BY <2>1, BudgetKept
    <3>3. guesses' \in [Emails -> Nat] /\ carried' \in [Emails -> Nat]
      <4>1. /\ guesses' = [e \in Emails |-> guesses'[e]]
            /\ carried' = [e \in Emails |-> carried'[e]]
        BY <2>1 DEF HNext
      <4>. QED
        BY <3>2, <4>1
    <3>. QED
      BY <3>1, <3>2, <3>3 DEF HInv
  <2>2. CASE UNCHANGED hvars
    BY <2>2, NextTypeOK DEF hvars, vars, HInv, Budget, Pending, TypeOK, StoresOK, CallsOK, TokensOK
  <2>. QED
    BY <2>1, <2>2
<1>3. HInv => GuessBudget
  <2>. SUFFICES ASSUME HInv, NEW e \in Emails
                PROVE  guesses[e] + Cardinality(Pending(e))
                         <= MaxLoginAttempts + carried[e] + faults
    BY DEF GuessBudget
  <2>1. /\ Budget(e) /\ attempts[e].count \in Nat /\ faults \in Nat
        /\ guesses[e] \in Nat /\ carried[e] \in Nat
    BY BackendAssumption DEF HInv, TypeOK, StoresOK, Counter, CountCap
  <2>2. Cardinality(Pending(e)) \in Nat
    BY PendingFinite
  <2>. QED
    BY <2>1, <2>2, ConstantsAssumption DEF Budget, Allowed
<1>. QED
  BY <1>1, <1>2, <1>3, PTL DEF HSpec
----------------------------------------------------------------------------
(***************************************************************************)
(* Who is locked out.  LockoutEarned speaks of a counter above the limit;  *)
(* to get there it must hold, up to the limit, of every count.             *)
(***************************************************************************)

Earned(e) ==
  faults = 0 => Allowed(attempts[e].count) <= refused[e] + Cardinality(UnderWay(e))

EInv ==
  /\ TypeOK
  /\ refused \in [Emails -> Nat]
  /\ \A e \in Emails : Earned(e)

\* What a step without a fault does to the logins under way and to the counter.
Stays(e) ==
  /\ UnderWay(e)' = UnderWay(e) /\ Refused(e) = {}
  /\ Allowed(attempts'[e].count) = Allowed(attempts[e].count)

Counts(e) ==
  /\ \E c \in Calls \ UnderWay(e) : UnderWay(e)' = UnderWay(e) \cup {c}
  /\ Refused(e) = {}
  /\ Allowed(attempts'[e].count) <= Allowed(attempts[e].count) + 1

Refuses(e) ==
  /\ \E c \in UnderWay(e) : UnderWay(e)' = UnderWay(e) \ {c} /\ Refused(e) = {c}
  /\ UNCHANGED attempts

LEMMA StaysMeans ==
  ASSUME NEW e \in Emails, UNCHANGED attempts, UnderWay(e)' = UnderWay(e),
         Refused(e) = {}
  PROVE  Stays(e)
BY DEF Stays, Allowed

LEMMA OffStepsStay ==
  ASSUME TypeOK, NEW c \in Calls, Arrive(c) \/ Step(c),
         ~Increment(c), ~Expire(c), ~Authenticate(c), UNCHANGED faults,
         NEW e \in Emails
  PROVE  attempts'[e].count = 0 \/ Stays(e)
<1>1. calls \in [Calls -> Request] /\ attempts \in [Emails -> Counter]
      /\ faults \in Nat
  BY BackendAssumption DEF TypeOK, CallsOK, StoresOK
<1>2. Refused(e) = {}
  BY <1>1, OffSteps DEF Refused, Compared, OffLabels
<1>3. CASE ClearLoginAttempts(c)
  <2>1. DelCounter(calls[c].email)
    BY <1>1, <1>3 DEF ClearLoginAttempts, Command, Fault
  <2>2. CASE calls[c].email = e
    BY <1>1, <2>1, <2>2 DEF DelCounter, NoCounter
  <2>3. CASE calls[c].email # e
    <3>1. attempts'[e] = attempts[e]
      BY <1>1, <2>1, <2>3 DEF DelCounter
    <3>2. UnderWay(e)' = UnderWay(e)
      BY <1>1, <2>3, OffSteps DEF UnderWay, NewLabels, OffLabels
    <3>. QED
      BY <1>2, <3>1, <3>2 DEF Stays
  <2>. QED
    BY <2>2, <2>3
<1>4. CASE ~ClearLoginAttempts(c)
  <2>1. UNCHANGED attempts
    BY <1>4, CounterSteps
  <2>2. UnderWay(e)' = UnderWay(e)
    BY <1>1, <1>4, OffSteps DEF UnderWay, NewLabels, OffLabels
  <2>. QED
    BY <1>2, <2>1, <2>2, StaysMeans
<1>. QED
  BY <1>3, <1>4

LEMMA ExpireStays ==
  ASSUME TypeOK, NEW c \in Calls, Expire(c), NEW e \in Emails,
         MaxLoginAttempts > 0
  PROVE  Stays(e)
<1>1. calls \in [Calls -> Request] /\ attempts \in [Emails -> Counter]
  BY DEF TypeOK, CallsOK, StoresOK
<1>2. calls[c].pc = "expire" /\ Gate(c, 1)
  BY DEF Expire, At, Command
<1>3. calls' = [calls EXCEPT ![c].pc = "lookup"]
  BY <1>2, ConstantsAssumption DEF Gate, Goto
<1>4. \A d \in Calls :
        /\ calls'[d].email = calls[d].email
        /\ calls'[d].pc = IF d = c THEN "lookup" ELSE calls[d].pc
  BY <1>1, <1>3 DEF Request
<1>5. UnderWay(e)' = UnderWay(e)
  BY <1>2, <1>4 DEF UnderWay
<1>6. Refused(e) = {}
  BY <1>2, <1>4 DEF Refused, Compared
<1>7. attempts'[e].count = attempts[e].count
  BY <1>1 DEF Expire, Command, SetTTL, Counter
<1>. QED
  BY <1>5, <1>6, <1>7 DEF Stays

\* An INCR that is answered counts a login that goes on, or finds the limit
\* reached.
LEMMA IncrementCounts ==
  ASSUME TypeOK, NEW c \in Calls, Increment(c), UNCHANGED faults,
         NEW e \in Emails
  PROVE  Stays(e) \/ Counts(e)
<1>. DEFINE f == calls[c].email
            n == Capped(attempts[f].count + 1)
<1>1. calls \in [Calls -> Request] /\ attempts \in [Emails -> Counter] /\ CallsOK
      /\ faults \in Nat /\ MaxLoginAttempts \in Nat
  BY BackendAssumption, ConstantsAssumption DEF TypeOK, CallsOK, StoresOK
<1>2. calls[c].pc = "incr" /\ f \in Emails
  <2>1. calls[c].pc = "incr"
    BY DEF Increment, At
  <2>. QED
    BY <1>1, <2>1, LoginShape DEF LoginLabels
<1>3. Incr(f, n) /\ Counted(c, n)
  BY <1>1 DEF Increment, Command, Fault
<1>4. /\ n \in Nat /\ attempts[f].count \in Nat
      /\ n >= attempts[f].count /\ n <= attempts[f].count + 1
      /\ n > MaxLoginAttempts => attempts[f].count >= MaxLoginAttempts
  BY <1>1, <1>2 DEF Capped, CountCap, Counter
<1>. HIDE DEF n
<1>5. attempts'[f].count = n /\ (e # f => attempts'[e] = attempts[e])
  BY <1>1, <1>2, <1>3 DEF Incr, Counter
<1>6. \/ Reply(c, "locked") /\ n > MaxLoginAttempts
      \/ \E l \in {"expire", "lookup"} : Goto(c, l)
  BY <1>3 DEF Counted, Gate
<1>7. CASE Reply(c, "locked") /\ n > MaxLoginAttempts
  <2>1. calls' = [calls EXCEPT ![c] = calls'[c]] /\ calls'[c].pc = "done"
    BY <1>1, <1>7, ReplyMoves
  <2>2. UnderWay(e)' = UnderWay(e) /\ Refused(e) = {}
    BY <1>1, <1>2, <2>1 DEF UnderWay, Refused, Compared
  <2>3. Allowed(attempts'[e].count) = Allowed(attempts[e].count)
    BY <1>1, <1>4, <1>5, <1>7 DEF Allowed
  <2>. QED
    BY <2>2, <2>3 DEF Stays
<1>8. ASSUME NEW l \in {"expire", "lookup"}, Goto(c, l)
      PROVE  Stays(e) \/ Counts(e)
  <2>1. \A d \in Calls :
          /\ calls'[d].email = calls[d].email
          /\ calls'[d].pc = IF d = c THEN l ELSE calls[d].pc
    BY <1>1, <1>8 DEF Goto, Request
  <2>2. Refused(e) = {}
    BY <1>2, <2>1 DEF Refused, Compared
  <2>3. CASE e = f
    <3>1. c \in Calls \ UnderWay(e) /\ UnderWay(e)' = UnderWay(e) \cup {c}
      BY <1>2, <2>1, <2>3 DEF UnderWay
    <3>2. Allowed(attempts'[e].count) <= Allowed(attempts[e].count) + 1
      BY <1>1, <1>4, <1>5, <2>3 DEF Allowed
    <3>. QED
      BY <2>2, <3>1, <3>2 DEF Counts
  <2>4. CASE e # f
    <3>1. UnderWay(e)' = UnderWay(e)
      BY <1>2, <2>1, <2>4 DEF UnderWay
    <3>. QED
      BY <1>5, <2>2, <2>4, <3>1 DEF Stays
  <2>. QED
    BY <2>3, <2>4
<1>. QED
  BY <1>6, <1>7, <1>8

LEMMA AuthenticateRefuses ==
  ASSUME TypeOK, NEW c \in Calls, Authenticate(c), NEW e \in Emails
  PROVE  Stays(e) \/ Refuses(e)
<1>1. calls \in [Calls -> Request] /\ CallsOK
  BY DEF TypeOK, CallsOK
<1>2. calls[c].pc = "lookup" /\ UNCHANGED attempts
  BY DEF Authenticate, At, stores
<1>3. (\E r : Reply(c, r)) \/ (\E u : GotoAs(c, "clear", u))
  BY DEF Authenticate, Query
<1>4. CASE \E r : Reply(c, r)
  <2>1. calls' = [calls EXCEPT ![c] = calls'[c]] /\ calls'[c].pc = "done"
    BY <1>1, <1>4, ReplyMoves
  <2>2. CASE calls[c].email = e
    <3>1. c \in UnderWay(e) /\ UnderWay(e)' = UnderWay(e) \ {c} /\ Refused(e) = {c}
      BY <1>1, <1>2, <2>1, <2>2 DEF UnderWay, Refused, Compared
    <3>. QED
      BY <1>2, <3>1 DEF Refuses
  <2>3. CASE calls[c].email # e
    <3>1. UnderWay(e)' = UnderWay(e) /\ Refused(e) = {}
      BY <1>1, <1>2, <2>1, <2>3 DEF UnderWay, Refused, Compared
    <3>. QED
      BY <1>2, <3>1, StaysMeans
  <2>. QED
    BY <2>2, <2>3
<1>5. ASSUME NEW u, GotoAs(c, "clear", u)
      PROVE  Stays(e)
  <2>1. \A d \in Calls :
          /\ calls'[d].email = calls[d].email
          /\ calls'[d].pc = IF d = c THEN "clear" ELSE calls[d].pc
    BY <1>1, <1>5 DEF GotoAs, Request
  <2>2. UnderWay(e)' = UnderWay(e) /\ Refused(e) = {}
    BY <1>2, <2>1 DEF UnderWay, Refused, Compared
  <2>. QED
    BY <1>2, <2>2, StaysMeans
<1>. QED
  BY <1>3, <1>4, <1>5

LEMMA EnvironmentStays ==
  ASSUME TypeOK, Environment, UNCHANGED faults, NEW e \in Emails
  PROVE  attempts'[e].count = 0 \/ Stays(e)
<1>1. attempts \in [Emails -> Counter] /\ faults \in Nat
  BY BackendAssumption DEF TypeOK, StoresOK
<1>2. ~Restart
  BY <1>1 DEF Restart, Fault
<1>3. UNCHANGED calls
  BY <1>2 DEF Environment, Tick, ResetTokenExpires, RefreshTokenExpires,
              Delete, HardDelete
<1>4. UnderWay(e)' = UnderWay(e) /\ Refused(e) = {}
  BY <1>3 DEF UnderWay, Refused, Compared
<1>5. attempts'[e].count \in {0, attempts[e].count}
  <2>1. ASSUME NEW f \in Emails, Tick(f)
        PROVE  attempts'[e].count \in {0, attempts[e].count}
    BY <1>1, <2>1 DEF Tick, NoCounter, Counter
  <2>. QED
    BY <1>1, <1>2, <2>1 DEF Environment, ResetTokenExpires, RefreshTokenExpires,
                            Delete, HardDelete
<1>. QED
  BY <1>4, <1>5 DEF Stays

LEMMA QuietEffects ==
  ASSUME TypeOK, [Next]_vars, UNCHANGED faults, MaxLoginAttempts > 0,
         NEW e \in Emails
  PROVE  attempts'[e].count = 0 \/ Stays(e) \/ Counts(e) \/ Refuses(e)
<1>1. CASE UNCHANGED vars
  BY <1>1, StaysMeans DEF vars, UnderWay, Refused, Compared
<1>. QED
  BY <1>1, OffStepsStay, ExpireStays, IncrementCounts, AuthenticateRefuses,
     EnvironmentStays DEF Next

LEMMA UnderWayFinite ==
  ASSUME NEW e
  PROVE  /\ IsFiniteSet(UnderWay(e)) /\ Cardinality(UnderWay(e)) \in Nat
         /\ Cardinality(UnderWay(e)') \in Nat
         /\ Cardinality(Refused(e)) \in Nat
<1>1. /\ UnderWay(e) \in SUBSET Calls /\ UnderWay(e)' \in SUBSET Calls
      /\ Refused(e) \in SUBSET Calls
  BY DEF UnderWay, Refused, Compared
<1>2. /\ IsFiniteSet(UnderWay(e)) /\ IsFiniteSet(UnderWay(e)')
      /\ IsFiniteSet(Refused(e))
  BY <1>1, HistoryAssumption, FS_Subset
<1>. QED
  BY <1>2, FS_CardinalityType

LEMMA EarnedKept ==
  ASSUME EInv, HNext, NEW e \in Emails
  PROVE  Earned(e)' /\ refused'[e] \in Nat
<1>. DEFINE P == Cardinality(UnderWay(e))
            Q == Cardinality(UnderWay(e)')
            K == Cardinality(Refused(e))
            n == attempts[e].count
            k == attempts'[e].count
<1>1. /\ P \in Nat /\ Q \in Nat /\ K \in Nat /\ n \in Nat /\ k \in Nat
      /\ MaxLoginAttempts \in Nat /\ refused[e] \in Nat
  <2>1. TypeOK' /\ TypeOK
    BY NextTypeOK DEF EInv, HNext
  <2>2. n \in Nat /\ k \in Nat
    BY <2>1 DEF TypeOK, StoresOK, Counter, CountCap
  <2>. QED
    BY <2>2, UnderWayFinite, ConstantsAssumption DEF EInv
<1>2. refused'[e] = IF n > 0 /\ k = 0 THEN 0 ELSE refused[e] + K
  BY DEF HNext, Dropped
<1>3. refused'[e] \in Nat
  BY <1>1, <1>2
<1>4. Earned(e)' <=> (faults' = 0 => Allowed(k) <= refused'[e] + Q)
  BY DEF Earned, Allowed
<1>5. CASE k = 0 \/ MaxLoginAttempts = 0
  <2>1. Allowed(k) = 0
    BY <1>1, <1>5 DEF Allowed
  <2>. HIDE DEF Q, k
  <2>. QED
    BY <1>1, <1>3, <1>4, <2>1
<1>6. CASE faults' # 0
  BY <1>3, <1>4, <1>6
<1>7. ASSUME k # 0, MaxLoginAttempts > 0, faults' = 0
      PROVE  Earned(e)'
  <2>1. faults = 0
    BY <1>7, FaultsGrow DEF EInv, HNext
  <2>2. Allowed(n) <= refused[e] + P
    BY <2>1 DEF EInv, Earned
  <2>3. refused'[e] = refused[e] + K
    BY <1>2, <1>7
  <2>4. Stays(e) \/ Counts(e) \/ Refuses(e)
    BY <1>7, <2>1, QuietEffects DEF EInv, HNext
  <2>5. CASE Stays(e)
    <3>1. Q = P /\ K = 0 /\ Allowed(k) = Allowed(n)
      BY <2>5, FS_EmptySet DEF Stays
    <3>. HIDE DEF P, Q, K, n, k
    <3>. QED
      BY <1>1, <1>4, <2>2, <2>3, <3>1
  <2>6. CASE Counts(e)
    <3>1. PICK c \in Calls \ UnderWay(e) : UnderWay(e)' = UnderWay(e) \cup {c}
      BY <2>6 DEF Counts
    <3>2. Q = P + 1
      BY <3>1, UnderWayFinite, FS_AddElement
    <3>3. K = 0 /\ Allowed(k) <= Allowed(n) + 1
      BY <2>6, FS_EmptySet DEF Counts
    <3>4. Allowed(n) \in Nat /\ Allowed(k) \in Nat
      BY <1>1 DEF Allowed
    <3>. HIDE DEF P, Q, K, n, k
    <3>. QED
      BY <1>1, <1>4, <2>2, <2>3, <3>2, <3>3, <3>4
  <2>7. CASE Refuses(e)
    <3>1. PICK c \in UnderWay(e) : UnderWay(e)' = UnderWay(e) \ {c} /\ Refused(e) = {c}
      BY <2>7 DEF Refuses
    <3>2. Q = P - 1
      BY <3>1, UnderWayFinite, FS_RemoveElement
    <3>3. K = 1
      BY <3>1, FS_Singleton
    <3>4. Allowed(k) = Allowed(n) /\ Allowed(n) \in Nat
      BY <1>1, <2>7 DEF Refuses, Allowed
    <3>. HIDE DEF P, Q, K, n, k
    <3>. QED
      BY <1>1, <1>4, <2>2, <2>3, <3>2, <3>3, <3>4
  <2>. QED
    BY <2>4, <2>5, <2>6, <2>7
<1>. QED
  BY <1>1, <1>3, <1>5, <1>6, <1>7

\* LockoutEarned: whatever races with the counter, its expiry and the logins that
\* clear it, nobody is locked out by less than MaxLoginAttempts logins that were
\* refused or may yet be (service.go:122-128).
THEOREM LockoutsAreEarned == HSpec => []LockoutEarned
<1>1. HInit => EInv
  <2>. SUFFICES ASSUME HInit PROVE EInv
    OBVIOUS
  <2>1. TypeOK
    BY InitTypeOK DEF HInit
  <2>2. ASSUME NEW e \in Emails  PROVE Earned(e)
    <3>1. Allowed(attempts[e].count) = 0 /\ refused[e] = 0
      BY ConstantsAssumption DEF HInit, Init, NoCounter, Allowed
    <3>. QED
      BY <3>1, UnderWayFinite DEF Earned
  <2>. QED
    BY <2>1, <2>2 DEF HInit, EInv
<1>2. EInv /\ [HNext]_hvars => EInv'
  <2>. SUFFICES ASSUME EInv, [HNext]_hvars PROVE EInv'
    OBVIOUS
  <2>1. CASE HNext
    <3>1. TypeOK'
      BY <2>1, NextTypeOK DEF EInv, HNext
    <3>2. \A e \in Emails : Earned(e)' /\ refused'[e] \in Nat
      BY <2>1, EarnedKept
    <3>3. refused' = [e \in Emails |-> refused'[e]]
      BY <2>1 DEF HNext
    <3>. QED
      BY <3>1, <3>2, <3>3 DEF EInv
  <2>2. CASE UNCHANGED hvars
    BY <2>2, NextTypeOK DEF hvars, vars, EInv, Earned, Allowed, UnderWay
  <2>. QED
    BY <2>1, <2>2
<1>3. EInv => LockoutEarned
  <2>. SUFFICES ASSUME EInv, faults = 0, NEW e \in Emails,
                       attempts[e].count > MaxLoginAttempts
                PROVE  refused[e] + Cardinality(UnderWay(e)) >= MaxLoginAttempts
    BY DEF LockoutEarned
  <2>1. Allowed(attempts[e].count) <= refused[e] + Cardinality(UnderWay(e))
    BY DEF EInv, Earned
  <2>2. attempts[e].count \in Nat /\ refused[e] \in Nat
    BY DEF EInv, TypeOK, StoresOK, Counter, CountCap
  <2>. QED
    BY <2>1, <2>2, UnderWayFinite, ConstantsAssumption DEF Allowed
<1>. QED
  BY <1>1, <1>2, <1>3, PTL DEF HSpec
=============================================================================
