---------------------------- MODULE LoginHistory ----------------------------
(***************************************************************************)
(* AuthService with a history of the logins of each address since its      *)
(* counter last went away (by expiry or by a successful login): what the   *)
(* throttle of service.go:121-129 lets through, and whom it turns away.    *)
(***************************************************************************)
EXTENDS AuthService

\* There are only so many handlers at once.
ASSUME HistoryAssumption == IsFiniteSet(Calls)

VARIABLES
  guesses,  \* passwords compared
  refused,  \* of those logins, the ones that ended there
  carried   \* logins that were past INCR, not yet compared, at that moment

hvars == <<vars, guesses, refused, carried>>

\* Logins for e that have passed INCR and are on their way to the comparison:
\* the one that sets the TTL saw 1, which a limit of 0 turns away.
Pending(e) ==
  {c \in Calls : /\ calls[c].email = e
                 /\ \/ calls[c].pc = "lookup"
                    \/ calls[c].pc = "expire" /\ MaxLoginAttempts > 0}

Dropped(e) == attempts[e].count > 0 /\ attempts'[e].count = 0

\* The logins for e this step compares a password for.
Compared(e) ==
  {c \in Calls : /\ calls[c].pc = "lookup" /\ calls[c].email = e
                 /\ calls'[c].pc \notin {"lookup", "idle"}}

Refused(e) == {c \in Compared(e) : calls'[c].pc = "done"}

\* Logins for e that count as attempts and may still turn out to be right.
UnderWay(e) ==
  {c \in Calls : /\ calls[c].email = e
                 /\ calls[c].pc \in {"expire", "lookup", "clear"}}

HInit ==
  /\ Init
  /\ guesses = [e \in Emails |-> 0]
  /\ refused = [e \in Emails |-> 0]
  /\ carried = [e \in Emails |-> 0]

HNext ==
  /\ Next
  /\ guesses' = [e \in Emails |->
       IF Dropped(e) THEN 0 ELSE guesses[e] + Cardinality(Compared(e))]
  /\ refused' = [e \in Emails |->
       IF Dropped(e) THEN 0 ELSE refused[e] + Cardinality(Refused(e))]
  /\ carried' = [e \in Emails |->
       IF Dropped(e) THEN Cardinality(Pending(e)) ELSE carried[e]]

HSpec == HInit /\ [][HNext]_hvars

HFairSpec == HSpec /\ Fairness

\* In the life of one counter at most MaxLoginAttempts passwords are compared
\* for its address (service.go:127), not counting the logins that were let in
\* under the counter before it, and one more for each store call that failed,
\* since the throttle lets a login in when it cannot count it
\* (service.go:123-125).
GuessBudget ==
  \A e \in Emails :
    guesses[e] + Cardinality(Pending(e))
      <= MaxLoginAttempts + carried[e] + faults

\* While no store call fails, an address is locked only by as many logins as are
\* allowed that were refused since its counter began, or have still to clear it:
\* attempts are counted before they are verified ("failed login attempts",
\* service.go:122-128, redis.go:149), so right logins lock each other out only
\* while they are under way.
LockoutEarned ==
  faults = 0 =>
    \A e \in Emails :
      attempts[e].count > MaxLoginAttempts =>
        refused[e] + Cardinality(UnderWay(e)) >= MaxLoginAttempts
=============================================================================
