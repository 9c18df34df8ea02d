------------------------------ MODULE Backend ------------------------------
(***************************************************************************)
(* What the two backends are both made of: RPC handlers that run at once,  *)
(* over the users table of PostgreSQL and the password resets of Redis.    *)
(*                                                                         *)
(* A handler is a sequence of steps, one per SQL statement or Redis        *)
(* command; what it computes between two of them (validation, hashing,     *)
(* comparing, signing) is local and belongs to the step before.  Any call  *)
(* to a store may fail, before the store saw it or after.                  *)
(*                                                                         *)
(* Abstractions.  A password stands for its Argon2 hash as well: it        *)
(* verifies exactly against itself.  Identifiers and reset tokens are      *)
(* random: None until drawn and Gone once removed, never drawn again.      *)
(***************************************************************************)
EXTENDS Naturals, FiniteSets

CONSTANTS
  Calls,             \* request slots: the handlers that may run at once
  Emails, Passwords, \* valid inputs; malformed ones are answered at once
  UserIds,           \* the ids that can be drawn, a bound on sign-ups
  ResetTokens,       \* the reset tokens that can be drawn, a bound as well
  None, Gone,
  Methods,           \* the RPCs the clients of this instance use
  InitialUsers,      \* the table found in the database at startup
  MaxFaults          \* bound on failed store calls and crashes together

VARIABLES
  users,  \* the users table: id -> row
  resets, \* the password resets in Redis: token -> user id
  calls,  \* the request slots
  faults  \* faults so far

AllMethods ==
  {"SignUp", "Login", "ForgotPassword", "ResetPassword", "ValidateToken"}

Row == [email : Emails, pwd : Passwords, active : BOOLEAN]

ASSUME BackendAssumption ==
  /\ None # Gone
  /\ {None, Gone} \cap (Row \cup UserIds \cup Emails \cup Passwords \cup ResetTokens) = {}
  /\ MaxFaults \in Nat
  /\ Methods \subseteq AllMethods
  /\ InitialUsers \in [UserIds -> Row \cup {None}]
  /\ \A u, v \in UserIds :
       /\ InitialUsers[u] # None /\ InitialUsers[v] # None
       /\ InitialUsers[u].email = InitialUsers[v].email
       => u = v

----------------------------------------------------------------------------
(* The steps of a handler. *)

Idle == [op |-> "none", pc |-> "idle", email |-> None, pwd |-> None,
         user |-> None, token |-> None, reply |-> "none"]

At(c, label) == calls[c].pc = label

\* A slot takes a new request once the reply of the last one is out.
Ready(c) == calls[c].pc \in {"idle", "done"}

Goto(c, label) == calls' = [calls EXCEPT ![c].pc = label]

GotoAs(c, label, u) ==
  calls' = [calls EXCEPT ![c] = [@ EXCEPT !.pc = label, !.user = u]]

\* The handler returns: its locals are gone, the client has the reply.
Reply(c, r) ==
  calls' = [calls EXCEPT ![c] =
              [Idle EXCEPT !.op = calls[c].op, !.pc = "done", !.reply = r]]

Start(c, op, label, e, p, t) ==
  /\ Ready(c)
  /\ op \in Methods
  /\ calls' = [calls EXCEPT ![c] =
       [Idle EXCEPT !.op = op, !.pc = label, !.email = e, !.pwd = p,
                    !.token = t]]

\* Answered before any store is asked.
Answer(c, op, r) ==
  /\ Ready(c)
  /\ op \in Methods
  /\ calls' = [calls EXCEPT ![c] =
       [Idle EXCEPT !.op = op, !.pc = "done", !.reply = r]]

Fault == faults < MaxFaults /\ faults' = faults + 1

\* A statement that only reads: answered, or failed.
Query(answered, failed) ==
  \/ answered /\ UNCHANGED faults
  \/ Fault /\ failed

\* A statement that writes: done and answered, lost before it reached the
\* store, or done with its answer lost.
Command(effect, noEffect, answered, failed) ==
  \/ effect /\ answered /\ UNCHANGED faults
  \/ Fault /\ noEffect /\ failed
  \/ Fault /\ effect /\ failed

\* Bound on sign-ups and reset requests: one arrives only while there is an
\* id, or a token, left for each one under way.
Spare(drawn, labels) ==
  Cardinality({c \in Calls : calls[c].pc \in labels})
    < Cardinality({x \in DOMAIN drawn : drawn[x] = None})

----------------------------------------------------------------------------
(* What the contract (AuthContract) sees of a request: undecided ("open") up  *)
(* to the statement that decides it.                                          *)

Stage(label) ==
  CASE label \in {"clear", "touch", "store", "grant", "update"} -> "granted"
    [] label \in {"drop", "stamp"} -> "effected"
    [] label \in {"idle", "done"} -> label
    [] OTHER -> "open"

Abstract(r) ==
  [op |-> r.op, email |-> r.email, pwd |-> r.pwd, user |-> r.user,
   token |-> r.token, stage |-> Stage(r.pc), reply |-> r.reply]

----------------------------------------------------------------------------
(* The users table. *)

Live(u) == users[u] \notin {None, Gone}

\* The rows GetByEmail and EmailExists see.
Holders(e) == {u \in UserIds : Live(u) /\ users[u].email = e}

\* Mutated form: the table without its UNIQUE constraint.
Unconstrained(e) == FALSE

\* The UNIQUE constraint of the table decides, whatever EmailExists saw.
Violates(e) == Holders(e) # {}

\* Mutated form: is_active is left to its zero value.
InsertInactive(u, e, p) ==
  users' = [users EXCEPT ![u] = [email |-> e, pwd |-> p, active |-> FALSE]]

Insert(u, e, p) ==
  users' = [users EXCEPT ![u] = [email |-> e, pwd |-> p, active |-> TRUE]]

----------------------------------------------------------------------------
(* Properties *)

\* Two sign-ups for one address may both find it free (service.go:67, 93), and
\* the Rust backend does not look (main.rs:61): still no two rows ever hold the
\* same address.
OneAccountPerEmail ==
  \A u, v \in UserIds :
    Live(u) /\ Live(v) /\ users[u].email = users[v].email => u = v
=============================================================================
