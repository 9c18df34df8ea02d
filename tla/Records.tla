------------------------------ MODULE Records ------------------------------
(***************************************************************************)
(* What becomes of the texts of a form on their way into the users table   *)
(* and back: the client's validators, those of either backend, and the     *)
(* columns of the table (backend/migrations).  A backend checks a trimmed  *)
(* copy, stores what was typed, and looks for what was typed.              *)
(*                                                                         *)
(* A request is one step here: what happens between its statements is in   *)
(* AuthService and RustAuth, which have no texts.                          *)
(***************************************************************************)
EXTENDS FieldRules

CONSTANTS
  UserIds,
  Forms,      \* what is typed into a sign-up form
  Logins,     \* what is typed into a login form
  Mailboxes,  \* whom an address belongs to, in whatever capitals
  None

\* capitals: which letters of an address are capitals; formed: the patterns it
\* matches between its blanks.
Addresses ==
  [lead : Nat, length : Nat, trail : Nat, blank : {"space", "tab"},
   mailbox : Mailboxes, capitals : SUBSET Nat, formed : SUBSET {"pattern", "html"}]

\* A row holds what a form holds.
Rows == [email : Addresses, pwd : Passwords, first : Names, last : Names]

Backends == {"go", "rust"}

\* A request goes through the client, or from another program to a backend.
Origins == {"client", "program"}

Owners == [form : Forms, backend : Backends]

\* The pattern asks for characters, and an address without blanks has no blank.
ASSUME RecordsAssumption ==
  /\ None \notin UserIds \cup Rows \cup Owners
  /\ Forms \subseteq Rows /\ Logins \subseteq [email : Addresses, pwd : Passwords]
  /\ \A f \in Forms \cup Logins :
       /\ "pattern" \in f.email.formed => f.email.length > 0
       /\ Blanks(f.email) = 0 => f.email.blank = "space"

VARIABLES
  users,  \* the texts of a row
  owner,  \* history: the form an account was made with, and where
  last    \* a request that was answered, None once the answer has arrived

vars == <<users, owner, last>>

Ids == {u \in UserIds : users[u] # None}
----------------------------------------------------------------------------
(* The table *)

\* VARCHAR(max): spaces beyond the end are cut off, anything else is an error.
Fits(t, max) ==
  Length(t) <= max \/ (t.lead + t.length <= max /\ t.blank = "space")

\* Mutated form: the trimmed copy is stored.
ColumnTrimmed(t, max) == TrimSpace(t)

Column(t, max) ==
  IF Length(t) <= max THEN t ELSE [t EXCEPT !.trail = max - t.lead - t.length]

Holders(e) == {u \in Ids : users[u].email = e}

\* Mutated form: without the UNIQUE constraint.
ViolatesNothing(e) == FALSE

Violates(e) == Holders(e) # {}

FitsTable(f) ==
  Fits(f.email, MaxEmail) /\ Fits(f.first, MaxName) /\ Fits(f.last, MaxName)

RowOf(f) ==
  [email |-> Column(f.email, MaxEmail), pwd |-> f.pwd,
   first |-> Column(f.first, MaxName), last |-> Column(f.last, MaxName)]

\* INSERT, and an error of it is answered "internal".
Insert(backend, origin, f) ==
  LET row == RowOf(f)
  IN  IF FitsTable(f) /\ ~Violates(row.email)
      THEN /\ \E u \in UserIds \ Ids :
                /\ users' = [users EXCEPT ![u] = row]
                /\ owner' = [owner EXCEPT ![u] =
                     [form |-> f, backend |-> backend]]
           /\ last' = [op |-> "SignUp", backend |-> backend, origin |-> origin,
                       form |-> f, reply |-> "ok"]
      ELSE /\ last' = [op |-> "SignUp", backend |-> backend, origin |-> origin,
                       form |-> f, reply |-> "internal"]
           /\ UNCHANGED <<users, owner>>

Refuse(op, backend, origin, f, reply) ==
  /\ last' = [op |-> op, backend |-> backend, origin |-> origin, form |-> f,
              reply |-> reply]
  /\ UNCHANGED <<users, owner>>
----------------------------------------------------------------------------
(* Signing up *)

ClientSignUp(f) ==
  /\ ClientEmail(f.email) /\ ClientPassword(f.pwd)
  /\ ClientName(f.first) /\ ClientName(f.last)

ValidSignUp(f) ==
  /\ ValidateEmail(f.email) /\ ValidatePassword(f.pwd)
  /\ ValidateName(f.first) /\ ValidateName(f.last)

\* The address is looked for as it was typed.
SignUp(origin, f) ==
  /\ origin = "client" => ClientSignUp(f)
  /\ \/ ~ValidSignUp(f) /\ Refuse("SignUp", "go", origin, f, "invalid")
     \/ /\ ValidSignUp(f) /\ Holders(f.email) # {}
        /\ Refuse("SignUp", "go", origin, f, "exists")
     \/ /\ ValidSignUp(f) /\ Holders(f.email) = {}
        /\ Insert("go", origin, f)

RustValidSignUp(f) ==
  /\ RustEmail(f.email) /\ RustPassword(f.pwd)
  /\ RustName(f.first) /\ RustName(f.last)

RustSignUp(origin, f) ==
  /\ origin = "client" => ClientSignUp(f)
  /\ \/ ~RustValidSignUp(f) /\ Refuse("SignUp", "rust", origin, f, "invalid")
     \/ RustValidSignUp(f) /\ Insert("rust", origin, f)
----------------------------------------------------------------------------
(* Logging in *)

ClientLogin(l) == ClientEmail(l.email) /\ ClientPassword(l.pwd)

LoginReply(l, valid) ==
  IF ~valid THEN "invalid"
  ELSE IF \E u \in Holders(l.email) : users[u].pwd = l.pwd THEN "ok"
  ELSE "unauthenticated"

Login(origin, l) ==
  /\ origin = "client" => ClientLogin(l)
  /\ Refuse("Login", "go", origin, l,
            LoginReply(l, ValidateEmail(l.email) /\ Bytes(l.pwd) > 0))

RustLogin(origin, l) ==
  /\ origin = "client" => ClientLogin(l)
  /\ Refuse("Login", "rust", origin, l,
            LoginReply(l, RustEmail(l.email) /\ Characters(l.pwd) > 0))
----------------------------------------------------------------------------
Init ==
  /\ users = [u \in UserIds |-> None]
  /\ owner = [u \in UserIds |-> None]
  /\ last = None

\* One request after the other.
Request(origin) ==
  \/ \E f \in Forms : SignUp(origin, f) \/ RustSignUp(origin, f)
  \/ \E l \in Logins : Login(origin, l) \/ RustLogin(origin, l)

Answered == last # None /\ last' = None /\ UNCHANGED <<users, owner>>

Next ==
  \/ last = None /\ \E origin \in Origins : Request(origin)
  \/ Answered

Spec == Init /\ [][Next]_vars
----------------------------------------------------------------------------
(* Properties *)

\* Rows respect the columns of the table, whichever backend wrote them, and no
\* two hold one text as their address.
TypeOK ==
  /\ users \in [UserIds -> Rows \cup {None}]
  /\ owner \in [UserIds -> Owners \cup {None}]
  /\ Ids = {u \in UserIds : owner[u] # None}
  /\ \A u \in Ids :
       /\ Length(users[u].email) <= MaxEmail
       /\ Length(users[u].first) <= MaxName /\ Length(users[u].last) <= MaxName
       /\ \A v \in Ids : users[u].email = users[v].email => u = v
  /\ last = None \/
       /\ last.op \in {"SignUp", "Login"} /\ last.backend \in Backends
       /\ last.origin \in Origins /\ last.form \in Forms \cup Logins
       /\ last.reply \in {"ok", "exists", "invalid", "internal",
                          "unauthenticated"}

\* A form the client lets through is refused by the Go backend only for one of
\* the maxima, which the client does not know, or for white space other than
\* spaces inside a name (name_input.dart:9, validation.go:108-116).
RefusedForms ==
  last # None /\ last.origin = "client" /\ last.backend = "go"
              /\ last.reply = "invalid" =>
    \/ last.form.email.length > MaxEmail
    \/ /\ last.op = "SignUp"
       /\ \/ Bytes(last.form.pwd) > MaxPassword
          \/ \E n \in {last.form.first, last.form.last} :
               n.length > MaxName \/ "tab" \in n.within

\* A sign-up the Go backend found valid fails in the table only because of
\* blanks its validators trimmed off a copy (validation.go:19,93) and the
\* statement did not (service.go:83-91).
InternalMeansBlanks ==
  last # None /\ last.backend = "go" /\ last.reply = "internal" =>
    \E t \in {last.form.email, last.form.first, last.form.last} : Blanks(t) > 0

\* Who types what was typed at sign-up gets in, on either backend, unless the
\* column cut the address short or the other backend's rule for addresses
\* refuses it (requests.rs:35, validation.go:29).
OwnersGetIn ==
  last # None /\ last.op = "Login" =>
    \A u \in Ids :
      last.form.email = owner[u].form.email /\ last.form.pwd = owner[u].form.pwd
        => \/ last.reply = "ok"
           \/ Length(last.form.email) > MaxEmail
           \/ last.reply = "invalid" /\ last.backend # owner[u].backend
=============================================================================
