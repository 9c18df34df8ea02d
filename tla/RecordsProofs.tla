--------------------------- MODULE RecordsProofs ---------------------------
(***************************************************************************)
(* What becomes of a form, for every limit, every set of forms and logins, *)
(* and every number of rows.                                               *)
(***************************************************************************)
EXTENDS Records, TLAPS

(***************************************************************************)
(* The rows say enough of each other (two hold two addresses), and too     *)
(* little of the form they were made with: that each is the form its owner *)
(* filled in, as the columns leave it, and that this form passed the rules *)
(* of the backend that took it.                                            *)
(***************************************************************************)
AsTyped ==
  \A u \in Ids :
    LET o == owner[u]
    IN  /\ users[u] = RowOf(o.form) /\ FitsTable(o.form)
        /\ o.backend = "go" => ValidSignUp(o.form)
        /\ o.backend = "rust" => RustValidSignUp(o.form)

Table == TypeOK /\ AsTyped

Inv == Table /\ RefusedForms /\ InternalMeansBlanks /\ OwnersGetIn
----------------------------------------------------------------------------
(* The columns and the rules, for every text and every limit. *)

LEMMA Limits ==
  /\ MaxEmail \in Nat /\ MaxEmail > 0 /\ MaxName \in Nat /\ MaxName > 0
  /\ MinPassword \in Nat /\ MinPassword > 0 /\ MaxPassword \in Nat
  /\ MinName \in Nat /\ MinName > 0
BY LimitsAssumption

\* A text as far as the columns look at it.
Spaced(t) == t.lead \in Nat /\ t.length \in Nat /\ t.trail \in Nat

\* A text that is no longer than its column is stored as it was typed.
LEMMA ShortStays ==
  ASSUME NEW t, NEW max, Length(t) <= max
  PROVE  Column(t, max) = t
BY DEF Column

\* Of a text without blanks the trimmed copy is as long as the text.
LEMMA TrimmedLength ==
  ASSUME NEW t \in Addresses \cup Names
  PROVE  Length(TrimSpace(t)) = t.length
BY DEF Length, TrimSpace, Addresses, Names

LEMMA BareLength ==
  ASSUME NEW t, Spaced(t), Blanks(t) = 0
  PROVE  t.lead = 0 /\ t.trail = 0 /\ Length(t) = t.length
BY DEF Length, Blanks, Spaced

\* What fits is within its column once it is stored.
LEMMA ColumnsHold ==
  ASSUME NEW max \in Nat, NEW t \in Addresses \cup Names, Fits(t, max)
  PROVE  /\ Length(Column(t, max)) <= max
         /\ t \in Addresses => Column(t, max) \in Addresses
         /\ t \in Names => Column(t, max) \in Names
<1>1. CASE Length(t) <= max
  BY <1>1, ShortStays
<1>2. CASE ~(Length(t) <= max)
  <2>1. t.lead \in Nat /\ t.length \in Nat /\ t.trail \in Nat
    BY DEF Addresses, Names
  <2>2. t.lead + t.length <= max
    BY <1>2 DEF Fits
  <2>3. max - t.lead - t.length \in Nat
    BY <2>1, <2>2
  <2>4. Column(t, max) = [t EXCEPT !.trail = max - t.lead - t.length]
    BY <1>2 DEF Column
  <2>. DEFINE cut == max - t.lead - t.length
              short == [t EXCEPT !.trail = cut]
  <2>5. t.lead + t.length + cut = max
    BY <2>1
  <2>. HIDE DEF cut
  <2>6. short.lead = t.lead /\ short.length = t.length /\ short.trail = cut
    BY DEF Addresses, Names
  <2>7. t \in Addresses => short \in Addresses
    BY <2>3 DEF Addresses, cut
  <2>8. t \in Names => short \in Names
    BY <2>3 DEF Names, cut
  <2>9. Column(t, max) = short
    BY <2>4 DEF cut
  <2>. HIDE DEF short
  <2>. QED
    BY <2>5, <2>6, <2>7, <2>8, <2>9 DEF Length
<1>. QED
  BY <1>1, <1>2

LEMMA FormTyped ==
  ASSUME NEW f \in Forms
  PROVE  /\ f \in Rows
         /\ f.email \in Addresses /\ f.pwd \in Passwords
         /\ f.first \in Names /\ f.last \in Names
         /\ Spaced(f.email) /\ Spaced(f.first) /\ Spaced(f.last)
<1>1. f \in Rows
  BY RecordsAssumption
<1>. QED
  BY <1>1 DEF Rows, Addresses, Names, Spaced

LEMMA LoginTyped ==
  ASSUME NEW l \in Logins
  PROVE  l.email \in Addresses /\ l.pwd \in Passwords /\ Spaced(l.email)
<1>1. l \in [email : Addresses, pwd : Passwords]
  BY RecordsAssumption
<1>. QED
  BY <1>1 DEF Addresses, Spaced

LEMMA RowTyped ==
  ASSUME NEW f \in Forms, FitsTable(f)
  PROVE  /\ RowOf(f) \in Rows
         /\ Length(RowOf(f).email) <= MaxEmail
         /\ Length(RowOf(f).first) <= MaxName /\ Length(RowOf(f).last) <= MaxName
         /\ RowOf(f).pwd = f.pwd
<1>1. /\ f.email \in Addresses /\ f.pwd \in Passwords
      /\ f.first \in Names /\ f.last \in Names
  BY FormTyped
<1>2. /\ Length(Column(f.email, MaxEmail)) <= MaxEmail
      /\ Column(f.email, MaxEmail) \in Addresses
  BY <1>1, ColumnsHold, Limits DEF FitsTable
<1>3. /\ Length(Column(f.first, MaxName)) <= MaxName
      /\ Column(f.first, MaxName) \in Names
  BY <1>1, ColumnsHold, Limits DEF FitsTable
<1>4. /\ Length(Column(f.last, MaxName)) <= MaxName
      /\ Column(f.last, MaxName) \in Names
  BY <1>1, ColumnsHold, Limits DEF FitsTable
<1>. QED
  BY <1>1, <1>2, <1>3, <1>4 DEF RowOf, Rows

\* Bytes and characters of a password are numbers, and no fewer bytes.
LEMMA PasswordSizes ==
  ASSUME NEW p \in Passwords
  PROVE  /\ Characters(p) \in Nat /\ Bytes(p) \in Nat
         /\ Characters(p) <= Bytes(p)
BY DEF Passwords, Characters, Bytes

\* The client asks for no less than the server, but for the maxima and for
\* white space that is not a space.
LEMMA ClientEmailEnough ==
  ASSUME NEW f \in Forms \cup Logins, ClientEmail(f.email),
         f.email.length <= MaxEmail
  PROVE  ValidateEmail(f.email)
<1>1. f.email \in Addresses
  BY FormTyped, LoginTyped
<1>2. "pattern" \in f.email.formed /\ f.email.length > 0
  BY RecordsAssumption DEF ClientEmail
<1>3. Length(TrimSpace(f.email)) = f.email.length /\ f.email.length \in Nat
  BY <1>1, TrimmedLength DEF Addresses
<1>. QED
  BY <1>2, <1>3, Limits DEF ValidateEmail

LEMMA ClientPasswordEnough ==
  ASSUME NEW p \in Passwords, ClientPassword(p)
  PROVE  /\ Bytes(p) <= MaxPassword => ValidatePassword(p)
         /\ Bytes(p) > 0
<1>1. Characters(p) >= MinPassword
  BY DEF ClientPassword
<1>2. Bytes(p) \in Nat /\ Bytes(p) >= MinPassword
  BY <1>1, PasswordSizes, Limits
<1>3. AllClasses(p)
  BY DEF ClientPassword, AllClasses, Passwords
<1>. QED
  BY <1>2, <1>3, Limits DEF ValidatePassword

LEMMA ClientNameEnough ==
  ASSUME NEW n \in Names, ClientName(n), n.length <= MaxName, "tab" \notin n.within
  PROVE  ValidateName(n)
<1>1. Length(TrimSpace(n)) = n.length /\ n.length \in Nat
  BY TrimmedLength DEF Names
<1>. QED
  BY <1>1, Limits DEF ClientName, ValidateName
----------------------------------------------------------------------------
(* Every request keeps the invariant. *)

LEMMA InitHolds == Init => Inv
BY RecordsAssumption
   DEF Init, Inv, Table, TypeOK, AsTyped, Ids, RefusedForms, InternalMeansBlanks,
       OwnersGetIn

Answers == {"ok", "exists", "invalid", "internal", "unauthenticated"}

\* A request that leaves the table alone.
LEMMA RefuseTable ==
  ASSUME Table, NEW op \in {"SignUp", "Login"}, NEW b \in Backends,
         NEW o \in Origins, NEW f \in Forms \cup Logins, NEW r \in Answers,
         Refuse(op, b, o, f, r)
  PROVE  Table'
BY DEF Table, Refuse, TypeOK, AsTyped, Ids, Answers

\* A row that is added is that of the form, and shares its address with none.
LEMMA InsertTable ==
  ASSUME Table, NEW b \in Backends, NEW o \in Origins, NEW f \in Forms,
         Insert(b, o, f),
         b = "go" => ValidSignUp(f), b = "rust" => RustValidSignUp(f)
  PROVE  Table'
<1>. DEFINE row == RowOf(f)
            made == [form |-> f, backend |-> b]
<1>1. CASE FitsTable(f) /\ ~Violates(row.email)
  <2>1. PICK w \in UserIds \ Ids :
          /\ users' = [users EXCEPT ![w] = row]
          /\ owner' = [owner EXCEPT ![w] = made]
    BY <1>1 DEF Insert
  <2>2. row \in Rows /\ made \in Owners
    BY <1>1, RowTyped DEF Owners
  <2>3. row # None /\ made # None
    BY <2>2, RecordsAssumption
  <2>4. /\ Length(row.email) <= MaxEmail
        /\ Length(row.first) <= MaxName /\ Length(row.last) <= MaxName
    BY <1>1, RowTyped
  <2>5. made.form = f /\ made.backend = b
    OBVIOUS
  <2>6. \A v \in Ids : users[v].email # row.email
    BY <1>1 DEF Violates, Holders
  <2>. HIDE DEF row, made
  <2>7. /\ users' \in [UserIds -> Rows \cup {None}]
        /\ owner' \in [UserIds -> Owners \cup {None}]
        /\ users'[w] = row /\ owner'[w] = made
        /\ \A v \in UserIds : v # w => users'[v] = users[v] /\ owner'[v] = owner[v]
    BY <2>1, <2>2 DEF Table, TypeOK
  <2>8. Ids' = Ids \cup {w} /\ Ids' = {u \in UserIds : owner'[u] # None}
    BY <2>3, <2>7 DEF Table, TypeOK, Ids
  <2>9. /\ last'.op = "SignUp" /\ last'.backend = b /\ last'.origin = o
        /\ last'.form = f /\ last'.reply = "ok"
    BY <1>1 DEF Insert, row
  <2>10. TypeOK'
    <3>1. \A u \in Ids' :
            /\ Length(users'[u].email) <= MaxEmail
            /\ Length(users'[u].first) <= MaxName
            /\ Length(users'[u].last) <= MaxName
      BY <2>4, <2>7, <2>8 DEF Table, TypeOK, Ids
    <3>2. \A u, v \in Ids' : users'[u].email = users'[v].email => u = v
      BY <2>6, <2>7, <2>8 DEF Table, TypeOK, Ids
    <3>. QED
      BY <2>7, <2>8, <2>9, <3>1, <3>2 DEF TypeOK
  <2>11. AsTyped'
    <3>. SUFFICES ASSUME NEW u \in Ids'
                  PROVE  LET p == owner'[u]
                         IN  /\ users'[u] = RowOf(p.form) /\ FitsTable(p.form)
                             /\ p.backend = "go" => ValidSignUp(p.form)
                             /\ p.backend = "rust" => RustValidSignUp(p.form)
      BY DEF AsTyped
    <3>1. CASE u = w
      BY <1>1, <2>5, <2>7, <3>1 DEF row
    <3>2. CASE u # w
      BY <2>7, <2>8, <3>2 DEF Table, AsTyped, Ids
    <3>. QED
      BY <3>1, <3>2
  <2>. QED
    BY <2>10, <2>11 DEF Table
<1>2. CASE ~(FitsTable(f) /\ ~Violates(row.email))
  BY <1>2 DEF Insert, Table, TypeOK, AsTyped, Ids
<1>. QED
  BY <1>1, <1>2

\* Only the blanks of a form can make a row of a valid one fail.
LEMMA InsertFails ==
  ASSUME NEW f \in Forms, ValidSignUp(f), Holders(f.email) = {},
         Blanks(f.email) = 0, Blanks(f.first) = 0, Blanks(f.last) = 0
  PROVE  FitsTable(f) /\ ~Violates(RowOf(f).email)
<1>1. /\ f.email \in Addresses /\ f.first \in Names /\ f.last \in Names
      /\ Spaced(f.email) /\ Spaced(f.first) /\ Spaced(f.last)
  BY FormTyped
<1>2. Length(f.email) <= MaxEmail
  <2>1. f.email.length <= MaxEmail
    BY <1>1, TrimmedLength, Limits DEF ValidSignUp, ValidateEmail
  <2>. QED
    BY <1>1, <2>1, BareLength
<1>3. Length(f.first) <= MaxName
  <2>1. f.first.length <= MaxName
    BY <1>1, TrimmedLength, Limits DEF ValidSignUp, ValidateName
  <2>. QED
    BY <1>1, <2>1, BareLength
<1>4. Length(f.last) <= MaxName
  <2>1. f.last.length <= MaxName
    BY <1>1, TrimmedLength, Limits DEF ValidSignUp, ValidateName
  <2>. QED
    BY <1>1, <2>1, BareLength
<1>5. FitsTable(f)
  BY <1>2, <1>3, <1>4 DEF FitsTable, Fits
<1>6. RowOf(f).email = f.email
  BY <1>2, ShortStays DEF RowOf
<1>. QED
  BY <1>5, <1>6 DEF Violates

\* A sign-up the client lets through is refused only for what RefusedForms names.
LEMMA SignUpRefused ==
  ASSUME NEW f \in Forms, ClientSignUp(f), ~ValidSignUp(f)
  PROVE  \/ f.email.length > MaxEmail
         \/ Bytes(f.pwd) > MaxPassword
         \/ \E n \in {f.first, f.last} : n.length > MaxName \/ "tab" \in n.within
<1>1. /\ f.pwd \in Passwords /\ f.first \in Names /\ f.last \in Names
      /\ f.email.length \in Nat /\ f.first.length \in Nat /\ f.last.length \in Nat
      /\ Bytes(f.pwd) \in Nat
  BY FormTyped, PasswordSizes DEF Spaced
<1>2. /\ ClientEmail(f.email) /\ ClientPassword(f.pwd)
      /\ ClientName(f.first) /\ ClientName(f.last)
  BY DEF ClientSignUp
<1>3. ValidateEmail(f.email) \/ f.email.length > MaxEmail
  BY <1>1, <1>2, ClientEmailEnough, Limits
<1>4. ValidatePassword(f.pwd) \/ Bytes(f.pwd) > MaxPassword
  BY <1>1, <1>2, ClientPasswordEnough, Limits
<1>5. \A n \in {f.first, f.last} :
        ValidateName(n) \/ n.length > MaxName \/ "tab" \in n.within
  BY <1>1, <1>2, ClientNameEnough, Limits
<1>. QED
  BY <1>3, <1>4, <1>5 DEF ValidSignUp

LEMMA SignUpKeeps ==
  ASSUME Inv, NEW o \in Origins, NEW f \in Forms, SignUp(o, f)
  PROVE  Inv'
<1>1. o = "client" => ClientSignUp(f)
  BY DEF SignUp
<1>2. ASSUME ~ValidSignUp(f), Refuse("SignUp", "go", o, f, "invalid")
      PROVE  Inv'
  <2>1. Table'
    BY <1>2, RefuseTable DEF Inv, Backends, Answers
  <2>2. last' = [op |-> "SignUp", backend |-> "go", origin |-> o, form |-> f,
                 reply |-> "invalid"]
    BY <1>2 DEF Refuse
  <2>3. RefusedForms'
    BY <1>1, <1>2, <2>2, SignUpRefused DEF RefusedForms
  <2>4. InternalMeansBlanks' /\ OwnersGetIn'
    BY <2>2 DEF InternalMeansBlanks, OwnersGetIn
  <2>. QED
    BY <2>1, <2>3, <2>4 DEF Inv
<1>3. ASSUME Refuse("SignUp", "go", o, f, "exists")
      PROVE  Inv'
  <2>1. Table'
    BY <1>3, RefuseTable DEF Inv, Backends, Answers
  <2>2. last' = [op |-> "SignUp", backend |-> "go", origin |-> o, form |-> f,
                 reply |-> "exists"]
    BY <1>3 DEF Refuse
  <2>3. RefusedForms' /\ InternalMeansBlanks' /\ OwnersGetIn'
    BY <2>2 DEF RefusedForms, InternalMeansBlanks, OwnersGetIn
  <2>. QED
    BY <2>1, <2>3 DEF Inv
<1>4. ASSUME ValidSignUp(f), Holders(f.email) = {}, Insert("go", o, f)
      PROVE  Inv'
  <2>1. Table'
    BY <1>1, <1>4, InsertTable DEF Inv, Backends
  <2>2. /\ last'.op = "SignUp" /\ last'.form = f
        /\ last'.reply \in {"ok", "internal"}
        /\ last'.reply = "internal"
             => ~(FitsTable(f) /\ ~Violates(RowOf(f).email))
    BY <1>4 DEF Insert
  <2>3. last'.reply = "internal" =>
          \E t \in {f.email, f.first, f.last} : Blanks(t) > 0
    <3>1. Blanks(f.email) \in Nat /\ Blanks(f.first) \in Nat /\ Blanks(f.last) \in Nat
      BY FormTyped DEF Blanks, Spaced
    <3>. QED
      BY <1>4, <2>2, <3>1, InsertFails
  <2>4. RefusedForms' /\ InternalMeansBlanks' /\ OwnersGetIn'
    BY <2>2, <2>3 DEF RefusedForms, InternalMeansBlanks, OwnersGetIn
  <2>. QED
    BY <2>1, <2>4 DEF Inv
<1>. QED
  BY <1>2, <1>3, <1>4 DEF SignUp

LEMMA RustSignUpKeeps ==
  ASSUME Inv, NEW o \in Origins, NEW f \in Forms, RustSignUp(o, f)
  PROVE  Inv'
<1>1. o = "client" => ClientSignUp(f)
  BY DEF RustSignUp
<1>2. Table'
  <2>1. CASE Refuse("SignUp", "rust", o, f, "invalid")
    BY <2>1, RefuseTable DEF Inv, Backends, Answers
  <2>2. CASE RustValidSignUp(f) /\ Insert("rust", o, f)
    BY <1>1, <2>2, InsertTable DEF Inv, Backends
  <2>. QED
    BY <2>1, <2>2 DEF RustSignUp
<1>3. last'.op = "SignUp" /\ last'.backend = "rust"
  BY DEF RustSignUp, Insert, Refuse
<1>. QED
  BY <1>2, <1>3 DEF Inv, RefusedForms, InternalMeansBlanks, OwnersGetIn

\* Who types the address and the password of a row, and is not turned away for
\* the form of them, is let in.
LEMMA OwnerIsFound ==
  ASSUME Table, NEW l \in Logins, NEW u \in Ids,
         l.email = owner[u].form.email, l.pwd = owner[u].form.pwd,
         Length(l.email) <= MaxEmail
  PROVE  LoginReply(l, TRUE) = "ok"
<1>1. users[u] = RowOf(owner[u].form)
  BY DEF Table, AsTyped
<1>2. users[u].email = l.email /\ users[u].pwd = l.pwd
  BY <1>1, ShortStays DEF RowOf
<1>. QED
  BY <1>2 DEF LoginReply, Holders

\* The backend that took the form takes its address and its password again.
LEMMA OwnerIsValid ==
  ASSUME Table, NEW l \in Logins, NEW u \in Ids,
         l.email = owner[u].form.email, l.pwd = owner[u].form.pwd
  PROVE  /\ owner[u].backend = "go" =>
              ValidateEmail(l.email) /\ Bytes(l.pwd) > 0
         /\ owner[u].backend = "rust" =>
              RustEmail(l.email) /\ Characters(l.pwd) > 0
<1>1. Bytes(l.pwd) \in Nat /\ Characters(l.pwd) \in Nat
  BY LoginTyped, PasswordSizes
<1>2. CASE owner[u].backend = "go"
  <2>1. ValidateEmail(l.email) /\ ValidatePassword(l.pwd)
    BY <1>2 DEF Table, AsTyped, ValidSignUp
  <2>. QED
    BY <1>1, <1>2, <2>1, Limits DEF ValidatePassword
<1>3. CASE owner[u].backend = "rust"
  <2>1. RustEmail(l.email) /\ RustPassword(l.pwd)
    BY <1>3 DEF Table, AsTyped, RustValidSignUp
  <2>. QED
    BY <1>1, <1>3, <2>1, Limits DEF RustPassword
<1>. QED
  BY <1>2, <1>3

\* Logins of either backend: b takes what is valid.
LEMMA LoginKeeps ==
  ASSUME Inv, NEW o \in Origins, NEW l \in Logins, NEW b \in Backends,
         NEW valid \in BOOLEAN,
         o = "client" => ClientLogin(l),
         b = "go" => valid = (ValidateEmail(l.email) /\ Bytes(l.pwd) > 0),
         b = "rust" => valid = (RustEmail(l.email) /\ Characters(l.pwd) > 0),
         Refuse("Login", b, o, l, LoginReply(l, valid))
  PROVE  Inv'
<1>. DEFINE reply == LoginReply(l, valid)
<1>1. reply \in {"ok", "invalid", "unauthenticated"}
      /\ (reply = "invalid" <=> ~valid)
  BY DEF LoginReply
<1>2. Table'
  <2>. HIDE DEF reply
  <2>. QED
    BY <1>1, RefuseTable DEF Inv, Answers, reply
<1>3. /\ last'.op = "Login" /\ last'.backend = b /\ last'.origin = o
      /\ last'.form = l /\ last'.reply = reply
      /\ UNCHANGED <<users, owner>>
  BY DEF Refuse
<1>4. RefusedForms'
  <2>. SUFFICES ASSUME o = "client", b = "go", reply = "invalid"
                PROVE  l.email.length > MaxEmail
    BY <1>3 DEF RefusedForms
  <2>1. ~(ValidateEmail(l.email) /\ Bytes(l.pwd) > 0)
    BY <1>1
  <2>2. ClientEmail(l.email) /\ ClientPassword(l.pwd)
    BY DEF ClientLogin
  <2>3. l.pwd \in Passwords /\ l.email.length \in Nat
    BY LoginTyped DEF Spaced
  <2>. QED
    BY <2>1, <2>2, <2>3, ClientEmailEnough, ClientPasswordEnough, Limits
<1>5. InternalMeansBlanks'
  BY <1>1, <1>3 DEF InternalMeansBlanks
<1>6. OwnersGetIn'
  <2>. SUFFICES ASSUME NEW u \in Ids, l.email = owner[u].form.email,
                       l.pwd = owner[u].form.pwd,
                       ~(Length(l.email) > MaxEmail)
                PROVE  reply = "ok" \/ (reply = "invalid" /\ b # owner[u].backend)
    BY <1>3 DEF OwnersGetIn, Ids
  <2>1. Length(l.email) <= MaxEmail
    BY LoginTyped, Limits DEF Spaced, Length
  <2>2. CASE valid
    <3>1. reply = LoginReply(l, TRUE)
      BY <2>2
    <3>. HIDE DEF reply
    <3>. QED
      BY <2>1, <3>1, OwnerIsFound DEF Inv
  <2>3. CASE ~valid
    <3>1. b # owner[u].backend
      BY <2>3, OwnerIsValid DEF Inv, Backends
    <3>. QED
      BY <1>1, <2>3, <3>1
  <2>. QED
    BY <2>2, <2>3
<1>. QED
  BY <1>2, <1>4, <1>5, <1>6 DEF Inv

LEMMA NextKeeps == Inv /\ [Next]_vars => Inv'
<1>. SUFFICES ASSUME Inv, [Next]_vars PROVE Inv'
  OBVIOUS
<1>1. CASE UNCHANGED vars
  BY <1>1 DEF Inv, vars, Table, TypeOK, AsTyped, Ids, RefusedForms,
              InternalMeansBlanks, OwnersGetIn
<1>2. CASE Answered
  BY <1>2 DEF Inv, Answered, Table, TypeOK, AsTyped, Ids, RefusedForms,
              InternalMeansBlanks, OwnersGetIn
<1>3. ASSUME NEW o \in Origins, NEW f \in Forms, SignUp(o, f) \/ RustSignUp(o, f)
      PROVE  Inv'
  BY <1>3, SignUpKeeps, RustSignUpKeeps
<1>4. ASSUME NEW o \in Origins, NEW l \in Logins, Login(o, l)
      PROVE  Inv'
  BY <1>4, LoginKeeps DEF Login, Backends
<1>5. ASSUME NEW o \in Origins, NEW l \in Logins, RustLogin(o, l)
      PROVE  Inv'
  BY <1>5, LoginKeeps DEF RustLogin, Backends
<1>. QED
  BY <1>1, <1>2, <1>3, <1>4, <1>5 DEF Next, Request

LEMMA InvAlways == Spec => []Inv
BY InitHolds, NextKeeps, PTL DEF Spec
----------------------------------------------------------------------------
\* Every row fits its columns, and no two hold one text as their address.
THEOREM TypeCorrect == Spec => []TypeOK
BY InvAlways, PTL DEF Inv, Table

\* A form the client lets through is refused by the Go backend only for one of
\* the maxima or for a tab in a name, whatever the limits are
\* (name_input.dart:9, validation.go:108-116).
THEOREM RefusalsAreNamed == Spec => []RefusedForms
BY InvAlways, PTL DEF Inv

\* A valid sign-up that fails in the table was typed with blanks around one of
\* its texts (validation.go:19, 93, service.go:83-91).
THEOREM FailuresAreBlanks == Spec => []InternalMeansBlanks
BY InvAlways, PTL DEF Inv

\* The texts of a sign-up let their owner in again, but for an address the
\* column has cut and for the other backend's rule (requests.rs:35).
THEOREM OwnersEnter == Spec => []OwnersGetIn
BY InvAlways, PTL DEF Inv
=============================================================================
