----------------------------- MODULE MCRecords -----------------------------
(* Records for TLC: a form every rule takes, and forms that differ from it   *)
(* in one field, at the values worth telling apart.                          *)
EXTENDS Records, TLC

Plain == [lead |-> 0, trail |-> 0, blank |-> "space"]

Address(mailbox, length) ==
  Plain @@ [mailbox |-> mailbox, length |-> length, capitals |-> {},
            formed |-> {"pattern", "html"}]

Short == Address("short", 3)
Full == Address("full", MaxEmail)

MCMailboxes == {"short", "full", "long", "local", "dots", "empty"}

MCEmails ==
  {Short, [Short EXCEPT !.capitals = {1}], [Short EXCEPT !.lead = 1],
   [Short EXCEPT !.trail = 1], [Short EXCEPT !.trail = 1, !.blank = "tab"],
   Full, [Full EXCEPT !.lead = 1], [Full EXCEPT !.trail = 1],
   [Full EXCEPT !.trail = 1, !.blank = "tab"],
   Address("long", MaxEmail + 1),
   [Address("local", 3) EXCEPT !.formed = {"html"}],
   [Address("dots", 3) EXCEPT !.formed = {"pattern"}],
   [Address("empty", 0) EXCEPT !.formed = {}]}

NameOf(length) == Plain @@ [length |-> length, within |-> {}]

MCNames ==
  {NameOf(0), NameOf(1), NameOf(MaxName), NameOf(MaxName + 1),
   [NameOf(1) EXCEPT !.lead = 1],
   [NameOf(MaxName) EXCEPT !.lead = 1], [NameOf(MaxName) EXCEPT !.trail = 1],
   [NameOf(3) EXCEPT !.trail = 1, !.blank = "tab"],
   [NameOf(3) EXCEPT !.within = {"space"}],
   [NameOf(3) EXCEPT !.within = {"tab"}],
   [NameOf(3) EXCEPT !.within = {"other"}]}

\* Small enough that each class can be the one missing.
Password(u, l, d, s, p, w) ==
  [upper |-> u, lower |-> l, digit |-> d, special |-> s, punct |-> p, wide |-> w]

MCPasswords ==
  {Password(1, 2, 1, 0, 1, 0), Password(1, 1, 1, 1, 0, 0),
   Password(1, 1, 1, 1, 0, 1), Password(1, 3, 1, 1, 0, 1),
   Password(1, 4, 1, 1, 0, 0), Password(1, 4, 1, 1, 0, 1),
   Password(0, 3, 1, 1, 0, 0), Password(3, 0, 1, 1, 0, 0),
   Password(1, 3, 0, 1, 0, 0), Password(1, 3, 1, 0, 0, 0),
   Password(0, 0, 0, 0, 0, 5), Password(0, 0, 0, 0, 0, 0)}

Good == [email |-> Short, pwd |-> Password(1, 2, 1, 1, 0, 0),
         first |-> NameOf(MinName), last |-> NameOf(MinName)]

MCForms ==
  {Good}
    \cup {[Good EXCEPT !.email = e] : e \in MCEmails}
    \cup {[Good EXCEPT !.pwd = p] : p \in MCPasswords}
    \cup {[Good EXCEPT !.first = n] : n \in MCNames}
    \cup {[Good EXCEPT !.last = n] : n \in MCNames}

MCLogins == {[email |-> f.email, pwd |-> f.pwd] : f \in MCForms}

Symmetry == Permutations(UserIds)
=============================================================================
