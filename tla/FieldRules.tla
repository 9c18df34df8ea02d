----------------------------- MODULE FieldRules -----------------------------
(***************************************************************************)
(* Which addresses, names and passwords the Go backend, the Rust backend   *)
(* and the forms of the client take.  A text is seen as far as a rule      *)
(* looks at it: its lengths, the blanks around it, and the classes of its  *)
(* characters.  The limits are constants, so that TLC can take small ones. *)
(***************************************************************************)
EXTENDS Naturals

CONSTANTS
  MaxEmail,     \* 255
  MinPassword,  \* 8
  MaxPassword,  \* 128
  MinName,      \* 2
  MaxName       \* 100

ASSUME LimitsAssumption ==
  {MaxEmail, MinPassword, MaxPassword, MinName, MaxName} \subseteq Nat \ {0}

\* A text between blanks: spaces, or other white space ("tab").  Names are
\* letters but for what is "within".
Names ==
  [lead : Nat, length : Nat, trail : Nat, blank : {"space", "tab"},
   within : SUBSET {"space", "tab", "other"}]

Length(t) == t.lead + t.length + t.trail
Blanks(t) == t.lead + t.trail

TrimSpace(t) == [t EXCEPT !.lead = 0, !.trail = 0, !.blank = "space"]

\* Characters of a password by class: "special" is what both the client and
\* the server call special, "punct" the rest of the server's ranges, "wide" a
\* letter outside ASCII, two bytes long and one unit of UTF-16.
Passwords ==
  [upper : Nat, lower : Nat, digit : Nat, special : Nat, punct : Nat, wide : Nat]

Characters(p) == p.upper + p.lower + p.digit + p.special + p.punct + p.wide
Bytes(p) == Characters(p) + p.wide
----------------------------------------------------------------------------
(* backend/internal/auth/validation.go *)

\* Mutated form: no maximum.
ValidateEmailAnyLength(e) == "pattern" \in e.formed

\* A trimmed copy is looked at.
ValidateEmail(e) ==
  /\ Length(TrimSpace(e)) \in 1..MaxEmail
  /\ "pattern" \in e.formed

AllClasses(p) ==
  p.upper > 0 /\ p.lower > 0 /\ p.digit > 0 /\ p.special + p.punct > 0

\* len counts bytes.
ValidatePassword(p) == Bytes(p) \in MinPassword..MaxPassword /\ AllClasses(p)

\* Of what is neither letter, hyphen nor apostrophe, only spaces.
ValidateName(n) ==
  /\ Length(TrimSpace(n)) \in MinName..MaxName
  /\ n.within \subseteq {"space"}
----------------------------------------------------------------------------
(* The client's forms: the same pattern, on what was typed; no maximum. *)

ClientEmail(e) == Blanks(e) = 0 /\ "pattern" \in e.formed

ClientPassword(p) ==
  /\ Characters(p) >= MinPassword
  /\ p.upper > 0 /\ p.lower > 0 /\ p.digit > 0 /\ p.special > 0

\* Mutated form: the length of what was typed.
ClientNameTyped(n) == Length(n) >= MinName /\ n.within \subseteq {"space", "tab"}

\* \s stands for any white space.
ClientName(n) ==
  Length(TrimSpace(n)) >= MinName /\ n.within \subseteq {"space", "tab"}
----------------------------------------------------------------------------
(* backend-rust/src/models/requests.rs; the rule for addresses is that of  *)
(* the validator library ("html").                                         *)

RustEmail(e) == Blanks(e) = 0 /\ "html" \in e.formed
RustPassword(p) == Characters(p) >= MinPassword
RustName(n) == Length(n) >= 1
=============================================================================
