----------------------------- MODULE RustParity -----------------------------
(***************************************************************************)
(* "We aim to achieve feature parity with the Go backend"                  *)
(* (docs/go-rust-migrate.md:4): the contract with the promises the Go      *)
(* backend makes and the Rust backend does not.                            *)
(***************************************************************************)
EXTENDS RustRefinement

Active == INSTANCE AuthContract WITH
  Badges <- AccessTokens, Promises <- {"active"},
  accounts <- users, grants <- resets,
  sessions <- [c \in Calls |-> Session(c)], badges <- issued,
  signing <- TRUE, requests <- [c \in Calls |-> Abstract(calls[c])]

Spent == INSTANCE AuthContract WITH
  Badges <- AccessTokens, Promises <- {"spent"},
  accounts <- users, grants <- resets,
  sessions <- [c \in Calls |-> Session(c)], badges <- issued,
  signing <- TRUE, requests <- [c \in Calls |-> Abstract(calls[c])]

Changed == INSTANCE AuthContract WITH
  Badges <- AccessTokens, Promises <- {"changed"},
  accounts <- users, grants <- resets,
  sessions <- [c \in Calls |-> Session(c)], badges <- issued,
  signing <- TRUE, requests <- [c \in Calls |-> Abstract(calls[c])]

Sessions == INSTANCE AuthContract WITH
  Badges <- AccessTokens, Promises <- {"sessions"},
  accounts <- users, grants <- resets,
  sessions <- [c \in Calls |-> Session(c)], badges <- issued,
  signing <- TRUE, requests <- [c \in Calls |-> Abstract(calls[c])]

\* As the Go service does (service.go:138): a login is let in only while the
\* account is active.
TurnsInactiveAway == Active!CSpec

\* As the Go service does (service.go:262): a reset answered ok has used its
\* grant up.
SpendsGrants == Spent!CSpec

\* As the Go service does (service.go:256, user.go:210): a reset is answered ok
\* only if it has changed the password of an account.
ChangesSomething == Changed!CSpec

\* As the Go service does (redis.go:115, a key for each token): a login leaves
\* the other sessions of its account alone.
KeepsSessions == Sessions!CSpec

\* Feature parity (docs/go-rust-migrate.md:4) in all four.
KeepsGoPromises ==
  /\ TurnsInactiveAway
  /\ SpendsGrants
  /\ ChangesSomething
  /\ KeepsSessions
=============================================================================
