--------------------------- MODULE AuthRefinement ---------------------------
(***************************************************************************)
(* AuthService implements AuthContract.  The statement that decides a      *)
(* request is, for SignUp, the INSERT, or the EmailExists that found a     *)
(* row; for Login and ForgotPassword GetByEmail; for ResetPassword the GET *)
(* of its token and then the UPDATE; for ValidateToken GetByID.            *)
(***************************************************************************)
EXTENDS AuthService

\* The Go backend makes every promise of the contract.
AllPromises == {"active", "spent", "changed", "sessions"}

C == INSTANCE AuthContract WITH
       Badges <- AccessTokens,
       Promises <- AllPromises,
       accounts <- users,
       grants <- resets,
       sessions <- refresh,
       badges <- {t \in issued : t.gen = key.gen},
       signing <- key.mode # "mixed",
       requests <- [c \in Calls |-> Abstract(calls[c])]

\* Every reply of the service (service.go:48-313) is justified by the accounts,
\* grants and sessions of one instant of its call, however the handlers
\* interleave at the stores.
Contract == C!CSpec
=============================================================================
