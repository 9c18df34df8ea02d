--------------------------- MODULE RustRefinement ---------------------------
(***************************************************************************)
(* RustAuth implements AuthContract, without the promises that only the Go *)
(* backend makes.  The statement that decides a request is, for SignUp,    *)
(* the INSERT; for Login and ForgotPassword find_by_email; for             *)
(* ResetPassword the GET of its token and then the UPDATE; for             *)
(* ValidateToken find_by_id.                                               *)
(***************************************************************************)
EXTENDS RustAuth

\* The account the last login of slot c stored a session for.
Session(c) ==
  IF \E u \in UserIds : refresh[u] = c
    THEN CHOOSE u \in UserIds : refresh[u] = c
    ELSE None

C == INSTANCE AuthContract WITH
       Badges <- AccessTokens,
       Promises <- {},
       accounts <- users,
       grants <- resets,
       sessions <- [c \in Calls |-> Session(c)],
       badges <- issued,
       signing <- TRUE,
       requests <- [c \in Calls |-> Abstract(calls[c])]

\* Every reply of the service (main.rs:45-309) is justified by the accounts,
\* grants and sessions of one instant of its call.
Contract == C!CSpec
=============================================================================
