----------------------------- MODULE MCSettings -----------------------------
(* Settings for TLC: the defaults, and each variable in turn at the values   *)
(* worth telling apart.                                                      *)
EXTENDS Settings, TLC

\* One attempt is allowed, so that the counter has few values.
Base == [[name \in Numbers \cup Texts |-> Unset] EXCEPT !["MAX_LOGIN_ATTEMPTS"] = 1]

KeyFiles == [Base EXCEPT !["JWT_PRIVATE_KEY_PATH"] = 1,
                         !["JWT_PUBLIC_KEY_PATH"] = 1]

Values ==
  [ARGON2_ITERATIONS |-> {Garbled, 0, 1, Width32},
   ARGON2_PARALLELISM |-> {-1, 0, Width8, Width8 + 1},
   ARGON2_KEY_LENGTH |-> {0, 16},
   MAX_LOGIN_ATTEMPTS |-> {0, 2},
   LOCKOUT_DURATION |-> {Garbled, -1, 0, 1},
   JWT_REFRESH_TOKEN_EXPIRY |-> {Garbled, 0, 1, 2 * Second},
   JWT_PRIVATE_KEY_PATH |-> {1},
   JWT_PUBLIC_KEY_PATH |-> {1},
   DB_USER |-> {1}]

MCEnvironments ==
  {Base, KeyFiles, [KeyFiles EXCEPT !["JWT_REFRESH_TOKEN_EXPIRY"] = 0]}
    \cup UNION {{[Base EXCEPT ![name] = v] : v \in Values[name]} :
                name \in DOMAIN Values}

\* Runs of GenerateKeyPair are interchangeable, and so are passwords.
Symmetry == Permutations(Writers) \cup Permutations(Passwords)
=============================================================================
