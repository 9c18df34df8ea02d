------------------------------ MODULE Settings ------------------------------
(***************************************************************************)
(* What the settings of the Go backend do (backend/internal/config): how   *)
(* environment variables become values, and what those values do to        *)
(* password hashes, the login counter, sessions and keys, over restarts    *)
(* with other settings.                                                    *)
(*                                                                         *)
(* A process serves one account, whose stored hash and login counter stay  *)
(* when it is gone.  Time is counted in half seconds.  The widths of uint8 *)
(* and uint32 are constants, so that TLC can take small ones.  Of the      *)
(* store calls only SetRefreshToken may fail: AuthService has the others.  *)
(***************************************************************************)
EXTENDS Integers

CONSTANTS
  Passwords,
  Environments,  \* environments a process may be started in
  Unset,         \* a variable that is not there, or empty
  Garbled,       \* a text that is no number and no duration
  None,          \* no hash, no session, no process, no file
  Torn,          \* a file that was opened and not written
  Writers,       \* runs of GenerateKeyPair that may be under way at once
  MaxKeys,       \* key pairs they may draw
  Width8,        \* 2^8
  Width32        \* 2^32

Second == 2

Numbers == {"ARGON2_ITERATIONS", "ARGON2_PARALLELISM", "ARGON2_KEY_LENGTH",
            "MAX_LOGIN_ATTEMPTS", "LOCKOUT_DURATION",
            "JWT_REFRESH_TOKEN_EXPIRY"}
Texts == {"JWT_PRIVATE_KEY_PATH", "JWT_PUBLIC_KEY_PATH", "DB_USER"}

ASSUME SettingsAssumption ==
  /\ Width8 \in Nat /\ Width8 > 2 /\ Width32 \in Nat /\ Width32 > 32
  /\ MaxKeys \in Nat
  /\ Unset \notin Int /\ Garbled \notin Int /\ None \notin Int
  /\ Torn \notin Int /\ Torn # None /\ Garbled # Unset
  /\ \A e \in Environments :
       e \in [Numbers \cup Texts -> Int \cup {Unset, Garbled}]

VARIABLES
  env,       \* the environment of the process, or of the one that panicked
  cfg,       \* its Config, None when no process runs
  keys,      \* the keys it has read, and whether they are the two files of
             \* one undisturbed write
  disk,      \* the two key files
  writer,    \* GenerateKeyPair
  drawn,     \* key pairs drawn so far
  whole,     \* history: the files were last written by one run alone
  stored,    \* the encoded hash of the account
  owner,     \* history: the password it was made from
  attempts,  \* the login counter, 0 for no key
  session,   \* history: TTL of the session this process stored last, 0 for none
  reply      \* how the last request ended, "unsaved" for the internal error of
             \* a failed SetRefreshToken

keyVars == <<disk, writer, drawn, whole>>
processVars == <<env, cfg, keys>>
accountVars == <<stored, owner, attempts, session>>
vars == <<processVars, keyVars, accountVars, reply>>
----------------------------------------------------------------------------
(* config.go *)

getEnv(e, name, default) == IF e[name] = Unset THEN default ELSE e[name]

\* Mutated form: the value that comes with the error.
getEnvAsIntOrZero(e, name, default) ==
  IF e[name] = Unset THEN default ELSE IF e[name] \in Int THEN e[name] ELSE 0

\* A text that does not parse counts as no text.
getEnvAsInt(e, name, default) == IF e[name] \in Int THEN e[name] ELSE default

getEnvAsDuration(e, name, default) ==
  IF e[name] \in Int THEN e[name] ELSE default

\* Mutated form: a conversion that keeps the sign.
Int8(n) == (n + Width8 \div 2) - Width8 \div 2

\* Conversions to unsigned types cut off what does not fit.
uint8(n) == n % Width8
uint32(n) == n % Width32

\* The durations of the defaults, 15 minutes and more, are all "long".
Long == 10 * Second

\* The settings that are read and do more than cost memory, as Load converts
\* them.
Load(e) ==
  [user |-> getEnv(e, "DB_USER", "postgres"),
   private |-> getEnv(e, "JWT_PRIVATE_KEY_PATH", None),
   public |-> getEnv(e, "JWT_PUBLIC_KEY_PATH", None),
   iterations |-> uint32(getEnvAsInt(e, "ARGON2_ITERATIONS", 3)),
   parallelism |-> uint8(getEnvAsInt(e, "ARGON2_PARALLELISM", 2)),
   keyLength |-> uint32(getEnvAsInt(e, "ARGON2_KEY_LENGTH", 32)),
   maxAttempts |-> getEnvAsInt(e, "MAX_LOGIN_ATTEMPTS", 5),
   lockout |-> getEnvAsDuration(e, "LOCKOUT_DURATION", Long),
   refreshExpiry |-> getEnvAsDuration(e, "JWT_REFRESH_TOKEN_EXPIRY", Long)]

\* Validate asks for a user, a database and an issuer, which Load never
\* leaves empty.
Validate(c) == c.user # Unset
----------------------------------------------------------------------------
(* password.go *)

\* argon2 panics for zero passes, lanes or bytes.
Panics(c) == c.iterations < 1 \/ c.parallelism < 1 \/ c.keyLength < 1

\* argon2.IDKey: different for different inputs.
IDKey(p, t, lanes, len) ==
  [password |-> p, t |-> t, lanes |-> lanes, len |-> len]

\* The encoded hash names the parameters it was made with.
Encode(p, t, lanes, len) ==
  [t |-> t, lanes |-> lanes, hash |-> IDKey(p, t, lanes, len)]

Hash(p) == Encode(p, cfg.iterations, cfg.parallelism, cfg.keyLength)

\* backend-rust/src/utils/password.rs: Argon2::default().
RustHash(p) == Encode(p, 2, 1, 32)

\* Mutated form: the parameters of the settings.
VerifyAsConfigured(p, h) ==
  h.hash = IF cfg = None THEN IDKey(p, h.t, h.lanes, h.hash.len)
           ELSE IDKey(p, cfg.iterations, cfg.parallelism, h.hash.len)

\* Verify takes the parameters and the length from the stored hash.
Verify(p, h) == IDKey(p, h.t, h.lanes, h.hash.len) = h.hash
----------------------------------------------------------------------------
(* jwt.go *)

\* Key files count only if both are named; otherwise a pair is drawn.
FromFiles(c) == c.private # None /\ c.public # None

Loadable(file) == file \notin {None, Torn}

\* Whether a token signed half a second (or none) past a full second is valid
\* when it is read, so much later: NewNumericDate cuts its expiry to seconds.
Alive(expiry, past, later) ==
  past + later < ((past + expiry) \div Second) * Second

\* Mutated form: the ID is read without validating the token.
GetTokenIDUnchecked(past, later) == keys.private = keys.public

\* GetTokenID validates the refresh token that has just been signed.
GetTokenID(past, later) ==
  keys.private = keys.public /\ Alive(cfg.refreshExpiry, past, later)
----------------------------------------------------------------------------
(* redis.go and its client library *)

\* Mutated form: whole seconds.
ExpireSecondsCut(d) == d \div Second

\* EXPIRE counts in seconds, and a positive part of one counts as one.
ExpireSeconds(d) == IF d > 0 /\ d < Second THEN 1 ELSE d \div Second

\* TrackLoginAttempt: EXPIRE of no seconds or fewer deletes the counter.
TrackLoginAttempt ==
  IF attempts = 0 /\ ExpireSeconds(cfg.lockout) <= 0 THEN 0 ELSE attempts + 1

\* SET without EX or PX unless the TTL is positive.
SetTTL(d) == IF d > 0 THEN d ELSE 0
----------------------------------------------------------------------------
\* main is between the two key files, or past them.
Loading == cfg # None /\ keys.public = None
Serving == cfg # None /\ keys.public # None

NoKeys == [private |-> None, public |-> None, clean |-> FALSE]
DrawnKeys == [private |-> 0, public |-> 0, clean |-> TRUE]

Init ==
  /\ env = None /\ cfg = None /\ keys = NoKeys
  /\ disk = [file \in {"private", "public"} |-> None]
  /\ writer = [w \in Writers |-> None] /\ drawn = 0 /\ whole = FALSE
  /\ stored = None /\ owner = None /\ attempts = 0 /\ session = None
  /\ reply = "none"

\* The process starts and reads the private key, if it is to read files; it
\* does not start if it cannot.
Boot(e) ==
  /\ cfg = None
  /\ LET c == Load(e) IN
       /\ Validate(c)
       /\ FromFiles(c) => Loadable(disk.private)
       /\ cfg' = c
       /\ keys' = IF FromFiles(c)
                  THEN [private |-> disk.private, public |-> None,
                        clean |-> whole]
                  ELSE DrawnKeys
  /\ env' = e
  /\ reply' = "none"
  /\ UNCHANGED <<keyVars, accountVars>>

Stop ==
  /\ cfg # None
  /\ env' = None /\ cfg' = None /\ keys' = NoKeys
  /\ session' = None /\ reply' = "none"
  /\ UNCHANGED <<keyVars, stored, owner, attempts>>

\* Then the public key; a process that cannot read it ends.
LoadPublicKey ==
  /\ Loading
  /\ \/ ~Loadable(disk.public) /\ Stop
     \/ /\ Loadable(disk.public)
        /\ keys' = [keys EXCEPT !.public = disk.public]
        /\ UNCHANGED <<env, cfg, keyVars, accountVars, reply>>

\* SignUp and ResetPassword hash; nothing recovers from a panic.
SetPassword(p) ==
  /\ Serving
  /\ IF Panics(cfg)
     THEN /\ cfg' = None /\ keys' = NoKeys /\ session' = None /\ reply' = "panic"
          /\ UNCHANGED <<env, keyVars, stored, owner, attempts>>
     ELSE /\ stored' = Hash(p) /\ owner' = p /\ reply' = "ok"
          /\ UNCHANGED <<processVars, keyVars, attempts, session>>

\* The same account through the Rust backend, which has no settings for this.
RustSetPassword(p) ==
  /\ stored' = RustHash(p) /\ owner' = p /\ reply' = "none"
  /\ UNCHANGED <<processVars, keyVars, attempts, session>>

\* Login: the counter, the comparison, and the session under the ID of its
\* refresh token, which takes less than a second to sign.  The counter is
\* capped one above its limit.
Login(p, past, later) ==
  /\ Serving /\ stored # None
  /\ \/ /\ attempts + 1 > cfg.maxAttempts
        /\ reply' = "locked"
        /\ attempts' = IF attempts > cfg.maxAttempts THEN attempts
                                                     ELSE TrackLoginAttempt
        /\ UNCHANGED session
     \/ /\ attempts + 1 <= cfg.maxAttempts /\ ~Verify(p, stored)
        /\ reply' = "unauthenticated"
        /\ attempts' = TrackLoginAttempt
        /\ UNCHANGED session
     \/ /\ attempts + 1 <= cfg.maxAttempts /\ Verify(p, stored)
        /\ attempts' = 0
        /\ \/ ~GetTokenID(past, later) /\ reply' = "internal" /\ UNCHANGED session
           \/ /\ GetTokenID(past, later)
              /\ reply' = "ok" /\ session' = SetTTL(cfg.refreshExpiry)
           \/ /\ GetTokenID(past, later)
              /\ reply' = "unsaved"
              /\ session' \in {session, SetTTL(cfg.refreshExpiry)}
  /\ UNCHANGED <<processVars, keyVars, stored, owner>>

\* Redis: the counter, which has a TTL, goes away.
Expires ==
  /\ attempts > 0 /\ attempts' = 0
  /\ reply' = "none"
  /\ UNCHANGED <<processVars, keyVars, stored, owner, session>>
----------------------------------------------------------------------------
(* GenerateKeyPair: one file, then the other *)

Idle(w) == writer[w] = None

\* A process between the two files will not have read those of one write.
DisturbReader ==
  keys' = IF keys.public = None THEN [keys EXCEPT !.clean = FALSE] ELSE keys

\* A run that begins disturbs those under way, and they it.
Draw(w) ==
  /\ Idle(w) /\ drawn < MaxKeys
  /\ drawn' = drawn + 1
  /\ writer' = [v \in Writers |->
       IF v = w THEN [key |-> drawn + 1, at |-> "private",
                      alone |-> \A u \in Writers : Idle(u)]
       ELSE IF Idle(v) THEN None ELSE [writer[v] EXCEPT !.alone = FALSE]]
  /\ UNCHANGED <<disk, whole, processVars, accountVars, reply>>

\* Mutated form: a private key that is there is kept.
WritePrivateOnce(w) ==
  /\ ~Idle(w) /\ writer[w].at = "private"
  /\ disk' = IF Loadable(disk.private) THEN disk
             ELSE [disk EXCEPT !.private = writer[w].key]
  /\ writer' = [writer EXCEPT ![w].at = "public"]
  /\ whole' = FALSE /\ DisturbReader
  /\ UNCHANGED <<drawn, env, cfg, accountVars, reply>>

WritePrivate(w) ==
  /\ ~Idle(w) /\ writer[w].at = "private"
  /\ disk' = [disk EXCEPT !.private = writer[w].key]
  /\ writer' = [writer EXCEPT ![w].at = "public"]
  /\ whole' = FALSE /\ DisturbReader
  /\ UNCHANGED <<drawn, env, cfg, accountVars, reply>>

WritePublic(w) ==
  /\ ~Idle(w) /\ writer[w].at = "public"
  /\ disk' = [disk EXCEPT !.public = writer[w].key]
  /\ writer' = [writer EXCEPT ![w] = None]
  /\ whole' = writer[w].alone /\ DisturbReader
  /\ UNCHANGED <<drawn, env, cfg, accountVars, reply>>

\* A write fails or the run is killed: before the file was opened, or after it
\* was emptied.
Interrupt(w) ==
  /\ ~Idle(w)
  /\ writer' = [writer EXCEPT ![w] = None]
  /\ \/ UNCHANGED <<disk, whole, keys>>
     \/ /\ disk' = [disk EXCEPT ![writer[w].at] = Torn]
        /\ whole' = FALSE /\ DisturbReader
  /\ UNCHANGED <<drawn, env, cfg, accountVars, reply>>
----------------------------------------------------------------------------
Next ==
  \/ \E e \in Environments : Boot(e)
  \/ LoadPublicKey \/ Stop \/ Expires
  \/ \E p \in Passwords : SetPassword(p) \/ RustSetPassword(p)
  \/ \E p \in Passwords, past, later \in 0..1 : Login(p, past, later)
  \/ \E w \in Writers :
       Draw(w) \/ WritePrivate(w) \/ WritePublic(w) \/ Interrupt(w)

Spec == Init /\ [][Next]_vars
----------------------------------------------------------------------------
(* Properties *)

TypeOK ==
  /\ env \in Environments \cup {None}
  /\ cfg = None \/
       /\ env \in Environments /\ cfg = Load(env)
       /\ cfg.iterations \in 0..(Width32 - 1)
       /\ cfg.parallelism \in 0..(Width8 - 1)
  /\ keys \in [private : 0..drawn \cup {None}, public : 0..drawn \cup {None},
               clean : BOOLEAN]
  /\ drawn \in 0..MaxKeys /\ whole \in BOOLEAN
  /\ disk \in [{"private", "public"} -> 1..drawn \cup {None, Torn}]
  /\ writer \in [Writers -> {None} \cup
       [key : 1..drawn, alone : BOOLEAN,
        at : {"private", "public"}]]
  /\ owner \in Passwords \cup {None}
  /\ attempts \in Nat /\ session \in Nat \cup {None}
  /\ reply \in {"none", "ok", "panic", "locked", "unauthenticated", "internal",
               "unsaved"}

\* A stored hash verifies the password it was made from and no other, under
\* whatever settings the process has been started since, and whichever backend
\* made it (password.go:46-55,79-104): the parameters are read from the hash.
HashesVerify ==
  stored # None =>
    \A p \in Passwords : Verify(p, stored) <=> p = owner

\* A request takes the process down only if a variable of Argon2 is a number
\* below 1 or wider than its type (config.go:145-148); one that is missing,
\* empty or no number does no harm.  (What a huge memory or salt does to the
\* machine is left out.)
PanicsAreOutOfRange ==
  reply = "panic" =>
    \E name \in {"ARGON2_ITERATIONS", "ARGON2_PARALLELISM", "ARGON2_KEY_LENGTH"} :
      env[name] \in Int /\ ~(0 < env[name] /\ env[name] <
         IF name = "ARGON2_PARALLELISM" THEN Width8 ELSE Width32)

\* No session is stored without a TTL: a JWT_REFRESH_TOKEN_EXPIRY for which
\* SET would leave it out (redis.go:63-65) makes GetTokenID fail first
\* (service.go:166-169).
SessionsExpire == session # None => session > 0

\* While Redis keeps what it is sent (service.go:171), a login whose password is
\* right fails after it has been verified only with a refresh token of less than
\* two seconds, which may be over before its ID is read, or with key files that
\* a run of GenerateKeyPair was writing: two at once, one that was interrupted,
\* or one that wrote between the two reads of jwt.New (jwt.go:39,44,187-218).
\* Files written by one run, and read when nobody writes, belong together.
RightLoginsEnd ==
  reply = "internal" => cfg.refreshExpiry < 2 * Second \/ ~keys.clean

\* A failed login stays counted under any positive LOCKOUT_DURATION, however
\* short, and none is locked out on the first attempt unless
\* MAX_LOGIN_ATTEMPTS is below 1 (redis.go:158-163, service.go:127).
FailuresCount ==
  [][/\ reply' = "unauthenticated" /\ cfg.lockout > 0 => attempts' > attempts
     /\ reply' = "locked" /\ attempts = 0 => cfg.maxAttempts < 1]_<<attempts, reply>>
=============================================================================
