--------------------------- MODULE SettingsProofs ---------------------------
(***************************************************************************)
(* Proofs about Settings, for any environments, any number of passwords    *)
(* and of runs of GenerateKeyPair, and the real widths of uint8 and        *)
(* uint32.                                                                 *)
(***************************************************************************)
EXTENDS Settings, TLAPS

\* The stored hash was made from its owner, with some parameters.
Formed ==
  stored # None => \E t, lanes, len : stored = Encode(owner, t, lanes, len)

\* What a process knows whose key files nobody has disturbed: between the two
\* they are still a pair, and it has the first; past them it has both.
ReadsPair ==
  keys.clean =>
    IF keys.public = None
    THEN keys.private = disk["private"] /\ disk["private"] = disk["public"]
    ELSE keys.private = keys.public

\* Key files and the runs that write them: a run that is alone at its second
\* file has left the first as it wrote it.
KeyOrder ==
  /\ whole => disk["private"] = disk["public"]
  /\ ReadsPair
  /\ \A w \in Writers : ~Idle(w) /\ writer[w].alone =>
       /\ \A v \in Writers \ {w} : Idle(v)
       /\ writer[w].at = "public" => disk["private"] = writer[w].key

Inv ==
  /\ TypeOK /\ Formed /\ KeyOrder
  /\ PanicsAreOutOfRange /\ SessionsExpire /\ RightLoginsEnd

Run == [key : 1..drawn, alone : BOOLEAN, at : {"private", "public"}]

\* A number within the width of its type is not cut.
LEMMA Fits ==
  ASSUME NEW width \in Nat, NEW n \in Nat, n < width
  PROVE  n % width = n
  OBVIOUS

LEMMA Remainder ==
  ASSUME NEW width \in Nat \ {0}, NEW n \in Int
  PROVE  n % width \in 0..(width - 1)
  OBVIOUS

\* The settings are in the ranges their conversions leave them.
LEMMA LoadTyped ==
  ASSUME NEW e \in Environments
  PROVE  /\ Load(e).iterations \in 0..(Width32 - 1)
         /\ Load(e).parallelism \in 0..(Width8 - 1)
         /\ Load(e).keyLength \in 0..(Width32 - 1)
         /\ Load(e).maxAttempts \in Int /\ Load(e).lockout \in Int
         /\ Load(e).refreshExpiry \in Int
<1>1. \A name \in Numbers : \A d \in Int :
        getEnvAsInt(e, name, d) \in Int /\ getEnvAsDuration(e, name, d) \in Int
  BY DEF getEnvAsInt, getEnvAsDuration
<1>2. Width8 \in Nat \ {0} /\ Width32 \in Nat \ {0}
  BY SettingsAssumption
<1>3. \A n \in Int : uint8(n) \in 0..(Width8 - 1)
  BY <1>2, Remainder DEF uint8
<1>4. \A n \in Int : uint32(n) \in 0..(Width32 - 1)
  BY <1>2, Remainder DEF uint32
<1>5. /\ getEnvAsInt(e, "ARGON2_ITERATIONS", 3) \in Int
      /\ getEnvAsInt(e, "ARGON2_PARALLELISM", 2) \in Int
      /\ getEnvAsInt(e, "ARGON2_KEY_LENGTH", 32) \in Int
      /\ getEnvAsInt(e, "MAX_LOGIN_ATTEMPTS", 5) \in Int
  BY <1>1 DEF Numbers
<1>6. /\ getEnvAsDuration(e, "LOCKOUT_DURATION", Long) \in Int
      /\ getEnvAsDuration(e, "JWT_REFRESH_TOKEN_EXPIRY", Long) \in Int
  BY <1>1 DEF Numbers, Long, Second
<1>. QED
  BY <1>3, <1>4, <1>5, <1>6 DEF Load

\* argon2 panics only for a variable that is a number out of range.
LEMMA PanicsOutOfRange ==
  ASSUME NEW e \in Environments, Panics(Load(e))
  PROVE  \E name \in {"ARGON2_ITERATIONS", "ARGON2_PARALLELISM", "ARGON2_KEY_LENGTH"} :
           e[name] \in Int /\ ~(0 < e[name] /\ e[name] <
              IF name = "ARGON2_PARALLELISM" THEN Width8 ELSE Width32)
<1>1. ASSUME NEW width \in Nat, NEW name \in Numbers, NEW d \in Nat,
             0 < d, d < width, getEnvAsInt(e, name, d) % width < 1
      PROVE  e[name] \in Int /\ ~(0 < e[name] /\ e[name] < width)
  BY <1>1, Fits DEF getEnvAsInt
<1>2. \/ uint32(getEnvAsInt(e, "ARGON2_ITERATIONS", 3)) < 1
      \/ uint8(getEnvAsInt(e, "ARGON2_PARALLELISM", 2)) < 1
      \/ uint32(getEnvAsInt(e, "ARGON2_KEY_LENGTH", 32)) < 1
  BY DEF Panics, Load
<1>3. CASE uint32(getEnvAsInt(e, "ARGON2_ITERATIONS", 3)) < 1
  BY <1>1, <1>3, SettingsAssumption DEF uint32, Numbers
<1>4. CASE uint8(getEnvAsInt(e, "ARGON2_PARALLELISM", 2)) < 1
  BY <1>1, <1>4, SettingsAssumption DEF uint8, Numbers
<1>5. CASE uint32(getEnvAsInt(e, "ARGON2_KEY_LENGTH", 32)) < 1
  BY <1>1, <1>5, SettingsAssumption DEF uint32, Numbers
<1>. QED
  BY <1>2, <1>3, <1>4, <1>5

\* A refresh token that is valid when it is read lives a positive time, and one
\* that lives two seconds is valid when it is read.
LEMMA Lifetimes ==
  ASSUME NEW expiry \in Int, NEW past \in 0..1, NEW later \in 0..1
  PROVE  /\ Alive(expiry, past, later) => expiry > 0
         /\ expiry >= 2 * Second => Alive(expiry, past, later)
<1>1. CASE past = 0
  BY <1>1 DEF Alive, Second
<1>2. CASE past = 1
  BY <1>2 DEF Alive, Second
<1>. QED
  BY <1>1, <1>2

\* Only a process has settings, and those of its environment.
LEMMA ConfigTyped ==
  ASSUME TypeOK, cfg # None
  PROVE  /\ cfg = Load(env)
         /\ cfg.maxAttempts \in Int /\ cfg.lockout \in Int
         /\ cfg.refreshExpiry \in Int
<1>1. cfg = Load(env)
  BY DEF TypeOK
<1>2. env \in Environments
  BY DEF TypeOK
<1>. QED
  BY <1>1, <1>2, LoadTyped

LEMMA BootKeeps ==
  ASSUME Inv, NEW e \in Environments, Boot(e)
  PROVE  Inv'
<1>. DEFINE c == Load(e)
<1>1. /\ UNCHANGED <<keyVars, accountVars>>
      /\ env' = e /\ cfg' = c /\ reply' = "none"
  BY DEF Boot
<1>2. keys' \in [private : 0..drawn \cup {None}, public : 0..drawn \cup {None},
                 clean : BOOLEAN]
      /\ ReadsPair'
  <2>1. CASE FromFiles(c)
    <3>1. keys' = [private |-> disk.private, public |-> None, clean |-> whole]
          /\ Loadable(disk.private)
      BY <2>1 DEF Boot
    <3>2. disk.private \in 1..drawn /\ whole \in BOOLEAN
      BY <3>1 DEF Inv, TypeOK, Loadable
    <3>3. ReadsPair'
      BY <1>1, <3>1 DEF Inv, KeyOrder, ReadsPair, keyVars
    <3>. QED
      BY <3>1, <3>2, <3>3 DEF Inv, TypeOK
  <2>2. CASE ~FromFiles(c)
    BY <1>1, <2>2, SettingsAssumption DEF Boot, DrawnKeys, Inv, TypeOK, ReadsPair
  <2>. QED
    BY <2>1, <2>2
<1>3. TypeOK'
  <2>1. cfg'.iterations \in 0..(Width32 - 1) /\ cfg'.parallelism \in 0..(Width8 - 1)
    BY <1>1, LoadTyped
  <2>. QED
    BY <1>1, <1>2, <2>1 DEF Inv, TypeOK, keyVars, accountVars
<1>4. Formed' /\ KeyOrder'
  BY <1>1, <1>2 DEF Inv, Formed, KeyOrder, Idle, keyVars, accountVars
<1>. QED
  BY <1>1, <1>3, <1>4 DEF Inv, PanicsAreOutOfRange, SessionsExpire, RightLoginsEnd,
     accountVars

LEMMA StopKeeps ==
  ASSUME Inv, Stop
  PROVE  Inv'
<1>. USE DEF Inv, Stop, NoKeys, keyVars
<1>1. TypeOK'
  BY DEF TypeOK
<1>2. Formed' /\ KeyOrder'
  BY DEF Formed, KeyOrder, ReadsPair, Idle
<1>. QED
  BY <1>1, <1>2 DEF PanicsAreOutOfRange, SessionsExpire, RightLoginsEnd

LEMMA LoadPublicKeyKeeps ==
  ASSUME Inv, LoadPublicKey
  PROVE  Inv'
<1>1. CASE Stop
  BY <1>1, StopKeeps
<1>2. CASE /\ Loading /\ Loadable(disk.public)
           /\ keys' = [keys EXCEPT !.public = disk.public]
           /\ UNCHANGED <<env, cfg, keyVars, accountVars, reply>>
  <2>. USE DEF Inv, keyVars, accountVars
  <2>1. disk["public"] \in 1..drawn
    BY <1>2 DEF TypeOK, Loadable
  <2>2. TypeOK'
    BY <1>2, <2>1 DEF TypeOK
  <2>3. keys' = [private |-> keys.private, public |-> disk["public"], clean |-> keys.clean]
    BY <1>2 DEF TypeOK
  <2>4. disk["public"] # None
    BY <2>1, SettingsAssumption
  <2>5. ReadsPair'
    BY <1>2, <2>3, <2>4 DEF KeyOrder, ReadsPair, Loading
  <2>6. Formed' /\ KeyOrder'
    BY <1>2, <2>5 DEF Formed, KeyOrder, Idle
  <2>. QED
    BY <1>2, <2>2, <2>3, <2>6 DEF PanicsAreOutOfRange, SessionsExpire, RightLoginsEnd
<1>. QED
  BY <1>1, <1>2 DEF LoadPublicKey

LEMMA SetPasswordKeeps ==
  ASSUME Inv, NEW p \in Passwords, SetPassword(p)
  PROVE  Inv'
<1>. USE DEF Inv, SetPassword, Serving, NoKeys, keyVars, processVars
<1>1. TypeOK'
  <2>1. CASE Panics(cfg)
    <3>1. /\ cfg' = None /\ keys' = NoKeys /\ session' = None /\ reply' = "panic"
          /\ UNCHANGED <<env, disk, writer, drawn, whole, owner, attempts>>
      BY <2>1
    <3>. QED
      BY <3>1 DEF TypeOK
  <2>2. CASE ~Panics(cfg)
    <3>1. /\ owner' = p /\ reply' = "ok" /\ cfg # None
          /\ UNCHANGED <<env, cfg, keys, disk, writer, drawn, whole, attempts, session>>
      BY <2>2
    <3>. QED
      BY <3>1 DEF TypeOK
  <2>. QED
    BY <2>1, <2>2
<1>2. Formed'
  <2>1. CASE Panics(cfg)
    BY <2>1 DEF Formed
  <2>2. CASE ~Panics(cfg)
    BY <2>2 DEF Formed, Hash
  <2>. QED
    BY <2>1, <2>2
<1>3. KeyOrder'
  BY DEF KeyOrder, ReadsPair, Idle
<1>4. PanicsAreOutOfRange'
  <2>. SUFFICES ASSUME Panics(cfg)
                PROVE  PanicsAreOutOfRange'
    BY DEF PanicsAreOutOfRange
  <2>1. cfg = Load(env) /\ env \in Environments /\ env' = env
    BY DEF TypeOK
  <2>. QED
    BY <2>1, PanicsOutOfRange DEF PanicsAreOutOfRange
<1>. QED
  BY <1>1, <1>2, <1>3, <1>4 DEF SessionsExpire, RightLoginsEnd

LEMMA RustSetPasswordKeeps ==
  ASSUME Inv, NEW p \in Passwords, RustSetPassword(p)
  PROVE  Inv'
<1>. USE DEF Inv, RustSetPassword, keyVars, processVars
<1>1. TypeOK'
  BY DEF TypeOK
<1>2. Formed'
  BY DEF Formed, RustHash
<1>3. KeyOrder'
  BY DEF KeyOrder, ReadsPair, Idle
<1>. QED
  BY <1>1, <1>2, <1>3 DEF PanicsAreOutOfRange, SessionsExpire, RightLoginsEnd

LEMMA LoginKeeps ==
  ASSUME Inv, NEW p \in Passwords, NEW past \in 0..1, NEW later \in 0..1,
         Login(p, past, later)
  PROVE  Inv'
<1>. USE DEF Inv, Login, Serving, keyVars, processVars
<1>1. cfg.refreshExpiry \in Int
  BY ConfigTyped
<1>2. attempts' \in Nat
  BY DEF TypeOK, TrackLoginAttempt
<1>3. session' \in Nat \cup {None} /\ SessionsExpire'
  <2>1. CASE UNCHANGED session
    BY <2>1 DEF TypeOK, SessionsExpire
  <2>2. CASE GetTokenID(past, later) /\ session' = SetTTL(cfg.refreshExpiry)
    BY <1>1, <2>2, Lifetimes DEF GetTokenID, SetTTL, SessionsExpire
  <2>. QED
    BY <2>1, <2>2
<1>4. reply' = "internal" => ~GetTokenID(past, later)
  OBVIOUS
<1>5. RightLoginsEnd'
  <2>. SUFFICES ASSUME reply' = "internal", keys.clean
                PROVE  cfg.refreshExpiry < 2 * Second
    BY DEF RightLoginsEnd
  <2>1. ~Alive(cfg.refreshExpiry, past, later)
    BY <1>4 DEF GetTokenID, KeyOrder, ReadsPair
  <2>. QED
    BY <1>1, <2>1, Lifetimes DEF Second
<1>6. TypeOK'
  BY <1>2, <1>3 DEF TypeOK
<1>7. Formed' /\ KeyOrder'
  BY DEF Formed, KeyOrder, ReadsPair, Idle
<1>. QED
  BY <1>3, <1>5, <1>6, <1>7 DEF PanicsAreOutOfRange

LEMMA ExpiresKeeps ==
  ASSUME Inv, Expires
  PROVE  Inv'
<1>. USE DEF Inv, Expires, keyVars, processVars
<1>1. TypeOK'
  BY DEF TypeOK
<1>2. Formed' /\ KeyOrder'
  BY DEF Formed, KeyOrder, ReadsPair, Idle
<1>. QED
  BY <1>1, <1>2 DEF PanicsAreOutOfRange, SessionsExpire, RightLoginsEnd

----------------------------------------------------------------------------
\* A write makes a process between the two files forget that they were clean.
LEMMA Disturbed ==
  ASSUME Inv, UNCHANGED <<env, cfg>>, DisturbReader
  PROVE  /\ keys' \in [private : 0..drawn \cup {None}, public : 0..drawn \cup {None},
                        clean : BOOLEAN]
         /\ keys'.clean => keys.clean
         /\ ReadsPair'
<1>1. keys \in [private : 0..drawn \cup {None}, public : 0..drawn \cup {None},
                 clean : BOOLEAN]
  BY DEF Inv, TypeOK
<1>2. CASE keys.public = None
  <2>1. keys' = [keys EXCEPT !.clean = FALSE]
    BY <1>2 DEF DisturbReader
  <2>. QED
    BY <1>1, <2>1 DEF ReadsPair
<1>3. CASE keys.public # None
  BY <1>1, <1>3 DEF DisturbReader, ReadsPair, Inv, KeyOrder
<1>. QED
  BY <1>2, <1>3

\* A step that leaves the process and its account alone, but for what a reader
\* of the key files knows, keeps what is said of them.
LEMMA KeyStep ==
  ASSUME Inv, UNCHANGED <<env, cfg, accountVars, reply>>,
         keys' = keys \/ DisturbReader,
         drawn' \in 0..MaxKeys, drawn' >= drawn, whole' \in BOOLEAN,
         disk' \in [{"private", "public"} -> 1..drawn' \cup {None, Torn}],
         writer' \in [Writers -> {None} \cup Run'],
         KeyOrder'
  PROVE  Inv'
<1>. USE DEF Inv, accountVars
<1>1. keys' \in [private : 0..drawn' \cup {None}, public : 0..drawn' \cup {None},
                 clean : BOOLEAN]
  <2>1. 0..drawn \subseteq 0..drawn'
    BY DEF TypeOK
  <2>2. keys' \in [private : 0..drawn \cup {None}, public : 0..drawn \cup {None},
                   clean : BOOLEAN]
    BY Disturbed DEF TypeOK
  <2>. QED
    BY <2>1, <2>2
<1>2. TypeOK'
  BY <1>1 DEF TypeOK, Run
<1>3. keys'.clean => keys.clean
  BY Disturbed
<1>. QED
  BY <1>2, <1>3 DEF Formed, PanicsAreOutOfRange, SessionsExpire, RightLoginsEnd

LEMMA DrawKeeps ==
  ASSUME Inv, NEW w \in Writers, Draw(w)
  PROVE  Inv'
<1>. USE DEF Inv, Draw
<1>1. drawn' = drawn + 1 /\ drawn' \in 0..MaxKeys /\ drawn \in Nat
  BY SettingsAssumption DEF TypeOK
<1>2. 1..drawn \subseteq 1..drawn' /\ drawn + 1 \in 1..drawn'
  BY <1>1
<1>3. ASSUME NEW v \in Writers
      PROVE  /\ writer'[v] \in {None} \cup Run'
             /\ Idle(v)' \/ v = w \/ ~writer'[v].alone
             /\ v # w => (Idle(v) => Idle(v)')
  <2>1. CASE v = w
    <3>1. writer'[v] = [key |-> drawn + 1, at |-> "private",
                        alone |-> \A u \in Writers : Idle(u)]
      BY <2>1
    <3>. QED
      BY <2>1, <3>1, <1>2 DEF Run
  <2>2. CASE v # w /\ Idle(v)
    BY <2>2 DEF Idle
  <2>3. CASE v # w /\ ~Idle(v)
    <3>1. writer'[v] = [writer[v] EXCEPT !.alone = FALSE]
      BY <2>3
    <3>2. writer[v] \in Run
      BY <2>3 DEF TypeOK, Idle, Run
    <3>. QED
      BY <2>3, <3>1, <3>2, <1>2 DEF Run
  <2>. QED
    BY <2>1, <2>2, <2>3
<1>4. writer' \in [Writers -> {None} \cup Run']
  <2>1. DOMAIN writer' = Writers
        /\ writer' = [v \in Writers |-> writer'[v]]
    OBVIOUS
  <2>. QED
    BY <1>3, <2>1
<1>5. disk' \in [{"private", "public"} -> 1..drawn' \cup {None, Torn}]
  BY <1>2 DEF TypeOK
<1>6. KeyOrder'
  <2>1. (whole => disk["private"] = disk["public"])'
        /\ ReadsPair'
    BY DEF KeyOrder, ReadsPair, processVars
  <2>2. writer'[w].at = "private"
        /\ (writer'[w].alone => \A v \in Writers : Idle(v))
    OBVIOUS
  <2>. QED
    BY <1>3, <2>1, <2>2 DEF KeyOrder
<1>. QED
  BY <1>1, <1>4, <1>5, <1>6, KeyStep DEF TypeOK, processVars

LEMMA WritePrivateKeeps ==
  ASSUME Inv, NEW w \in Writers, WritePrivate(w)
  PROVE  Inv'
<1>. USE DEF Inv, WritePrivate
<1>1. writer[w] \in Run
  BY DEF TypeOK, Idle, Run
<1>2. [writer[w] EXCEPT !.at = "public"] \in Run
      /\ [writer[w] EXCEPT !.at = "public"].alone = writer[w].alone
      /\ [writer[w] EXCEPT !.at = "public"].key = writer[w].key
  BY <1>1 DEF Run
<1>3. writer' = [writer EXCEPT ![w] = [writer[w] EXCEPT !.at = "public"]]
  OBVIOUS
<1>4. writer' \in [Writers -> {None} \cup Run'] /\ UNCHANGED drawn
  BY <1>2, <1>3 DEF TypeOK, Run
<1>5. disk' \in [{"private", "public"} -> 1..drawn' \cup {None, Torn}]
      /\ disk'["private"] = writer[w].key
  BY <1>1 DEF TypeOK, Run
<1>6. KeyOrder'
  <2>1. ASSUME NEW v \in Writers, ~Idle(v)', writer'[v].alone
        PROVE  v = w /\ \A u \in Writers \ {v} : Idle(u)'
    BY <2>1, <1>2, <1>3 DEF KeyOrder, Idle, TypeOK
  <2>. QED
    BY <2>1, <1>2, <1>3, <1>5, Disturbed DEF KeyOrder, TypeOK
<1>7. UNCHANGED <<env, cfg, accountVars, reply>> /\ DisturbReader /\ whole' = FALSE
  OBVIOUS
<1>8. drawn' \in 0..MaxKeys /\ drawn' >= drawn
  <2>1. drawn \in 0..MaxKeys
    BY DEF TypeOK
  <2>. QED
    BY <1>4, <2>1, SettingsAssumption
<1>9. whole' \in BOOLEAN
  BY <1>7
<1>. QED
  BY <1>4, <1>5, <1>6, <1>7, <1>8, <1>9, KeyStep

LEMMA WritePublicKeeps ==
  ASSUME Inv, NEW w \in Writers, WritePublic(w)
  PROVE  Inv'
<1>. USE DEF Inv, WritePublic
<1>1. writer[w] \in Run
  BY DEF TypeOK, Idle, Run
<1>2. writer' \in [Writers -> {None} \cup Run'] /\ UNCHANGED drawn
  BY DEF TypeOK, Run
<1>3. /\ disk' \in [{"private", "public"} -> 1..drawn' \cup {None, Torn}]
      /\ disk'["public"] = writer[w].key
      /\ disk'["private"] = disk["private"]
  BY <1>1 DEF TypeOK, Run
<1>4. KeyOrder'
  <2>1. whole' => disk'["private"] = disk'["public"]
    BY <1>3 DEF KeyOrder
  <2>2. ASSUME NEW v \in Writers, ~Idle(v)', writer'[v].alone
        PROVE  FALSE
    BY <2>2 DEF KeyOrder, Idle, TypeOK
  <2>. QED
    BY <2>1, <2>2, Disturbed DEF KeyOrder
<1>. QED
  BY <1>1, <1>2, <1>3, <1>4, KeyStep DEF TypeOK, Run

LEMMA InterruptKeeps ==
  ASSUME Inv, NEW w \in Writers, Interrupt(w)
  PROVE  Inv'
<1>. USE DEF Inv, Interrupt
<1>1. writer[w] \in Run
  BY DEF TypeOK, Idle, Run
<1>2. writer' \in [Writers -> {None} \cup Run'] /\ UNCHANGED drawn
  BY DEF TypeOK, Run
<1>3. disk' \in [{"private", "public"} -> 1..drawn' \cup {None, Torn}]
      /\ whole' \in BOOLEAN
  BY <1>1 DEF TypeOK, Run
<1>4. KeyOrder'
  <2>1. whole' => disk'["private"] = disk'["public"]
    BY DEF KeyOrder
  <2>2. ASSUME NEW v \in Writers, ~Idle(v)', writer'[v].alone
        PROVE  FALSE
    BY <2>2 DEF KeyOrder, Idle, TypeOK
  <2>3. CASE UNCHANGED <<disk, keys>>
    BY <2>1, <2>2, <2>3 DEF KeyOrder, ReadsPair
  <2>4. CASE DisturbReader
    BY <2>1, <2>2, <2>4, Disturbed DEF KeyOrder
  <2>. QED
    BY <2>3, <2>4
<1>. QED
  BY <1>2, <1>3, <1>4, KeyStep DEF TypeOK

LEMMA InitInv ==
  ASSUME Init
  PROVE  Inv
<1>1. NoKeys \in [private : 0..0 \cup {None}, public : 0..0 \cup {None}, clean : BOOLEAN]
  BY DEF NoKeys
<1>3. disk \in [{"private", "public"} -> 1..0 \cup {None, Torn}]
      /\ writer \in [Writers -> {None} \cup Run]
  BY DEF Init
<1>4. TypeOK
  BY <1>1, <1>3, SettingsAssumption DEF Init, TypeOK, Run
<1>2. Formed /\ KeyOrder
  BY DEF Init, Formed, KeyOrder, ReadsPair, Idle, NoKeys
<1>. QED
  BY <1>2, <1>4 DEF Init, Inv, PanicsAreOutOfRange, SessionsExpire, RightLoginsEnd

LEMMA NextKeeps ==
  ASSUME Inv, [Next]_vars
  PROVE  Inv'
<1>1. CASE UNCHANGED vars
  BY <1>1 DEF vars, keyVars, processVars, accountVars, Inv, TypeOK, Formed,
     KeyOrder, ReadsPair, Idle, PanicsAreOutOfRange, SessionsExpire, RightLoginsEnd
<1>. QED
  BY <1>1, BootKeeps, LoadPublicKeyKeeps, StopKeeps, ExpiresKeeps, SetPasswordKeeps,
     RustSetPasswordKeeps, LoginKeeps, DrawKeeps, WritePrivateKeeps,
     WritePublicKeeps, InterruptKeeps DEF Next

\* Whatever the settings, restarts and key files, Inv is kept.
THEOREM Invariance == Spec => []Inv
<1>1. Init => Inv
  BY InitInv
<1>2. Inv /\ [Next]_vars => Inv'
  BY NextKeeps
<1>. QED
  BY <1>1, <1>2, PTL DEF Spec

\* TypeOK: what a process runs with is its environment, cut to the widths of
\* its types.
THEOREM TypeCorrect == Spec => []TypeOK
<1>1. Inv => TypeOK
  BY DEF Inv
<1>. QED
  BY <1>1, Invariance, PTL

\* HashesVerify: no change of settings makes a stored hash refuse its password
\* or accept another.
THEOREM HashesSurvive == Spec => []HashesVerify
<1>1. Inv => HashesVerify
  <2>. SUFFICES ASSUME Inv, stored # None, NEW p \in Passwords
                PROVE  Verify(p, stored) <=> p = owner
    BY DEF HashesVerify
  <2>1. PICK t, lanes, len : stored = Encode(owner, t, lanes, len)
    BY DEF Inv, Formed
  <2>2. stored.t = t /\ stored.lanes = lanes /\ stored.hash = IDKey(owner, t, lanes, len)
    BY <2>1 DEF Encode
  <2>3. stored.hash.len = len
    BY <2>2 DEF IDKey
  <2>4. IDKey(p, t, lanes, len) = IDKey(owner, t, lanes, len) <=> p = owner
    BY DEF IDKey
  <2>. QED
    BY <2>2, <2>3, <2>4 DEF Verify
<1>. QED
  BY <1>1, Invariance, PTL

\* PanicsAreOutOfRange: only a number out of range takes the process down.
THEOREM PanicsNeedRange == Spec => []PanicsAreOutOfRange
<1>1. Inv => PanicsAreOutOfRange
  BY DEF Inv
<1>. QED
  BY <1>1, Invariance, PTL

\* SessionsExpire: every session has a TTL.
THEOREM SessionsHaveTTL == Spec => []SessionsExpire
<1>1. Inv => SessionsExpire
  BY DEF Inv
<1>. QED
  BY <1>1, Invariance, PTL

\* RightLoginsEnd: the right password fails, while Redis keeps its session, only
\* under a short expiry or key files that somebody was writing.
THEOREM RightLoginsSucceed == Spec => []RightLoginsEnd
<1>1. Inv => RightLoginsEnd
  BY DEF Inv
<1>. QED
  BY <1>1, Invariance, PTL

\* FailuresCount: a failed login is counted under any positive duration.
THEOREM FailuresAreCounted == Spec => FailuresCount
<1>1. ASSUME Inv, Next
      PROVE  /\ reply' = "unauthenticated" /\ cfg.lockout > 0 => 
                  attempts' > attempts \/ UNCHANGED <<attempts, reply>>
             /\ reply' = "locked" /\ attempts = 0 =>
                  cfg.maxAttempts < 1 \/ UNCHANGED <<attempts, reply>>
  <2>1. ASSUME NEW p \in Passwords, NEW past \in 0..1, NEW later \in 0..1,
         Login(p, past, later)
        PROVE  /\ reply' = "unauthenticated" /\ cfg.lockout > 0 => attempts' > attempts
               /\ reply' = "locked" /\ attempts = 0 => cfg.maxAttempts < 1
    <3>1. cfg.maxAttempts \in Int /\ cfg.lockout \in Int /\ attempts \in Nat
      BY <1>1, <2>1, ConfigTyped DEF Inv, TypeOK, Login, Serving
    <3>2. cfg.lockout > 0 => ExpireSeconds(cfg.lockout) > 0
      BY <3>1 DEF ExpireSeconds, Second
    <3>3. cfg.lockout > 0 => TrackLoginAttempt = attempts + 1
      BY <3>1, <3>2 DEF TrackLoginAttempt, ExpireSeconds, Second
    <3>. QED
      BY <2>1, <3>1, <3>3 DEF Login
  <2>2. ASSUME NEW e \in Environments, Boot(e)  PROVE reply' = "none"
    BY <2>2 DEF Boot
  <2>3. Stop \/ Expires => reply' = "none"
    BY DEF Stop, Expires
  <2>6. LoadPublicKey => reply' = "none" \/ UNCHANGED <<attempts, reply>>
    BY DEF LoadPublicKey, Stop, accountVars
  <2>4. ASSUME NEW p \in Passwords, SetPassword(p) \/ RustSetPassword(p)
        PROVE  reply' \in {"none", "ok", "panic"}
    BY <2>4 DEF SetPassword, RustSetPassword
  <2>5. ASSUME NEW w \in Writers,
               Draw(w) \/ WritePrivate(w) \/ WritePublic(w) \/ Interrupt(w)
        PROVE  UNCHANGED <<attempts, reply>>
    BY <2>5 DEF Draw, WritePrivate, WritePublic, Interrupt, accountVars
  <2>. QED
    BY <1>1, <2>1, <2>2, <2>3, <2>4, <2>5, <2>6 DEF Next
<1>2. Inv /\ [Next]_vars =>
        [/\ reply' = "unauthenticated" /\ cfg.lockout > 0 => attempts' > attempts
         /\ reply' = "locked" /\ attempts = 0 => cfg.maxAttempts < 1]_<<attempts, reply>>
  BY <1>1 DEF vars, accountVars
<1>. QED
  BY <1>2, Invariance, PTL DEF Spec, FailuresCount
=============================================================================
