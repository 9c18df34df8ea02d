--------------------------- MODULE ServerContract ---------------------------
(***************************************************************************)
(* What a server process promises to its callers and to who runs it        *)
(* (docker-compose.yaml, main.go): it takes calls from when it opens until *)
(* it is told to stop and has let its callers go, it ends well only then,  *)
(* and it cuts calls short only if it is forced, fails or is killed.  How  *)
(* it gets there, with which goroutines and pools, is its own business.    *)
(***************************************************************************)
CONSTANT
  Calls

VARIABLES
  phase,    \* "starting", "serving", "draining", "closed", "forced", "ended"
  told,     \* somebody asked the process to stop
  calls,    \* the calls it works on
  served,   \* it has taken a call
  verdict   \* its exit status, "no" while it runs

svars == <<phase, told, calls, served, verdict>>

Idle == [c \in Calls |-> "idle"]

Alive == phase # "ended"

Open ==
  /\ phase = "starting" /\ phase' = "serving"
  /\ UNCHANGED <<told, calls, served, verdict>>

Take(c) ==
  /\ phase \in {"serving", "draining"} /\ calls[c] = "idle"
  /\ calls' = [calls EXCEPT ![c] = "running"] /\ served' = TRUE
  /\ UNCHANGED <<phase, told, verdict>>

\* Nobody can be made to answer: a call may be answered in any phase.
Answer(c) ==
  /\ Alive /\ calls[c] = "running"
  /\ calls' = [calls EXCEPT ![c] = "idle"]
  /\ UNCHANGED <<phase, told, served, verdict>>

Tell ==
  /\ Alive /\ told' = TRUE
  /\ UNCHANGED <<phase, calls, served, verdict>>

\* Callers that are connected may go on; one that never opened has none.
Drain ==
  /\ told
  /\ \/ phase = "serving" /\ phase' = "draining"
     \/ phase = "starting" /\ phase' = "closed"
  /\ UNCHANGED <<told, calls, served, verdict>>

Close ==
  /\ phase = "draining" /\ calls = Idle
  /\ phase' = "closed"
  /\ UNCHANGED <<told, calls, served, verdict>>

\* The callers are let go whether they have been answered or not.
Force ==
  /\ Alive /\ told
  /\ phase' = "forced"
  /\ UNCHANGED <<told, calls, served, verdict>>

\* Who has begun to stop may fail only if nobody has been served.
End(how) ==
  /\ Alive
  /\ \/ how = "ok" /\ (phase = "forced" \/ (phase = "closed" /\ calls = Idle))
     \/ how = "fatal" /\ (phase \in {"starting", "serving"} \/ ~served)
     \/ how = "killed"
  /\ phase' = "ended" /\ verdict' = how /\ calls' = Idle
  /\ UNCHANGED <<told, served>>

SInit ==
  /\ phase = "starting" /\ told = FALSE /\ calls = Idle
  /\ served = FALSE /\ verdict = "no"

Again ==
  /\ phase = "ended"
  /\ phase' = "starting" /\ told' = FALSE /\ calls' = Idle
  /\ served' = FALSE /\ verdict' = "no"

SNext ==
  \/ Open \/ Tell \/ Drain \/ Close \/ Force \/ Again
  \/ \E how \in {"ok", "fatal", "killed"} : End(how)
  \/ \E c \in Calls : Take(c) \/ Answer(c)

SSpec == SInit /\ [][SNext]_svars
=============================================================================
