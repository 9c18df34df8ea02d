-------------------------- MODULE ServerRefinement --------------------------
(***************************************************************************)
(* Server implements ServerContract.  Which phase the process is in shows  *)
(* in its connections and in whether its server was told to stop: while it *)
(* was and they are open, it drains.                                       *)
(***************************************************************************)
EXTENDS Server

\* By the connections: while it listens, and when it has been told not to.
Listening == [none |-> "starting", open |-> "serving", closed |-> "closed"]
Leaving == [none |-> "closed", open |-> "draining", closed |-> "closed"]

Phase ==
  IF ~Running THEN "ended" ELSE IF forced THEN "forced"
  ELSE IF quit THEN Leaving[transport] ELSE Listening[transport]

S == INSTANCE ServerContract WITH
       phase <- Phase, told <- signal, verdict <- exit

\* However main, its two goroutines, signals, the deadline and handlers race
\* (main.go:109-154), the process takes calls only from when it opens until its
\* callers have left, stops only when told, ends with status 0 only when closed
\* or forced, and fails once it has begun to stop only if nobody was served.
Contract == S!SSpec
=============================================================================
