-------------------------------- MODULE Service --------------------------------
(***************************************************************************)
(* What a host is to those who use it, without threads, locks and builds   *)
(* (src/lib.rs, the documentation of struct Host and its methods).         *)
(*                                                                         *)
(* One composition serves at a time.  It is replaced as a whole by one     *)
(* that never served, and what was replaced is closed some time and does   *)
(* not come back.  Invocations run on what serves or, as long as it is     *)
(* open, on what served before.  The manifest is written for what serves.  *)
(* Shutdown closes, and then tells whether it saw the last invocation end. *)
(***************************************************************************)
CONSTANTS Clients, Compositions, Nothing

VARIABLES
  serving,    \* the composition that serves, or Nothing
  former,     \* those that served before it
  closed,     \* those that admit no further invocation
  running,    \* the composition each client's invocation runs on, or Nothing
  described,  \* the composition the manifest was last written for, or Nothing
  phase       \* of the host: up, or how far shutdown is

serviceVars == <<serving, former, closed, running, described, phase>>

RunningOn(g) == {c \in Clients : running[c] = g}

ServiceInit ==
  /\ serving = Nothing
  /\ former = {}
  /\ closed = {}
  /\ running = [c \in Clients |-> Nothing]
  /\ described = Nothing
  /\ phase = "up"

\* compose, or a reload that succeeds
Serve(g) ==
  /\ phase = "up"
  /\ g \notin former \union {serving}
  /\ serving' = g
  /\ former' = former \union ({serving} \ {Nothing})
  /\ UNCHANGED <<closed, running, described, phase>>

\* "previous.pool.close()"
CloseFormer(g) ==
  /\ g \in former
  /\ closed' = closed \union {g}
  /\ UNCHANGED <<serving, former, running, described, phase>>

\* checkout succeeds.
Begin(c) ==
  /\ phase = "up"
  /\ running[c] = Nothing
  /\ \E g \in (former \union {serving}) \ (closed \union {Nothing}) :
       running' = [running EXCEPT ![c] = g]
  /\ UNCHANGED <<serving, former, closed, described, phase>>

\* The guard is dropped.
End(c) ==
  /\ running' = [running EXCEPT ![c] = Nothing]
  /\ UNCHANGED <<serving, former, closed, described, phase>>

\* A write that fails may have destroyed the file that was there.
Describe ==
  /\ phase = "up"
  /\ described' \in {serving, Nothing}
  /\ UNCHANGED <<serving, former, closed, running, phase>>

Stop ==
  /\ phase = "up"
  /\ phase' = IF serving = Nothing THEN "drained" ELSE "draining"
  /\ closed' = closed \union ({serving} \ {Nothing})
  /\ UNCHANGED <<serving, former, running, described>>

\* Success is reported if and only if nothing runs on what served last.
Stopped ==
  /\ phase = "draining"
  /\ phase' = IF RunningOn(serving) = {} THEN "drained" ELSE "stranded"
  /\ UNCHANGED <<serving, former, closed, running, described>>

ServiceNext ==
  \/ \E g \in Compositions : Serve(g) \/ CloseFormer(g)
  \/ \E c \in Clients : Begin(c) \/ End(c)
  \/ Describe \/ Stop \/ Stopped

ServiceSpec == ServiceInit /\ [][ServiceNext]_serviceVars
=============================================================================
