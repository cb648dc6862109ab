-------------------------------- MODULE Daemon --------------------------------
(* The life of the per-workspace compiler daemon and of the commands sent to   *)
(* it: how a starting daemon claims the socket path, how a connection's        *)
(* requests are admitted against the idle timer, how the process leaves, and   *)
(* what a command-line client does when the daemon is missing, slow, or dies   *)
(* under it.  fai-server/src/{transport,server,idle,client}.rs and the routing *)
(* of a command in fai-cli/src/lib.rs.                                         *)
(*                                                                             *)
(* Clients issue one command each.  Those in Mutating send a Run, a Build or a *)
(* writing Fmt; those in Stoppers run `fai daemon stop`; the others only read. *)
(* A compiler mismatch is left out: version and build are part of the path.    *)
EXTENDS Naturals, FiniteSets

CONSTANTS
  Daemons,      \* daemon processes that may ever be spawned
  Clients,      \* command-line invocations
  Mutating,     \* those whose command has effects
  Stoppers,     \* those that stop the daemon
  Idle,         \* the idle watchdog thread of a daemon
  Stale,        \* a listener that died before the behaviour starts
  None,
  MaxCrashes    \* daemon crashes that may happen

ASSUME ClientKinds == Mutating \subseteq Clients /\ Stoppers \subseteq Clients \ Mutating
ASSUME CrashBound == MaxCrashes \in Nat
ASSUME DistinctNames == Idle \notin Clients /\ None \notin Daemons /\ Stale \notin Daemons

VARIABLES
  sock,       \* the listener the socket path names, or None
  dpc,        \* where each daemon process is
  active,     \* per daemon: requests admitted and not yet released (IdleTimer)
  unlinking,  \* per daemon: threads inside shutdown, before the unlink
  exiting,    \* per daemon: threads that unlinked and are about to exit
  cpc,        \* where each client is
  spawned,    \* whether the client has spawned a daemon
  peer,       \* the daemon the client's connection leads to
  link,       \* how far the connection's request has come
  taken,      \* how many times the command was taken up for execution (history)
  effect,     \* whether it has had effects, be it in a cancelled execution (history)
  out,        \* what the client reports
  crashes

daemonVars == <<sock, dpc, unlinking, exiting>>
history == <<taken, effect>>
clientVars == <<cpc, spawned, peer, out>>
vars == <<sock, dpc, active, unlinking, exiting, cpc, spawned, peer, link, taken, effect, out,
          crashes>>

Threads == Clients \cup {Idle}
Links == {"closed", "backlog", "ready", "request", "running", "executed", "replied",
          "hung"}

TypeOK ==
  /\ sock \in Daemons \cup {Stale, None}
  /\ dpc \in [Daemons -> {"off", "create", "probe", "unlink", "recreate", "listen", "serving",
                          "gone"}]
  /\ active \in [Daemons -> SUBSET Clients]
  /\ unlinking \in [Daemons -> SUBSET Threads] /\ exiting \in [Daemons -> SUBSET Threads]
  /\ cpc \in [Clients -> {"connect", "handshake", "spawn", "poll", "submit", "await", "down",
                          "fallback", "done"}]
  /\ spawned \in [Clients -> BOOLEAN]
  /\ peer \in [Clients -> Daemons \cup {None}] /\ link \in [Clients -> Links]
  /\ taken \in [Clients -> Nat] /\ effect \in [Clients -> BOOLEAN]
  /\ out \in [Clients -> {"none", "ok", "unknown"}]
  /\ crashes \in 0..MaxCrashes

Init ==
  /\ sock \in {None, Stale}
  /\ dpc = [d \in Daemons |-> "off"] /\ active = [d \in Daemons |-> {}]
  /\ unlinking = [d \in Daemons |-> {}] /\ exiting = [d \in Daemons |-> {}]
  /\ cpc = [c \in Clients |-> "connect"] /\ spawned = [c \in Clients |-> FALSE]
  /\ peer = [c \in Clients |-> None] /\ link = [c \in Clients |-> "closed"]
  /\ taken = [c \in Clients |-> 0] /\ effect = [c \in Clients |-> FALSE]
  /\ out = [c \in Clients |-> "none"]
  /\ crashes = 0

(***************************************************************************)
(* Claiming the endpoint.  The listener library binds the path and starts  *)
(* listening in two system calls: in between, a connect is refused.        *)
(***************************************************************************)
Reachable == sock \in Daemons /\ dpc[sock] = "serving"

Step(d, from, to) == dpc[d] = from /\ dpc' = [dpc EXCEPT ![d] = to]
StartupUnchanged == UNCHANGED <<active, unlinking, exiting, link, history, crashes, clientVars>>

Create(d) ==
  /\ \/ sock = None /\ sock' = d /\ Step(d, "create", "listen")
     \/ sock # None /\ UNCHANGED sock /\ Step(d, "create", "probe")
  /\ StartupUnchanged

Listen(d) == Step(d, "listen", "serving") /\ UNCHANGED sock /\ StartupUnchanged

\* A live daemon answers: this one returns.  Otherwise the socket is stale.
Probe(d) ==
  /\ IF Reachable THEN Step(d, "probe", "gone") ELSE Step(d, "probe", "unlink")
  /\ UNCHANGED sock /\ StartupUnchanged

\* Removes whatever is at the path by now.
RemoveStale(d) == Step(d, "unlink", "recreate") /\ sock' = None /\ StartupUnchanged

Recreate(d) ==
  /\ \/ sock = None /\ sock' = d /\ Step(d, "recreate", "listen")
     \/ sock # None /\ UNCHANGED sock /\ Step(d, "recreate", "gone")
  /\ StartupUnchanged

(***************************************************************************)
(* Serving.  Admission and the idle decision share the timer's lock, which *)
(* the watchdog keeps until the process is gone.                           *)
(***************************************************************************)
IdleHoldsFree(d) == FALSE
IdleHolds(d) == Idle \in unlinking[d] \cup exiting[d]

ExpiredAnyway(d) == TRUE
Expired(d) == active[d] = {}

At(d, c, from, to) ==
  /\ dpc[d] = "serving" /\ peer[c] = d /\ link[c] = from
  /\ link' = [link EXCEPT ![c] = to]

\* Initialize is a request like any other: admitted, answered and released.
Handshake(d, c) ==
  /\ ~IdleHolds(d) /\ At(d, c, "backlog", "ready")
  /\ UNCHANGED <<active, history, crashes, daemonVars, clientVars>>

Admit(d, c) ==
  /\ ~IdleHolds(d) /\ At(d, c, "request", "running")
  /\ active' = [active EXCEPT ![d] = @ \cup {c}]
  /\ taken' = [taken EXCEPT ![c] = @ + 1]
  /\ UNCHANGED <<effect, crashes, daemonVars, clientVars>>

\* The command runs on a snapshot, its writes included.
Run(d, c, to) ==
  /\ c \notin Stoppers /\ At(d, c, "running", to)
  /\ effect' = [effect EXCEPT ![c] = TRUE]
  /\ UNCHANGED <<active, taken, crashes, daemonVars, clientVars>>

Execute(d, c) == Run(d, c, "executed")

\* A change of the inputs cancels it at a query: with_snapshot runs it again from
\* the start, as often as it takes, whatever it has written by then.
Retry(d, c) == Run(d, c, "running")

\* A Shutdown is acknowledged first; its thread then leaves, whatever else runs.
Respond(d, c) ==
  /\ \/ At(d, c, "executed", "replied") /\ UNCHANGED unlinking
     \/ /\ c \in Stoppers /\ At(d, c, "running", "replied")
        /\ unlinking' = [unlinking EXCEPT ![d] = @ \cup {c}]
  /\ UNCHANGED <<active, history, crashes, sock, dpc, exiting, clientVars>>

\* The guard drops after the response is written (a Shutdown's never does).
Release(d, c) ==
  /\ dpc[d] = "serving" /\ c \in active[d] \ Stoppers /\ link[c] = "replied"
  /\ active' = [active EXCEPT ![d] = @ \ {c}]
  /\ UNCHANGED <<link, history, crashes, daemonVars, clientVars>>

\* The watchdog wakes and finds the idle limit passed: how long ago the last
\* request ended is up to the environment.
Expire(d) ==
  /\ dpc[d] = "serving" /\ Expired(d) /\ ~IdleHolds(d)
  /\ unlinking' = [unlinking EXCEPT ![d] = @ \cup {Idle}]
  /\ UNCHANGED <<sock, dpc, exiting, active, link, history, crashes, clientVars>>

Unlink(d, t) ==
  /\ dpc[d] = "serving" /\ t \in unlinking[d]
  /\ sock' = None
  /\ unlinking' = [unlinking EXCEPT ![d] = @ \ {t}]
  /\ exiting' = [exiting EXCEPT ![d] = @ \cup {t}]
  /\ UNCHANGED <<dpc, active, link, history, crashes, clientVars>>

\* The process is gone, and with it its threads and its ends of connections; a
\* response already written can still be read.
Die(d) ==
  /\ dpc' = [dpc EXCEPT ![d] = "gone"]
  /\ active' = [active EXCEPT ![d] = {}]
  /\ unlinking' = [unlinking EXCEPT ![d] = {}] /\ exiting' = [exiting EXCEPT ![d] = {}]
  /\ link' = [c \in Clients |-> IF peer[c] = d /\ link[c] \notin {"closed", "replied"}
                                THEN "hung" ELSE link[c]]
  /\ UNCHANGED <<sock, history, clientVars>>

Exit(d) == dpc[d] = "serving" /\ exiting[d] # {} /\ Die(d) /\ UNCHANGED crashes

\* Killed, or unable to open its workspace root: the socket file stays behind.
Crash(d) ==
  /\ crashes < MaxCrashes /\ crashes' = crashes + 1
  /\ dpc[d] \in {"listen", "serving"} /\ Die(d)

(***************************************************************************)
(* The command line.                                                       *)
(***************************************************************************)
Hung(c) == link[c] = "hung"
ClientUnchanged == UNCHANGED <<active, history, crashes, daemonVars>>
Move(c, to) == cpc' = [cpc EXCEPT ![c] = to]

\* try_handshake found no usable daemon.
NoDaemon(c) ==
  Move(c, IF c \in Stoppers THEN "done" ELSE IF spawned[c] THEN "poll" ELSE "spawn")

Connect(c) ==
  /\ cpc[c] \in {"connect", "poll"}
  /\ IF Reachable
       THEN /\ Move(c, "handshake") /\ peer' = [peer EXCEPT ![c] = sock]
            /\ link' = [link EXCEPT ![c] = "backlog"]
       ELSE NoDaemon(c) /\ UNCHANGED <<peer, link>>
  /\ UNCHANGED <<spawned, out>> /\ ClientUnchanged

Shaken(c) ==
  /\ cpc[c] = "handshake"
  /\ \/ link[c] = "ready" /\ Move(c, "submit") /\ UNCHANGED <<peer, link>>
     \/ Hung(c) /\ NoDaemon(c) /\ link' = [link EXCEPT ![c] = "closed"]
        /\ peer' = [peer EXCEPT ![c] = None]
  /\ UNCHANGED <<spawned, out>> /\ ClientUnchanged

\* A spawn can also fail outright; the command then runs in this process.  Which
\* name a new process gets is of no consequence: the first unused one.
NewDaemon == CHOOSE d \in Daemons : dpc[d] = "off"
SpawnDaemon(c) ==
  /\ cpc[c] = "spawn"
  /\ \/ /\ \E d \in Daemons : dpc[d] = "off"
        /\ Step(NewDaemon, "off", "create") /\ Move(c, "poll")
     \/ UNCHANGED dpc /\ Move(c, "fallback")
  /\ spawned' = [spawned EXCEPT ![c] = TRUE]
  /\ UNCHANGED <<sock, unlinking, exiting, active, peer, link, history, out, crashes>>

DeadlineIgnored(c) == FALSE
DeadlinePassed(c) == cpc[c] = "poll"

SpawnTimeout(c) ==
  /\ DeadlinePassed(c) /\ Move(c, "fallback")
  /\ UNCHANGED <<spawned, peer, link, out>> /\ ClientUnchanged

ReplayableAlways(c) == c \notin Stoppers
Replayable(c) == c \notin Mutating \cup Stoppers

\* The request was, or may have been, written and its result will not come.
Lost(c) ==
  IF Replayable(c) THEN Move(c, "fallback") /\ UNCHANGED out
                   ELSE Move(c, "done") /\ out' = [out EXCEPT ![c] = "unknown"]

Submit(c) ==
  /\ cpc[c] = "submit"
  /\ IF Hung(c) THEN Lost(c) /\ UNCHANGED link
                ELSE /\ Move(c, "await") /\ UNCHANGED out
                     /\ link' = [link EXCEPT ![c] = "request"]
  /\ UNCHANGED <<spawned, peer>> /\ ClientUnchanged

Await(c) ==
  /\ cpc[c] = "await"
  /\ \/ /\ link[c] = "replied" /\ out' = [out EXCEPT ![c] = "ok"]
        /\ Move(c, IF c \in Stoppers THEN "down" ELSE "done")
     \/ Hung(c) /\ Lost(c)
  /\ UNCHANGED <<spawned, peer, link>> /\ ClientUnchanged

\* Ends when the endpoint refuses a connection, or after SHUTDOWN_TIMEOUT.
WaitUntilUnreachable(c) ==
  /\ cpc[c] = "down" /\ Move(c, "done")
  /\ UNCHANGED <<spawned, peer, link, out>> /\ ClientUnchanged

RunInProcess(c) ==
  /\ cpc[c] = "fallback" /\ Move(c, "done")
  /\ taken' = [taken EXCEPT ![c] = @ + 1] /\ effect' = [effect EXCEPT ![c] = TRUE]
  /\ out' = [out EXCEPT ![c] = "ok"]
  /\ UNCHANGED <<spawned, peer, link, active, crashes, daemonVars>>

Startup(d) == Create(d) \/ Listen(d) \/ Probe(d) \/ RemoveStale(d) \/ Recreate(d)
Serve(d, c) == Handshake(d, c) \/ Admit(d, c) \/ Execute(d, c) \/ Respond(d, c) \/ Release(d, c)
Command(c) ==
  \/ Connect(c) \/ Shaken(c) \/ SpawnDaemon(c) \/ Submit(c) \/ Await(c)
  \/ WaitUntilUnreachable(c) \/ RunInProcess(c)

Finished == \A c \in Clients : cpc[c] = "done"

\* The steps a running process or thread takes by itself.
Progress ==
  \/ \E d \in Daemons :
       \/ Startup(d) \/ Exit(d)
       \/ \E c \in Clients : Serve(d, c)
       \/ \E t \in Threads : Unlink(d, t)
  \/ \E c \in Clients : Command(c) \/ SpawnTimeout(c)

Next ==
  \/ Progress
  \/ \E d \in Daemons : Expire(d) \/ Crash(d) \/ \E c \in Clients : Retry(d, c)
  \/ Finished /\ UNCHANGED vars

Spec == Init /\ [][Next]_vars

(* Processes and threads that can run do run, and a client's clock advances:   *)
(* the spawn deadline is checked on every failed attempt.  Every command and   *)
(* every daemon takes finitely many steps, so it is enough that some step is   *)
(* taken while one can be.  Nothing obliges the idle limit to pass, a daemon   *)
(* to crash or an execution to be cancelled.                                   *)
FairSpec == Spec /\ WF_vars(Progress)

(***************************************************************************)
(* Properties.                                                             *)
(***************************************************************************)

(* No replay after uncertain execution (client.rs Submitted, lib.rs route): a  *)
(* Run, Build or writing Fmt is taken up by one process at most, and by that   *)
(* one once, however the daemon dies around it: its effects, repeated ones of  *)
(* a cancelled execution included, are those of the daemon that took it or of  *)
(* the client alone.  A command reported as successful has had its effects.    *)
SubmittedOnce ==
  \A c \in Clients \ Stoppers :
    /\ c \in Mutating => taken[c] <= 1
    /\ out[c] = "ok" => effect[c]

(* Idle expiry cannot race admitted work (idle.rs expire_if_idle and begin):   *)
(* from the watchdog's decision to the exit, no request is admitted, executing *)
(* or waiting for its answer to be written.                                    *)
IdleSparesAdmitted ==
  \A d \in Daemons :
    dpc[d] = "serving" /\ Idle \in unlinking[d] \cup exiting[d] =>
      \A c \in Clients : peer[c] = d => link[c] \notin {"running", "executed"}

(* Every command ends, whatever its daemon does: a lost spawn race, a daemon   *)
(* made unreachable by another's unlink, an exit under a queued request or a   *)
(* crash leaves no client waiting (client.rs connect_or_spawn, Client::request *)
(* and the fallback in lib.rs route).                                          *)
CommandEnds == \A c \in Clients : <>(cpc[c] = "done")
===============================================================================
