----------------------------- MODULE DaemonProofs -----------------------------
(* Proofs about the daemon and its clients, for any number of daemons, clients *)
(* and crashes: a command with effects is taken up at most once, a command     *)
(* reported as successful has had its effects, and idle expiry never meets an  *)
(* admitted request.                                                           *)
EXTENDS Daemon, TLAPS

(***************************************************************************)
(* The inductive invariant.                                                *)
(***************************************************************************)

(* Where a command is determines how far its request may have come and what    *)
(* it may have done so far.                                                    *)
Course(c) ==
  /\ cpc[c] \in {"connect", "spawn", "poll"} => link[c] = "closed" /\ taken[c] = 0
  /\ cpc[c] = "handshake" => link[c] \in {"backlog", "ready", "hung"} /\ taken[c] = 0
  /\ cpc[c] = "submit" => link[c] \in {"ready", "hung"} /\ taken[c] = 0
  /\ cpc[c] = "await" => link[c] \in {"request", "running", "executed", "replied", "hung"}
  /\ cpc[c] = "fallback" => link[c] \in {"closed", "hung"}
  /\ cpc[c] \in {"down", "done"} => link[c] \in {"closed", "replied", "hung"}

(* Who has taken up the command, and what it has done, at each place of its    *)
(* connection.                                                                 *)
Effect(c) ==
  /\ link[c] = "request" => taken[c] = 0
  /\ c \in Mutating => taken[c] <= 1
  /\ c \in Mutating /\ cpc[c] = "fallback" => taken[c] = 0
  /\ c \notin Stoppers /\ link[c] \in {"executed", "replied"} => effect[c]
  /\ c \notin Stoppers /\ out[c] = "ok" => effect[c]

(* A request that is being served is counted by the idle timer of the daemon   *)
(* that serves it.                                                             *)
Counted(c) ==
  link[c] \in {"running", "executed"} => peer[c] \in Daemons /\ c \in active[peer[c]]

(* Only a daemon that serves has threads on their way out.                     *)
Leaving == \A d \in Daemons : dpc[d] # "serving" => unlinking[d] = {} /\ exiting[d] = {}

IInv ==
  /\ TypeOK /\ IdleSparesAdmitted /\ Leaving
  /\ \A c \in Clients : Course(c) /\ Effect(c) /\ Counted(c)

(* The invariant holds initially. *)
LEMMA IInvInit == Init => IInv
<1> SUFFICES ASSUME Init PROVE IInv
  OBVIOUS
<1>1. TypeOK
  BY CrashBound DEF Init, TypeOK, Links
<1>2. Leaving /\ IdleSparesAdmitted /\ \A c \in Clients : Course(c) /\ Effect(c) /\ Counted(c)
  BY DEF Init, Leaving, IdleSparesAdmitted, Course, Effect, Counted
<1> QED BY <1>1, <1>2 DEF IInv

-------------------------------------------------------------------------------
(* Daemons. *)

(* A starting daemon serves nobody yet. *)
LEMMA StartupStep ==
  ASSUME IInv, NEW d \in Daemons, Startup(d)
  PROVE  IInv'
<1> USE DEF IInv
<1>1. /\ UNCHANGED <<active, unlinking, exiting, link, taken, effect, crashes, clientVars>>
      /\ dpc' \in [Daemons -> {"off", "create", "probe", "unlink", "recreate", "listen", "serving",
                               "gone"}]
      /\ \A e \in Daemons : dpc[e] = "serving" => dpc'[e] = "serving"
      /\ sock' \in Daemons \cup {Stale, None}
  BY DEF Startup, Create, Listen, Probe, RemoveStale, Recreate, Step, StartupUnchanged, TypeOK, history
<1>2. TypeOK'
  BY <1>1 DEF TypeOK, clientVars, history
<1>3. IdleSparesAdmitted' /\ Leaving'
  BY <1>1 DEF IdleSparesAdmitted, Leaving, clientVars, history
<1> QED BY <1>1, <1>2, <1>3 DEF Course, Effect, Counted, clientVars, history

(* Executing a command, to its end or until it is cancelled and starts again. *)
LEMMA RunStep ==
  ASSUME IInv, NEW d \in Daemons, NEW c \in Clients, NEW to \in {"running", "executed"}, Run(d, c, to)
  PROVE  IInv'
<1> USE DEF IInv, Run, At, daemonVars, clientVars, history
<1>1. cpc[c] = "await"
  BY DEF Course, TypeOK
<1>2. TypeOK'
  BY DEF TypeOK, Links
<1>3. IdleSparesAdmitted' /\ Leaving' /\ \A b \in Clients : Counted(b)'
  BY DEF IdleSparesAdmitted, Leaving, TypeOK, Counted
<1> QED BY <1>1, <1>2, <1>3 DEF TypeOK, Course, Effect

(* Serving a request: admission counts it before it runs, under the lock that *)
(* the watchdog keeps once it has decided to leave.                            *)
LEMMA ServeStep ==
  ASSUME IInv, NEW d \in Daemons, NEW c \in Clients, Serve(d, c)
  PROVE  IInv'
<1> USE ClientKinds, DistinctNames DEF IInv, At, daemonVars, clientVars, history
<1>1. CASE Handshake(d, c)
  <2>1. TypeOK'
    BY <1>1 DEF Handshake, TypeOK, Links
  <2>2. IdleSparesAdmitted' /\ Leaving'
    BY <1>1 DEF Handshake, IdleSparesAdmitted, Leaving, TypeOK
  <2> QED BY <1>1, <2>1, <2>2 DEF Handshake, TypeOK, Course, Effect, Counted
<1>2. CASE Admit(d, c)
  <2>1. TypeOK'
    BY <1>2 DEF Admit, TypeOK, Links
  <2>2. IdleSparesAdmitted' /\ Leaving'
    BY <1>2 DEF Admit, IdleHolds, IdleSparesAdmitted, Leaving, TypeOK
  <2>3. \A b \in Clients : Counted(b)'
    BY <1>2 DEF Admit, TypeOK, Counted
  <2> QED BY <1>2, <2>1, <2>2, <2>3 DEF Admit, TypeOK, Course, Effect
<1>3. CASE Execute(d, c)
  BY <1>3, RunStep DEF Execute
<1>4. CASE Respond(d, c)
  <2>1. /\ link' = [link EXCEPT ![c] = "replied"] /\ link[c] \in {"running", "executed"}
        /\ c \notin Stoppers => link[c] = "executed"
        /\ dpc[d] = "serving"
        /\ unlinking' \in [Daemons -> SUBSET Threads]
        /\ \A e \in Daemons : Idle \in unlinking'[e] => Idle \in unlinking[e]
        /\ \A e \in Daemons : dpc[e] # "serving" => unlinking'[e] = unlinking[e]
        /\ UNCHANGED <<active, taken, effect, crashes, sock, dpc, exiting, clientVars>>
    <3>1. CASE At(d, c, "executed", "replied") /\ UNCHANGED unlinking
      BY <1>4, <3>1 DEF Respond, TypeOK
    <3>2. CASE c \in Stoppers /\ At(d, c, "running", "replied")
                 /\ unlinking' = [unlinking EXCEPT ![d] = @ \cup {c}]
      BY <1>4, <3>2 DEF Respond, TypeOK, Threads
    <3> QED BY <1>4, <3>1, <3>2 DEF Respond
  <2>2. TypeOK'
    BY <2>1 DEF TypeOK, Links
  <2>3. IdleSparesAdmitted' /\ Leaving' /\ \A b \in Clients : Counted(b)'
    BY <2>1 DEF IdleSparesAdmitted, Leaving, TypeOK, Counted
  <2>4. cpc[c] = "await" /\ (c \notin Stoppers => effect[c])
    BY <2>1 DEF Course, Effect, TypeOK
  <2> QED BY <2>1, <2>2, <2>3, <2>4 DEF TypeOK, Course, Effect
<1>5. CASE Release(d, c)
  <2>1. TypeOK'
    BY <1>5 DEF Release, TypeOK
  <2>2. IdleSparesAdmitted' /\ Leaving' /\ \A b \in Clients : Counted(b)'
    BY <1>5 DEF Release, IdleSparesAdmitted, Leaving, TypeOK, Counted
  <2> QED BY <1>5, <2>1, <2>2 DEF Release, Course, Effect
<1> QED BY <1>1, <1>2, <1>3, <1>4, <1>5 DEF Serve

(* A cancelled execution. *)
LEMMA RetryStep ==
  ASSUME IInv, NEW d \in Daemons, NEW c \in Clients, Retry(d, c)
  PROVE  IInv'
BY RunStep DEF Retry

(* The watchdog decides only while nothing is admitted. *)
LEMMA ExpireStep ==
  ASSUME IInv, NEW d \in Daemons, Expire(d)
  PROVE  IInv'
<1> USE DEF IInv, Expire, clientVars, history
<1>1. TypeOK'
  BY DEF TypeOK, Threads
<1>2. \A c \in Clients : peer[c] = d => link[c] \notin {"running", "executed"}
  BY DEF Expired, Counted
<1>3. IdleSparesAdmitted'
  BY <1>2 DEF IdleSparesAdmitted, TypeOK
<1> QED BY <1>1, <1>3 DEF TypeOK, Leaving, Course, Effect, Counted

(* Unlinking moves a thread from one stage of its departure to the next. *)
LEMMA UnlinkStep ==
  ASSUME IInv, NEW d \in Daemons, NEW t \in Threads, Unlink(d, t)
  PROVE  IInv'
<1> USE DEF IInv, Unlink, clientVars, history
<1>1. TypeOK'
  BY DEF TypeOK
<1>2. \A e \in Daemons : unlinking'[e] \cup exiting'[e] = unlinking[e] \cup exiting[e]
  BY DEF TypeOK
<1>3. IdleSparesAdmitted'
  BY <1>2 DEF IdleSparesAdmitted
<1> QED BY <1>1, <1>3 DEF TypeOK, Leaving, Course, Effect, Counted

(* A dead process serves nothing, and its clients see the connection end. *)
LEMMA DieStep ==
  ASSUME IInv, NEW d \in Daemons, Die(d), crashes' \in 0..MaxCrashes
  PROVE  IInv'
<1> USE DEF IInv, Die, clientVars, history
<1>1. TypeOK'
  BY DEF TypeOK, Links
<1>2. IdleSparesAdmitted' /\ Leaving'
  BY DEF IdleSparesAdmitted, Leaving, TypeOK
<1>3. \A c \in Clients : link'[c] = link[c] \/ (link'[c] = "hung" /\ link[c] # "closed")
  BY DEF TypeOK
<1>4. \A c \in Clients : Counted(c)'
  <2> SUFFICES ASSUME NEW c \in Clients, link'[c] \in {"running", "executed"}
               PROVE  peer[c] \in Daemons /\ c \in active'[peer[c]]
    BY DEF Counted
  <2>1. link[c] = link'[c] /\ peer[c] # d
    BY DEF TypeOK
  <2> QED BY <2>1 DEF Counted, TypeOK
<1>5. \A c \in Clients : Course(c)' /\ Effect(c)'
  BY <1>3 DEF Course, Effect
<1> QED BY <1>1, <1>2, <1>4, <1>5

-------------------------------------------------------------------------------
(* Clients. *)

(* A client's own step touches its connection and the effects of its command,  *)
(* never a daemon's admission or departure.                                    *)
LEMMA CommandStep ==
  ASSUME IInv, NEW c \in Clients, Command(c) \/ SpawnTimeout(c)
  PROVE  IInv'
<1> USE ClientKinds DEF IInv, Move, ClientUnchanged, daemonVars, history
<1>1. CASE Connect(c)
  <2>1. CASE Reachable
    <3>1. /\ sock \in Daemons /\ cpc[c] \in {"connect", "poll"}
          /\ cpc' = [cpc EXCEPT ![c] = "handshake"] /\ peer' = [peer EXCEPT ![c] = sock]
          /\ link' = [link EXCEPT ![c] = "backlog"]
          /\ UNCHANGED <<spawned, out, active, taken, effect, crashes, sock, dpc, unlinking, exiting>>
      BY <1>1, <2>1 DEF Connect, Reachable
    <3>2. TypeOK'
      BY <3>1 DEF TypeOK, Links
    <3>3. IdleSparesAdmitted' /\ Leaving'
      BY <3>1 DEF IdleSparesAdmitted, Leaving, TypeOK
    <3> QED BY <3>1, <3>2, <3>3 DEF TypeOK, Course, Effect, Counted
  <2>2. CASE ~Reachable
    <3>1. /\ cpc[c] \in {"connect", "poll"}
          /\ \E to \in {"done", "poll", "spawn"} : cpc' = [cpc EXCEPT ![c] = to]
          /\ UNCHANGED <<link, peer, spawned, out, active, taken, effect, crashes, sock, dpc, unlinking, exiting>>
      BY <1>1, <2>2 DEF Connect, NoDaemon
    <3>2. TypeOK'
      BY <3>1 DEF TypeOK
    <3> QED BY <3>1, <3>2 DEF TypeOK, IdleSparesAdmitted, Leaving, Course, Effect, Counted
  <2> QED BY <2>1, <2>2
<1>2. CASE Shaken(c)
  <2>1. CASE link[c] = "ready" /\ Move(c, "submit") /\ UNCHANGED <<peer, link>>
    <3>1. TypeOK'
      BY <1>2, <2>1 DEF Shaken, TypeOK
    <3> QED BY <1>2, <2>1, <3>1 DEF Shaken, TypeOK, IdleSparesAdmitted, Leaving, Course, Effect, Counted
  <2>2. CASE Hung(c) /\ NoDaemon(c) /\ link' = [link EXCEPT ![c] = "closed"]
               /\ peer' = [peer EXCEPT ![c] = None]
    <3>1. /\ cpc[c] = "handshake"
          /\ \E to \in {"done", "poll", "spawn"} : cpc' = [cpc EXCEPT ![c] = to]
          /\ UNCHANGED <<spawned, out, active, taken, effect, crashes, sock, dpc, unlinking, exiting>>
      BY <1>2, <2>2 DEF Shaken, NoDaemon
    <3>2. TypeOK'
      BY <2>2, <3>1 DEF TypeOK, Links
    <3>3. IdleSparesAdmitted' /\ Leaving'
      BY <2>2, <3>1 DEF IdleSparesAdmitted, Leaving, TypeOK
    <3> QED BY <2>2, <3>1, <3>2, <3>3 DEF TypeOK, Course, Effect, Counted
  <2> QED BY <1>2, <2>1, <2>2 DEF Shaken
<1>3. CASE SpawnDaemon(c)
  <2>1. /\ cpc[c] = "spawn"
        /\ \E to \in {"poll", "fallback"} : cpc' = [cpc EXCEPT ![c] = to]
        /\ spawned' = [spawned EXCEPT ![c] = TRUE]
        /\ UNCHANGED <<sock, unlinking, exiting, active, peer, link, taken, effect, out, crashes>>
    BY <1>3 DEF SpawnDaemon
  <2>2. /\ \A e \in Daemons : dpc'[e] = dpc[e] \/ (dpc[e] = "off" /\ dpc'[e] = "create")
        /\ dpc' \in [Daemons -> {"off", "create", "probe", "unlink", "recreate", "listen",
                                 "serving", "gone"}]
    <3>1. CASE (\E d \in Daemons : dpc[d] = "off") /\ Step(NewDaemon, "off", "create")
      <4>1. NewDaemon \in Daemons /\ dpc[NewDaemon] = "off"
        BY <3>1 DEF NewDaemon
      <4> QED BY <3>1, <4>1 DEF Step, TypeOK
    <3>2. CASE UNCHANGED dpc
      BY <3>2 DEF TypeOK
    <3> QED BY <1>3, <3>1, <3>2 DEF SpawnDaemon
  <2>3. TypeOK'
    BY <2>1, <2>2 DEF TypeOK
  <2>4. IdleSparesAdmitted' /\ Leaving'
    BY <2>1, <2>2 DEF IdleSparesAdmitted, Leaving
  <2> QED BY <2>1, <2>3, <2>4 DEF TypeOK, Course, Effect, Counted
<1>4. CASE Submit(c)
  <2>1. CASE Hung(c)
    <3>1. /\ cpc[c] = "submit" /\ link[c] = "hung"
          /\ \/ cpc' = [cpc EXCEPT ![c] = "fallback"] /\ UNCHANGED out
             \/ cpc' = [cpc EXCEPT ![c] = "done"] /\ out' = [out EXCEPT ![c] = "unknown"]
          /\ UNCHANGED <<link, peer, spawned, active, taken, effect, crashes, sock, dpc, unlinking, exiting>>
      BY <1>4, <2>1 DEF Submit, Lost, Hung
    <3>2. TypeOK'
      BY <3>1 DEF TypeOK
    <3> QED BY <3>1, <3>2 DEF TypeOK, IdleSparesAdmitted, Leaving, Course, Effect, Counted
  <2>2. CASE ~Hung(c)
    <3>1. /\ cpc[c] = "submit" /\ cpc' = [cpc EXCEPT ![c] = "await"]
          /\ link' = [link EXCEPT ![c] = "request"]
          /\ UNCHANGED <<out, peer, spawned, active, taken, effect, crashes, sock, dpc, unlinking, exiting>>
      BY <1>4, <2>2 DEF Submit
    <3>2. TypeOK'
      BY <3>1 DEF TypeOK, Links
    <3>3. IdleSparesAdmitted' /\ Leaving'
      BY <3>1 DEF IdleSparesAdmitted, Leaving, TypeOK
    <3> QED BY <3>1, <3>2, <3>3 DEF TypeOK, Course, Effect, Counted
  <2> QED BY <2>1, <2>2
<1>5. CASE Await(c)
  <2>1. /\ cpc[c] = "await"
        /\ \/ link[c] = "replied" /\ out' = [out EXCEPT ![c] = "ok"]
                /\ \E to \in {"down", "done"} : cpc' = [cpc EXCEPT ![c] = to]
           \/ link[c] = "hung" /\ c \notin Mutating /\ cpc' = [cpc EXCEPT ![c] = "fallback"]
                /\ UNCHANGED out
           \/ link[c] = "hung" /\ cpc' = [cpc EXCEPT ![c] = "done"]
                /\ out' = [out EXCEPT ![c] = "unknown"]
        /\ UNCHANGED <<link, peer, spawned, active, taken, effect, crashes, sock, dpc, unlinking, exiting>>
    BY <1>5 DEF Await, Lost, Hung, Replayable
  <2>2. TypeOK'
    BY <2>1 DEF TypeOK
  <2> QED BY <2>1, <2>2 DEF TypeOK, IdleSparesAdmitted, Leaving, Course, Effect, Counted
<1>6. CASE WaitUntilUnreachable(c)
  <2>1. TypeOK'
    BY <1>6 DEF WaitUntilUnreachable, TypeOK
  <2> QED BY <1>6, <2>1 DEF WaitUntilUnreachable, TypeOK, IdleSparesAdmitted, Leaving, Course,
                            Effect, Counted
<1>7. CASE RunInProcess(c)
  <2>1. TypeOK'
    BY <1>7 DEF RunInProcess, TypeOK, Course
  <2>2. IdleSparesAdmitted' /\ Leaving' /\ \A b \in Clients : Counted(b)'
    BY <1>7 DEF RunInProcess, IdleSparesAdmitted, Leaving, Counted
  <2> QED BY <1>7, <2>1, <2>2 DEF RunInProcess, TypeOK, Course, Effect
<1>8. CASE SpawnTimeout(c)
  <2>1. TypeOK'
    BY <1>8 DEF SpawnTimeout, TypeOK
  <2> QED BY <1>8, <2>1 DEF SpawnTimeout, DeadlinePassed, TypeOK, IdleSparesAdmitted, Leaving,
                            Course, Effect, Counted
<1> QED BY <1>1, <1>2, <1>3, <1>4, <1>5, <1>6, <1>7, <1>8 DEF Command

-------------------------------------------------------------------------------
(* Every step preserves the invariant. *)
LEMMA IInvStep == IInv /\ [Next]_vars => IInv'
<1> SUFFICES ASSUME IInv, [Next]_vars PROVE IInv'
  OBVIOUS
<1>1. ASSUME NEW d \in Daemons, Exit(d) PROVE IInv'
  BY <1>1, DieStep DEF Exit, IInv, TypeOK
<1>2. ASSUME NEW d \in Daemons, Crash(d) PROVE IInv'
  <2>1. crashes' \in 0..MaxCrashes
    BY <1>2, CrashBound DEF Crash, IInv, TypeOK
  <2> QED BY <1>2, <2>1, DieStep DEF Crash
<1>3. CASE UNCHANGED vars
  BY <1>3 DEF vars, IInv, TypeOK, IdleSparesAdmitted, Leaving, Course, Effect, Counted
<1> QED
  BY <1>1, <1>2, <1>3, StartupStep, ServeStep, RetryStep, ExpireStep, UnlinkStep, CommandStep DEF Next, Progress

(* The invariant holds throughout. *)
LEMMA IInvAlways == Spec => []IInv
BY IInvInit, IInvStep, PTL DEF Spec

(* Whatever dies around it and however often its execution is cancelled, a Run, *)
(* Build or writing Fmt is taken up at most once, by a daemon or by the client, *)
(* and success is reported only of a command that has had its effects           *)
(* (client.rs Submitted, lib.rs route).                                         *)
THEOREM SubmittedAtMostOnce == Spec => []SubmittedOnce
<1>1. IInv => SubmittedOnce
  BY ClientKinds DEF IInv, Effect, SubmittedOnce
<1> QED BY <1>1, IInvAlways, PTL

(* From the watchdog's decision to the exit no request of the daemon is         *)
(* admitted or executing (idle.rs expire_if_idle and begin).                    *)
THEOREM ExpirySparesAdmitted == Spec => []IdleSparesAdmitted
<1>1. IInv => IdleSparesAdmitted
  BY DEF IInv
<1> QED BY <1>1, IInvAlways, PTL
===============================================================================
