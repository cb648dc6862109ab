------------------------------ MODULE Supervision ------------------------------
(* A supervised run: the daemon starts the program in a worker process, relays *)
(* its output to the client and the client's standard input to it, and reaps it *)
(* when the client goes away (fai-server/src/server.rs supervise, Conn) while  *)
(* the client relays in the other direction (client.rs stream_run_submitted).  *)
(*                                                                             *)
(* Chunks are tokens.  Every queue between two threads or processes is bounded: *)
(* the event channels, the pipes and the socket's buffers.  The worker writes, *)
(* reads and exits as it likes, closes its pipes only by exiting, and starts   *)
(* no process that would keep them open.                                       *)
EXTENDS Naturals, Sequences, FiniteSets

CONSTANTS
  Streams,     \* the worker's output pipes
  EventCap,    \* entries of the daemon's event channel (8)
  QueueCap,    \* entries of the client's event channel (8)
  PipeCap,     \* chunks a pipe holds
  SockCap      \* frames the socket holds in each direction

ASSUME CapAssumption == \A n \in {EventCap, QueueCap, PipeCap, SockCap} : n \in Nat \ {0}

VARIABLES
  child, pipe, stdin,   \* the worker and its pipes
  rpc,                  \* spawn_reader's threads
  ipc,                  \* the input thread
  wpc,                  \* the thread that waits for the worker
  mpc, hand, failed,    \* supervise, the event it has taken, its write failed
  events, open,         \* the event channel, and whether its receiver lives
  finished, disc,       \* the flags `finished` and `disconnected`
  fpc, frame, reqs,     \* the connection's reader, its frame and channel
  toServer, toClient,   \* the socket
  here,                 \* the client process lives
  npc, cq,              \* its network reader's message, and its event channel
  spc, credit,          \* its stdin reader, and the channel of credits
  cpc                   \* its main thread

NoMessage == "none"     \* no message in hand

worker == <<child, pipe, stdin>>
daemon == <<mpc, hand, failed, events, open, finished, disc, rpc, ipc, wpc>>
conn == <<fpc, frame, reqs>>
client == <<here, npc, cq, spc, credit, cpc>>
runVars == <<worker, daemon, conn, toServer, toClient, client>>

RunInit ==
  /\ child = "alive" /\ pipe = [s \in Streams |-> 0] /\ stdin = 0
  /\ rpc = [s \in Streams |-> "read"] /\ ipc = "first" /\ wpc = "watch"
  /\ mpc = "forward" /\ hand = NoMessage /\ failed = FALSE
  /\ events = <<>> /\ open = TRUE /\ finished = FALSE /\ disc = FALSE
  /\ fpc = "read" /\ frame = NoMessage /\ reqs = <<>> /\ toServer = <<>> /\ toClient = <<>>
  /\ here = TRUE /\ npc = NoMessage /\ cq = <<>> /\ spc = "credit" /\ credit = FALSE /\ cpc = "loop"

-------------------------------------------------------------------------------
(* The worker process. *)

ChildWrites(s) ==
  /\ child = "alive" /\ pipe[s] < PipeCap
  /\ pipe' = [pipe EXCEPT ![s] = @ + 1]
  /\ UNCHANGED <<child, stdin, daemon, conn, toServer, toClient, client>>

ChildReads ==
  /\ child = "alive" /\ stdin > 0 /\ stdin' = stdin - 1
  /\ UNCHANGED <<child, pipe, daemon, conn, toServer, toClient, client>>

ChildExits ==
  /\ child = "alive" /\ child' = "dead" /\ stdin' = 0
  /\ UNCHANGED <<pipe, daemon, conn, toServer, toClient, client>>

-------------------------------------------------------------------------------
(* The daemon's threads.  A send on the event channel waits for room and fails  *)
(* when the receiver is gone.                                                   *)

Sent(e) == open /\ Len(events) < EventCap /\ events' = Append(events, e)
Refused == ~open /\ UNCHANGED events

(* spawn_reader *)
ReadPipe(s) ==
  /\ rpc[s] = "read"
  /\ \/ /\ pipe[s] > 0 /\ pipe' = [pipe EXCEPT ![s] = @ - 1]
        /\ rpc' = [rpc EXCEPT ![s] = "send"]
     \/ /\ pipe[s] = 0 /\ child = "dead" /\ UNCHANGED pipe
        /\ rpc' = [rpc EXCEPT ![s] = "done"]
  /\ UNCHANGED <<child, stdin, mpc, hand, failed, events, open, finished, disc, ipc, wpc,
                 conn, toServer, toClient, client>>

SendChunk(s) ==
  /\ rpc[s] = "send"
  /\ \/ Sent("out") /\ rpc' = [rpc EXCEPT ![s] = "read"]
     \/ Refused /\ rpc' = [rpc EXCEPT ![s] = "done"]
  /\ UNCHANGED <<worker, mpc, hand, failed, open, finished, disc, ipc, wpc, conn,
                 toServer, toClient, client>>

(* The input thread: the first credit, then the loop over requests. *)
InputUnchanged == UNCHANGED <<mpc, hand, failed, open, finished, rpc, wpc, fpc, frame,
                              toServer, toClient, client>>

InputLoop ==
  /\ ipc = "loop" /\ ipc' = IF finished \/ disc THEN "done" ELSE "recv"
  /\ UNCHANGED <<worker, events, disc, reqs>> /\ InputUnchanged

InputRecv ==
  /\ ipc = "recv"
  /\ \/ /\ reqs # <<>> /\ reqs' = Tail(reqs)
        /\ ipc' = CASE Head(reqs) = "input" -> "write" [] Head(reqs) = "err" -> "done"
                    [] OTHER -> "last"
        /\ disc' = (disc \/ Head(reqs) = "exit")
     \/ reqs = <<>> /\ ipc' = (IF fpc = "done" THEN "done" ELSE "loop")
        /\ UNCHANGED <<reqs, disc>>
  /\ UNCHANGED <<worker, events>> /\ InputUnchanged

InputWrite ==
  /\ ipc = "write"
  /\ \/ child = "alive" /\ stdin < PipeCap /\ stdin' = stdin + 1 /\ ipc' = "tell"
     \/ child = "dead" /\ ipc' = "last" /\ UNCHANGED stdin
  /\ UNCHANGED <<child, pipe, events, disc, reqs>> /\ InputUnchanged

(* The credits and the copies of requests for the taps. *)
InputSend ==
  /\ \/ ipc = "first" /\ (Sent("ready") \/ Refused) /\ ipc' = "loop"
     \/ ipc = "tell" /\ Sent("input") /\ ipc' = "ready"
     \/ ipc = "ready" /\ Sent("ready") /\ ipc' = "loop"
     \/ ipc \in {"tell", "ready"} /\ Refused /\ ipc' = "done"
     \/ ipc = "last" /\ (Sent("input") \/ Refused) /\ ipc' = "done"
  /\ UNCHANGED <<worker, disc, reqs>> /\ InputUnchanged

(* The thread that reaps the worker: the client is gone, or it has ended ... *)
ReapBlind == child = "dead"                  \* slip: a disconnected client is not noticed
Reap == disc \/ child = "dead"

WatchdogUnchanged == UNCHANGED <<pipe, mpc, hand, failed, events, open, disc, rpc, ipc, conn,
                                 toServer, toClient, client>>

Watch ==
  /\ wpc = "watch" /\ Reap
  /\ wpc' = "reaped" /\ child' = "dead" /\ stdin' = 0
  /\ UNCHANGED finished /\ WatchdogUnchanged

(* ... or its time is up. *)
Timeout ==
  /\ wpc = "watch" /\ child = "alive"
  /\ wpc' = "reaped" /\ child' = "dead" /\ stdin' = 0
  /\ UNCHANGED finished /\ WatchdogUnchanged

Announce ==
  /\ wpc = "reaped" /\ wpc' = "done" /\ finished' = TRUE
  /\ UNCHANGED <<child, stdin>> /\ WatchdogUnchanged

(* supervise: forward events until every sender has ended. *)
SendersInputOnly == ipc = "done"             \* slip: the end of the worker ends the loop
SendersGone == ipc = "done" /\ \A s \in Streams : rpc[s] = "done"

MainUnchanged == UNCHANGED <<worker, finished, rpc, ipc, wpc, fpc, frame, toServer, client>>

TakeEvent ==
  /\ mpc = "forward"
  /\ \/ /\ events # <<>> /\ hand' = Head(events) /\ events' = Tail(events)
        /\ mpc' = "deliver" /\ UNCHANGED open
     \/ /\ events = <<>> /\ SendersGone /\ mpc' = "join" /\ open' = FALSE
        /\ UNCHANGED <<hand, events>>
  /\ UNCHANGED <<failed, disc, reqs, toClient>> /\ MainUnchanged

(* A failed write drops the receiver, and with it the events in the channel. *)
Deliver ==
  /\ mpc = "deliver" /\ hand' = NoMessage
  /\ \/ hand = "input" /\ mpc' = "forward" /\ UNCHANGED <<failed, disc, events, open, toClient>>
     \/ /\ hand # "input" /\ here /\ Len(toClient) < SockCap
        /\ toClient' = Append(toClient, hand)
        /\ mpc' = "forward" /\ UNCHANGED <<failed, disc, events, open>>
     \/ /\ hand # "input" /\ ~here
        /\ mpc' = "join" /\ failed' = TRUE /\ disc' = TRUE /\ open' = FALSE /\ events' = <<>>
        /\ UNCHANGED toClient
  /\ UNCHANGED reqs /\ MainUnchanged

(* Join the readers and the input thread, receive the exit code. *)
JoinThreads ==
  /\ mpc = "join" /\ ipc = "done" /\ wpc = "done" /\ \A s \in Streams : rpc[s] = "done"
  /\ mpc' = IF failed THEN "ended" ELSE "result"
  /\ UNCHANGED <<hand, failed, disc, events, open, reqs, toClient>> /\ MainUnchanged

(* handle_run's answer. *)
Answer ==
  /\ mpc = "result"
  /\ \/ here /\ Len(toClient) < SockCap /\ toClient' = Append(toClient, "result")
        /\ mpc' = "serve" /\ UNCHANGED disc
     \/ ~here /\ mpc' = "ended" /\ disc' = TRUE /\ UNCHANGED toClient
  /\ UNCHANGED <<hand, failed, events, open, reqs>> /\ MainUnchanged

(* handle_connection, after the run: late input is discarded. *)
ServeNext ==
  /\ mpc = "serve" /\ reqs # <<>> /\ reqs' = Tail(reqs)
  /\ mpc' = IF Head(reqs) \in {"input", "eof"} THEN "serve" ELSE "ended"
  /\ UNCHANGED <<hand, failed, disc, events, open, toClient>> /\ MainUnchanged

(* Conn::new's reader: a channel of one request. *)
ReadFrame ==
  /\ fpc = "read" /\ fpc' = "put"
  /\ \/ toServer # <<>> /\ frame' = Head(toServer) /\ toServer' = Tail(toServer) /\ UNCHANGED disc
     \/ toServer = <<>> /\ ~here /\ frame' = "err" /\ disc' = TRUE /\ UNCHANGED toServer
  /\ UNCHANGED <<worker, mpc, hand, failed, events, open, finished, rpc, ipc, wpc, reqs,
                 toClient, client>>

PutRequest ==
  /\ fpc = "put" /\ frame' = NoMessage
  /\ \/ mpc = "ended" /\ fpc' = "done" /\ UNCHANGED reqs
     \/ /\ mpc # "ended" /\ reqs = <<>> /\ reqs' = <<frame>>
        /\ fpc' = IF frame = "err" THEN "done" ELSE "read"
  /\ UNCHANGED <<worker, daemon, toServer, toClient, client>>

-------------------------------------------------------------------------------
(* The client's threads. *)

Queued(e) == Len(cq) < QueueCap /\ cq' = Append(cq, e)
ClientUnchanged == UNCHANGED <<worker, daemon, conn, here>>

(* The network reader: takes a message, then queues it. *)
Receive ==
  /\ here
  /\ \/ npc = NoMessage /\ toClient # <<>> /\ npc' = Head(toClient) /\ toClient' = Tail(toClient)
        /\ UNCHANGED cq
     \/ npc # NoMessage /\ Queued(npc) /\ npc' = NoMessage /\ UNCHANGED toClient
  /\ UNCHANGED <<toServer, spc, credit, cpc>> /\ ClientUnchanged

(* The stdin reader: one read for each credit; a read may fail. *)
HasCreditFree == TRUE                        \* slip: input is sent without a credit
HasCredit == credit

TakeCredit ==
  /\ here /\ spc = "credit" /\ HasCredit
  /\ credit' = FALSE /\ spc' = "stdin"
  /\ UNCHANGED <<toServer, toClient, npc, cq, cpc>> /\ ClientUnchanged

ReadStdin ==
  /\ here /\ spc = "stdin" /\ spc' \in {"input", "eof", "broken"}
  /\ UNCHANGED <<toServer, toClient, npc, cq, credit, cpc>> /\ ClientUnchanged

QueueInput ==
  /\ here /\ spc \in {"input", "eof", "broken"} /\ Queued(spc)
  /\ spc' = IF spc = "input" THEN "credit" ELSE "done"
  /\ UNCHANGED <<toServer, toClient, npc, credit, cpc>> /\ ClientUnchanged

(* The main loop; the terminal may refuse output, and a credit may find the     *)
(* channel of credits occupied, which is a protocol error.                      *)
Handle ==
  /\ here /\ cpc = "loop" /\ cq # <<>> /\ cq' = Tail(cq)
  /\ \/ Head(cq) \in {"input", "eof"} /\ cpc' = Head(cq) /\ UNCHANGED credit
     \/ Head(cq) = "ready" /\ cpc' = (IF credit THEN "fail" ELSE "loop") /\ credit' = TRUE
     \/ Head(cq) = "out" /\ cpc' \in {"loop", "fail"} /\ UNCHANGED credit
     \/ Head(cq) = "broken" /\ cpc' = "fail" /\ UNCHANGED credit
     \/ Head(cq) = "result" /\ cpc' = "ok" /\ UNCHANGED credit
  /\ UNCHANGED <<toServer, toClient, npc, spc>> /\ ClientUnchanged

(* An input, or the Exit of a failed run. *)
SendRequest ==
  /\ here /\ cpc \in {"input", "eof", "fail"} /\ Len(toServer) < SockCap
  /\ toServer' = Append(toServer, IF cpc = "fail" THEN "exit" ELSE cpc)
  /\ cpc' = IF cpc = "fail" THEN "failed" ELSE "loop"
  /\ UNCHANGED <<toClient, npc, cq, spc, credit>> /\ ClientUnchanged

(* The process ends: its threads and what they hold are gone. *)
Leave ==
  /\ here' = FALSE /\ toClient' = <<>> /\ npc' = NoMessage /\ cq' = <<>>
  /\ spc' = "done" /\ credit' = FALSE
  /\ UNCHANGED <<toServer, worker, daemon, conn>>

Quit == here /\ cpc \in {"ok", "failed"} /\ UNCHANGED cpc /\ Leave

(* The user interrupts the client. *)
Interrupt == here /\ cpc \notin {"ok", "failed"} /\ cpc' = "gone" /\ Leave

-------------------------------------------------------------------------------
Reader(s) == ReadPipe(s) \/ SendChunk(s)
InputThread == InputLoop \/ InputRecv \/ InputWrite \/ InputSend
Main == TakeEvent \/ Deliver \/ JoinThreads \/ Answer \/ ServeNext
FrameReader == ReadFrame \/ PutRequest
StdinReader == TakeCredit \/ QueueInput
ClientMain == Handle \/ SendRequest \/ Quit

Over == mpc = "ended" /\ fpc = "done" /\ UNCHANGED runVars

RunNext ==
  \/ \E s \in Streams : ChildWrites(s) \/ Reader(s)
  \/ ChildReads \/ ChildExits \/ InputThread \/ Watch \/ Timeout \/ Announce \/ Main \/ FrameReader
  \/ Receive \/ StdinReader \/ ReadStdin \/ ClientMain \/ Interrupt \/ Over

RunSpec == RunInit /\ [][RunNext]_runVars

(* Every thread runs while it can.  The worker need not do anything, its time   *)
(* need not run out, the terminal need not deliver input, and the client need   *)
(* not be interrupted.                                                          *)
RunFairSpec ==
  /\ RunSpec
  /\ \A s \in Streams : WF_runVars(Reader(s))
  /\ WF_runVars(InputThread) /\ WF_runVars(Watch \/ Announce) /\ WF_runVars(Main)
  /\ WF_runVars(FrameReader) /\ WF_runVars(Receive) /\ WF_runVars(StdinReader)
  /\ WF_runVars(ClientMain)

-------------------------------------------------------------------------------
(* Properties *)

Count(queue, what) == Cardinality({i \in DOMAIN queue : queue[i] \in what})
Holds(b) == IF b THEN 1 ELSE 0

(* Where a credit for standard input can be: an InputReady on its way to the    *)
(* client, a credit, a read of the terminal, an input on its way to the daemon, *)
(* or the input thread at work on one.                                          *)
Credits ==
  Holds(ipc \in {"first", "write", "tell", "ready"})
  + Count(events, {"ready"}) + Holds(hand = "ready") + Count(toClient, {"ready"})
  + Holds(npc = "ready") + Count(cq, {"ready", "input", "eof"}) + Holds(credit)
  + Holds(spc \in {"stdin", "input", "eof", "broken"}) + Holds(cpc \in {"input", "eof"})
  + Count(toServer, {"input", "eof"}) + Holds(frame \in {"input", "eof"})
  + Count(reqs, {"input", "eof"})

(* There is never more than one credit.  So the client's credit.try_send never  *)
(* finds the channel occupied, and the daemon's reader of frames is never kept  *)
(* from noticing a disconnection by queued input (server.rs supervise,          *)
(* client.rs stream_run_submitted).                                             *)
OneCredit == Credits <= 1

(* A client that is told how the program ended has received all of its output,  *)
(* on both streams: none is left in a pipe, with a thread or in a queue.        *)
OutputComplete ==
  cpc = "ok" /\ here =>
    /\ \A s \in Streams : pipe[s] = 0 /\ rpc[s] = "done"
    /\ \A queue \in {events, toClient, cq, <<hand, npc>>} : \A i \in DOMAIN queue : queue[i] # "out"

(* A run whose program has ended is answered, however full the queues are in    *)
(* both directions; when the client has gone the worker is reaped and no thread *)
(* of the connection is left, without waiting for the time limit.               *)
SupervisionEnds ==
  /\ child = "dead" ~> mpc \in {"serve", "ended"}
  /\ ~here ~> child = "dead" /\ mpc = "ended" /\ fpc = "done"
===============================================================================
