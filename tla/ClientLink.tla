------------------------------ MODULE ClientLink ------------------------------
(***************************************************************************)
(* The client side of the IPC manager: how a process that is not a runtime *)
(* sends tasks to a runtime, waits for them, and goes on when the runtime  *)
(* dies, comes back, or is replaced by another one.                        *)
(*                                                                         *)
(* A call is a future: Send gives it to the runtime, over ZeroMQ or        *)
(* through shared memory, and Wait runs Recv.  Recv may find the server    *)
(* dead and reconnect, which sends and awaits tasks of its own, so that a  *)
(* caller has a stack of futures it is waiting for.  Three threads work    *)
(* beside the callers: RecvZmqClientThread, which completes futures,       *)
(* HeartbeatThread, which stores what it thinks of the server in           *)
(* server_alive_, and the server.  A task and its future are found by the  *)
(* address of the task (net_key_), and addresses are used again.           *)
(*                                                                         *)
(* Time is not modelled: a wait with a limit may end whenever it is        *)
(* looked at, and client_retry_timeout_ may be over before any attempt.    *)
(***************************************************************************)
EXTENDS Naturals, Sequences, FiniteSets

CONSTANTS
  Callers,        \* futures the process may have outstanding at a time, 1 .. n
  Addresses,      \* where tasks may lie, 1 .. n
  Hosts,          \* the hosts a runtime may run on (hostfile_map_)
  Original,       \* the host ClientInit connected to
  Cases,          \* the configurations of the client and the bounds on what
                  \* happens to it (see CaseSet)
  MaxAttempts     \* attempts to reconnect that client_retry_timeout_ allows

(* CHI_IPC_MODE; client_retry_timeout_ # 0; client_try_new_servers_; whether *)
(* Wait has a max_sec; and how many futures are outstanding at a time,       *)
(* whether they are waited for by threads of their own or one after the      *)
(* other, how many calls are made, how often a runtime dies, how often one   *)
(* starts again and how often a probe of it fails wrongly.                   *)
CaseSet ==
  [ipc : {"tcp", "shm"}, retry : BOOLEAN, new : Nat, limited : BOOLEAN,
   callers : Nat, threads : BOOLEAN, call : Nat, crash : Nat, restart : Nat, alarm : Nat]

ASSUME LinkAssumption ==
  /\ Original \in Hosts
  /\ Callers \subseteq Nat /\ Addresses \subseteq Nat /\ IsFiniteSet(Addresses)
  /\ Cases \subseteq CaseSet
  /\ MaxAttempts \in Nat \ {0}

VARIABLES
  case,          \* the configuration
  mode,          \* ipc_mode_
  link,          \* the host zmq_transport_ is connected to
  attached,      \* the shared memory mapped is that of the running server
  alive,         \* server_alive_
  probe,         \* what HeartbeatThread has found and not stored, or "none"
  reconnecting,  \* reconnecting_
  stack,         \* [caller -> the futures it waits for, the call first]
  pending,       \* pending_zmq_futures_: [address -> future, or 0]
  archives,      \* pending_response_archives_: [address -> future, or 0]
  complete,      \* the futures with FUTURE_COMPLETE
  freed,         \* the FutureShm objects that are freed and still referred to
  leaked,        \* the addresses of tasks that nobody will free
  msgs,          \* ZeroMQ messages on the way
  running,       \* the tasks that came to a server through shared memory
  written,       \* futures whose outputs are in the copy space
  up,            \* the hosts whose runtime runs
  count,         \* [event -> how often it has happened]
  lost,          \* futures that nothing will complete (history)
  result         \* [caller -> how its last call ended] (history)

client == <<case, mode, link, attached, reconnecting, pending, archives,
            freed, leaked>>
heart == <<alive, probe>>
server == <<running, written, up>>
ghost == <<lost, result>>
vars == <<client, heart, stack, complete, msgs, server, count, ghost>>

Events == {"call", "crash", "restart", "alarm"}
Happens(e) == /\ count[e] < case[e]
              /\ count' = [count EXCEPT ![e] = @ + 1]

Least(S) == CHOOSE x \in S : \A y \in S : x <= y
FrameSet == UNION {{stack[c][i] : i \in DOMAIN stack[c]} : c \in Callers}

(* malloc: the lowest free address, so that addresses are used again.       *)
FreeAddresses == Addresses \ (leaked \cup {f.key : f \in FrameSet})
FreeAddress == Least(FreeAddresses)

(* Futures are numbered; a number is used again when nothing refers to it.  *)
Futures == 1 .. 4 * Cardinality(Addresses)
FreeFutures ==
  Futures \ ( {f.fut : f \in FrameSet} \cup {m.fut : m \in msgs}
              \cup {r.fut : r \in running}
              \cup {pending[k] : k \in Addresses}
              \cup {archives[k] : k \in Addresses} )
NewFuture == Least(FreeFutures)

(* Bound: there is memory for another task and its FutureShm.               *)
Room == FreeAddresses # {} /\ FreeFutures # {}

(* A future that is waited for: what for, the task's address, the           *)
(* FutureShm, how often it was sent again, origin_, whether the wait has a  *)
(* limit, where Recv is, and how many attempts to reconnect it has made.    *)
(* For the properties: whether an answer that nobody waits for may still    *)
(* come to this address, and whether the task was sent through shared       *)
(* memory.                                                                  *)
Frame(kind, key, fut, origin, pc, limited) ==
  [kind |-> kind, key |-> key, fut |-> fut, try |-> 0, origin |-> origin,
   pc |-> pc, limited |-> limited, attempts |-> 0,
   strays |-> \E m \in msgs : m.key = key /\ m.left,
   shared |-> origin = "shm"]

Top(c) == stack[c][Len(stack[c])]
Below(c) == SubSeq(stack[c], 1, Len(stack[c]) - 1)
SetTop(c, f) == [stack EXCEPT ![c] = Append(Below(c), f)]
At(c, pc) == stack[c] # <<>> /\ Top(c).pc = pc

Request(f) == [type |-> "req", host |-> link, key |-> f.key, fut |-> f.fut,
               try |-> f.try, left |-> FALSE]

(* The messages about a task that nobody waits for any more (history).      *)
LeftBy(f) == {IF m.fut = f.fut THEN [m EXCEPT !.left = TRUE] ELSE m : m \in msgs}

(* The future f has somebody who will complete it.                          *)
Served(fut, messages, tasks) ==
  (\E m \in messages : m.fut = fut) \/ (\E r \in tasks : r.fut = fut)

-----------------------------------------------------------------------------
(* Send.                                                                    *)

(* SendZmq: the future is registered under the address of the task, then    *)
(* the task is sent; ZeroMQ keeps it while the server is away.              *)
SendZmq(f) ==
  /\ pending' = [pending EXCEPT ![f.key] = f.fut]
  /\ msgs' = msgs \cup {Request(f)}
  /\ complete' = complete \ {f.fut}
  /\ lost' = lost \ {f.fut}

(* SendShm: the future is pushed on a lane in the memory that is mapped;    *)
(* the worker reads the inputs from it.                                     *)
SendShm(f) ==
  /\ running' = running \cup
       (IF attached
        THEN {[host |-> link, key |-> f.key, fut |-> f.fut]}
        ELSE {})
  /\ complete' = complete \ {f.fut}
  /\ written' = written \ {f.fut}
  /\ lost' = IF attached THEN lost ELSE lost \cup {f.fut}

Send(c) ==
  /\ stack[c] = <<>>
  /\ c = Least({d \in Callers : stack[d] = <<>>}) /\ c <= case.callers
  /\ Room
  /\ Happens("call")
  /\ LET f == Frame("call", FreeAddress, NewFuture,
                    IF mode = "shm" THEN "shm" ELSE "zmq", "sent",
                    case.limited)
     IN /\ stack' = [stack EXCEPT ![c] = <<f>>]
        /\ IF mode = "shm"
           THEN SendShm(f) /\ UNCHANGED <<pending, msgs, up>>
           ELSE SendZmq(f) /\ UNCHANGED server
  /\ UNCHANGED <<case, mode, link, attached, reconnecting, archives, freed,
                 leaked, heart, result>>

-----------------------------------------------------------------------------
(* The end of a wait, Recv and ~Future with it.                             *)

FailedFrees(c) ==
  LET f == Top(c)
  IN /\ freed' = IF \E k \in Addresses : pending[k] = f.fut
                 THEN freed \cup {[fut |-> f.fut, shared |-> FALSE]} ELSE freed
     /\ msgs' = IF f.kind = "connect" THEN LeftBy(f) ELSE msgs
     /\ UNCHANGED <<archives, leaked>>

FailedDeletesTask(c) ==
  /\ msgs' = IF Top(c).kind = "connect" THEN LeftBy(Top(c)) ELSE msgs
  /\ UNCHANGED <<archives, freed, leaked>>

(* Wait has failed: nothing is consumed, so that neither the task nor the   *)
(* FutureShm is freed and the registration stays.  WaitForLocalServer       *)
(* deletes its task all the same.                                           *)
Failed(c) ==
  LET f == Top(c)
  IN /\ leaked' = IF f.kind = "connect" THEN leaked ELSE leaked \cup {f.key}
     /\ msgs' = IF f.kind = "connect" THEN LeftBy(f) ELSE msgs
     /\ UNCHANGED <<archives, freed>>

(* Wait has succeeded: the outputs are loaded from the archive, then the    *)
(* archive, the FutureShm and the task are freed.                           *)
Consumed(c) ==
  LET f == Top(c)
  IN /\ archives' = IF f.origin = "shm" THEN archives
                    ELSE [archives EXCEPT ![f.key] = 0]
     /\ freed' = IF \/ \E k \in Addresses : pending[k] = f.fut
                    \/ \E r \in running : r.fut = f.fut
                 THEN freed \cup {[fut |-> f.fut, shared |-> f.shared]}
                 ELSE freed
     /\ msgs' = IF f.try > 0 \/ f.strays THEN LeftBy(f) ELSE msgs
     /\ UNCHANGED leaked

Own == [answer |-> "own", excused |-> FALSE]

Outcome(f, ok) ==
  IF ~ok \/ f.origin = "shm" \/ archives[f.key] = f.fut THEN Own
  ELSE [answer |-> IF archives[f.key] = 0 THEN "none" ELSE "other",
        excused |-> f.strays \/ f.try > 0 \/ f.fut \in lost]

(* The caller of Wait goes on: the application with its next call,          *)
(* ReconnectToOriginalHost with WaitForLocalServer, whatever became of the  *)
(* registration, and WaitForServerAndReconnect with sending its task again  *)
(* or with the next attempt.                                                *)
GoOn(c, ok, still) ==
  LET f == Top(c)
      rest == Below(c)
      waiter == rest[Len(rest)]
      connected == f.kind = "connect" /\ ok
      resumed == IF f.kind = "register" THEN [waiter EXCEPT !.pc = "verify"]
                 ELSE IF connected THEN [waiter EXCEPT !.pc = "resend"]
                 ELSE [waiter EXCEPT !.attempts = @ + 1]
  IN /\ stack' = [stack EXCEPT ![c] =
                    IF f.kind = "call" THEN <<>>
                    ELSE [rest EXCEPT ![Len(rest)] = resumed]]
     /\ result' = IF f.kind = "call"
                  THEN [result EXCEPT ![c] = Outcome(f, ok)] ELSE result
     /\ alive' = (connected \/ alive)
     /\ reconnecting' = (still /\ ~connected)
     /\ complete' = complete \ {f.fut}
     /\ written' = written \ {f.fut}
     /\ lost' = lost \ {f.fut}
     /\ UNCHANGED <<case, mode, link, attached, probe, pending, running, up,
                    count>>

WaitFails(c, still) == Failed(c) /\ GoOn(c, FALSE, still)
WaitSucceeds(c) == Consumed(c) /\ GoOn(c, TRUE, reconnecting)

-----------------------------------------------------------------------------
(* Recv.                                                                    *)

Goto(c, pc) ==
  /\ stack' = SetTop(c, [Top(c) EXCEPT !.pc = pc])
  /\ UNCHANGED <<client, heart, complete, msgs, server, count, ghost>>

(* The server is found dead: fail, or call WaitForServerAndReconnect.       *)
ServerDead(c) ==
  IF ~case.retry /\ case.new = 0 THEN WaitFails(c, reconnecting)
  ELSE Goto(c, "dead")

(* Wait is called.                                                          *)
Wait(c) ==
  /\ At(c, "sent")
  /\ case.threads \/ \A d \in Callers : stack[d] # <<>> => At(d, "sent")
  /\ IF Top(c).origin = "zmq" THEN Goto(c, "loop")
     ELSE IF alive THEN Goto(c, "shm_read") ELSE ServerDead(c)

(* The transport's Recv, which waits for the outputs and looks at nothing   *)
(* else.                                                                    *)
RecvShm(c) ==
  /\ At(c, "shm_read")
  /\ Top(c).fut \in written
  /\ Goto(c, "shm_flag")

RecvShmFlag(c) ==
  /\ At(c, "shm_flag")
  /\ \/ Top(c).fut \in complete /\ WaitSucceeds(c)
     \/ ~alive /\ ServerDead(c)
     \/ Top(c).limited /\ WaitFails(c, reconnecting)

(* The loop that waits for FUTURE_COMPLETE.                                 *)
RecvZmq(c) ==
  /\ At(c, "loop")
  /\ \/ Top(c).fut \in complete /\ WaitSucceeds(c)
     \/ Top(c).limited /\ WaitFails(c, reconnecting)
     \/ ~alive /\ ~reconnecting /\ ServerDead(c)

-----------------------------------------------------------------------------
(* WaitForServerAndReconnect.                                               *)

(* Its first statement is the one that sets reconnecting_.                  *)
WaitForServerAndReconnect(c) ==
  /\ At(c, "dead")
  /\ reconnecting' = TRUE
  /\ stack' = SetTop(c, [Top(c) EXCEPT
                           !.pc = IF case.retry THEN "original" ELSE "newhost",
                           !.attempts = 0])
  /\ UNCHANGED <<case, mode, link, attached, pending, archives, freed, leaked,
                 heart, complete, msgs, server, count, ghost>>

(* A task of the client itself: ClientConnectTask, whose wait has a limit,  *)
(* and RegisterMemoryTask, whose wait has none.                             *)
Push(c, waiter, kind, address, fut) ==
  LET f == Frame(kind, address, fut, "zmq", "loop", kind = "connect")
  IN /\ stack' = [stack EXCEPT ![c] = Append(Append(Below(c), waiter), f)]
     /\ SendZmq(f)

(* ReconnectToOriginalHost.  With shared memory, the segment of the server  *)
(* that runs is attached first, and the segments of this process are        *)
(* registered with it.                                                      *)
ReconnectToOriginalHost(c) ==
  /\ At(c, "original")
  /\ Top(c).attempts < MaxAttempts
  /\ IF mode = "shm" /\ link \notin up
     THEN /\ stack' = SetTop(c, [Top(c) EXCEPT !.attempts = @ + 1])
          /\ attached' = FALSE
          /\ UNCHANGED <<pending, msgs, complete, lost>>
     ELSE /\ Room
          /\ Push(c, Top(c), IF mode = "shm" THEN "register" ELSE "connect",
                  FreeAddress, NewFuture)
          /\ attached' = (mode = "shm")
  /\ UNCHANGED <<case, mode, link, reconnecting, archives, freed, leaked,
                 heart, server, count, result>>

WaitForLocalServer(c) ==
  /\ At(c, "verify")
  /\ Room
  /\ Push(c, [Top(c) EXCEPT !.pc = "original"], "connect", FreeAddress,
          NewFuture)
  /\ UNCHANGED <<case, mode, link, attached, reconnecting, archives, freed,
                 leaked, heart, server, count, result>>

(* client_retry_timeout_ is over.                                           *)
GiveUpOriginal(c) ==
  /\ At(c, "original")
  /\ stack' = SetTop(c, [Top(c) EXCEPT !.pc = "newhost", !.attempts = 0])
  /\ UNCHANGED <<client, heart, complete, msgs, server, count, ghost>>

(* ReconnectToNewHost: the transport and all it holds is replaced, and with *)
(* it what any caller had registered.                                       *)
ReconnectToNewHost(c) ==
  /\ At(c, "newhost")
  /\ Top(c).attempts < case.new
  /\ Room
  /\ \E h \in Hosts :
       LET f == Frame("connect", FreeAddress, NewFuture, "zmq", "loop", TRUE)
       IN /\ link' = h
          /\ stack' = [stack EXCEPT ![c] = Append(@, f)]
          /\ pending' = [k \in Addresses |-> IF k = f.key THEN f.fut ELSE 0]
          /\ archives' = [k \in Addresses |-> 0]
          /\ \E read \in SUBSET {m \in msgs : m.type = "req" /\ m.host \in up} :
               msgs' = read \cup {[Request(f) EXCEPT !.host = h]}
          /\ complete' = complete \ {f.fut}
          /\ lost' = (lost \cup {g.fut : g \in {g \in FrameSet :
                                                  g.origin = "zmq"}})
                     \ {f.fut}
  /\ mode' = "tcp"
  /\ attached' = FALSE
  /\ UNCHANGED <<case, reconnecting, freed, leaked, heart, server, count,
                 result>>

GiveUpKeepsFlag(c) ==
  /\ At(c, "newhost")
  /\ Top(c).attempts >= case.new
  /\ WaitFails(c, TRUE)

(* No host is left to try.                                                  *)
GiveUp(c) ==
  /\ At(c, "newhost")
  /\ Top(c).attempts >= case.new
  /\ WaitFails(c, FALSE)

ResendTaskErases(c) ==
  /\ At(c, "resend")
  /\ LET f == [Top(c) EXCEPT !.pc = "loop", !.origin = "zmq", !.try = @ + 1]
     IN /\ stack' = SetTop(c, f)
        /\ archives' = [archives EXCEPT ![f.key] = 0]
        /\ pending' = [pending EXCEPT ![f.key] = 0]
        /\ msgs' = msgs \cup {Request(f)}
        /\ complete' = complete \ {f.fut}
        /\ lost' = lost \ {f.fut}
  /\ UNCHANGED <<case, mode, link, attached, reconnecting, freed, leaked,
                 heart, server, count, result>>

(* ResendTask: what is known of the task is forgotten, then it is           *)
(* registered and sent as by SendZmq.                                       *)
ResendTask(c) ==
  /\ At(c, "resend")
  /\ LET f == [Top(c) EXCEPT !.pc = "loop", !.origin = "zmq", !.try = @ + 1]
     IN /\ stack' = SetTop(c, f)
        /\ archives' = [archives EXCEPT ![f.key] = 0]
        /\ SendZmq(f)
  /\ UNCHANGED <<case, mode, link, attached, reconnecting, freed, leaked,
                 heart, server, count, result>>

-----------------------------------------------------------------------------
(* The threads beside the callers.                                          *)

RecvZmqClientThreadErases ==
  /\ \E m \in msgs :
       /\ m.type = "rep" /\ pending[m.key] # 0
       /\ msgs' = msgs \ {m}
       /\ archives' = [archives EXCEPT ![m.key] = m.fut]
       /\ complete' = complete \cup {pending[m.key]}
       /\ pending' = [k \in Addresses \ {m.key} |-> pending[k]]
  /\ UNCHANGED <<case, mode, link, attached, reconnecting, freed, leaked,
                 heart, stack, server, count, ghost>>

RecvZmqClientThread ==
  /\ \E m \in msgs :
       /\ m.type = "rep"
       /\ msgs' = msgs \ {m}
       /\ IF pending[m.key] # 0
          THEN /\ archives' = [archives EXCEPT ![m.key] = m.fut]
               /\ complete' = complete \cup {pending[m.key]}
               /\ pending' = [pending EXCEPT ![m.key] = 0]
          ELSE UNCHANGED <<archives, complete, pending>>
  /\ UNCHANGED <<case, mode, link, attached, reconnecting, freed, leaked,
                 heart, stack, server, count, ghost>>

(* IsServerAlive: a connection is tried; a server that is busy may not      *)
(* accept it in time.                                                       *)
IsServerAlive ==
  /\ probe = "none"
  /\ \/ probe' = (IF link \in up THEN "up" ELSE "down") /\ UNCHANGED count
     \/ /\ link \in up
        /\ Happens("alarm")
        /\ probe' = "down"
  /\ UNCHANGED <<client, alive, stack, complete, msgs, server, ghost>>

StoreAlive ==
  /\ probe # "none"
  /\ alive' = (probe = "up")
  /\ probe' = "none"
  /\ UNCHANGED <<client, stack, complete, msgs, server, count, ghost>>

HeartbeatThread == IsServerAlive \/ StoreAlive

-----------------------------------------------------------------------------
(* The server.                                                              *)

(* ClientRecv makes a task of the message, the task runs, and ClientSend    *)
(* sends its outputs to the connection it came from.  A request counts as   *)
(* on its way until then.                                                   *)
ServeZmq ==
  /\ \E m \in msgs :
       /\ m.type = "req" /\ m.host \in up
       /\ msgs' = (msgs \ {m}) \cup
                    (IF m.host = link THEN {[m EXCEPT !.type = "rep"]} ELSE {})
  /\ UNCHANGED <<client, heart, stack, complete, server, count, ghost>>

(* EndTask of a task that came through shared memory: unless the client has *)
(* changed origin_ in the meantime, which makes ClientSend drop the task,   *)
(* EndTaskShmTransfer writes the outputs, then FUTURE_COMPLETE.             *)
ShmOutputs ==
  /\ \E r \in running :
       /\ r.fut \notin written
       /\ IF \E f \in FrameSet : f.fut = r.fut /\ f.origin = "zmq"
          THEN running' = running \ {r} /\ UNCHANGED written
          ELSE written' = written \cup {r.fut} /\ UNCHANGED running
  /\ UNCHANGED <<client, heart, stack, complete, msgs, up, count, ghost>>

ShmComplete ==
  /\ \E r \in running :
       /\ r.fut \in written
       /\ complete' = complete \cup {r.fut}
       /\ running' = running \ {r}
  /\ UNCHANGED <<client, heart, stack, msgs, written, up, count, ghost>>

(* A runtime dies with the tasks it has; messages that are still with       *)
(* ZeroMQ may survive it.                                                   *)
Crash(h) ==
  /\ h \in up
  /\ Happens("crash")
  /\ up' = up \ {h}
  /\ running' = {r \in running : r.host # h}
  /\ \E dropped \in SUBSET {m \in msgs : m.host = h} :
       /\ msgs' = msgs \ dropped
       /\ lost' = lost \cup {f.fut : f \in {f \in FrameSet :
                               /\ f.fut \notin complete
                               /\ ~Served(f.fut, msgs \ dropped, running')}}
  /\ attached' = (attached /\ h # link)
  /\ UNCHANGED <<case, mode, link, reconnecting, pending, archives, freed,
                 leaked, heart, stack, complete, written, result>>

Restart(h) ==
  /\ h \notin up
  /\ Happens("restart")
  /\ up' = up \cup {h}
  /\ UNCHANGED <<client, heart, stack, complete, msgs, running, written, ghost>>

-----------------------------------------------------------------------------
(* The state after ClientInit.                                              *)
Init ==
  /\ case \in Cases
  /\ mode = case.ipc
  /\ link = Original
  /\ attached = (mode = "shm")
  /\ alive = TRUE
  /\ probe = "none"
  /\ reconnecting = FALSE
  /\ stack = [c \in Callers |-> <<>>]
  /\ pending = [k \in Addresses |-> 0]
  /\ archives = [k \in Addresses |-> 0]
  /\ complete = {} /\ freed = {} /\ leaked = {}
  /\ msgs = {} /\ running = {} /\ written = {}
  /\ up = Hosts
  /\ count = [e \in Events |-> 0]
  /\ lost = {}
  /\ result = [c \in Callers |-> Own]

Reconnect(c) ==
  \/ WaitForServerAndReconnect(c)
  \/ ReconnectToOriginalHost(c) \/ WaitForLocalServer(c) \/ GiveUpOriginal(c)
  \/ ReconnectToNewHost(c) \/ GiveUp(c) \/ ResendTask(c)

Recv(c) == RecvShm(c) \/ RecvShmFlag(c) \/ RecvZmq(c) \/ Reconnect(c)

Server == ServeZmq \/ ShmOutputs \/ ShmComplete

Next ==
  \/ \E c \in Callers : Send(c) \/ Wait(c) \/ Recv(c)
  \/ RecvZmqClientThread
  \/ HeartbeatThread
  \/ Server
  \/ \E h \in Hosts : Crash(h) \/ Restart(h)

Spec == Init /\ [][Next]_vars

(* Threads that are in Recv go on, the client's threads and a runtime that  *)
(* runs work; nobody has to call Wait or to restart a runtime.              *)
FairSpec ==
  /\ Spec
  /\ \A c \in Callers : WF_vars(Recv(c))
  /\ WF_vars(RecvZmqClientThread)
  /\ WF_vars(HeartbeatThread)
  /\ WF_vars(Server)

-----------------------------------------------------------------------------
Pcs == {"sent", "shm_read", "shm_flag", "loop", "dead", "original", "verify",
        "newhost", "resend"}

TypeOK ==
  /\ case \in Cases /\ mode \in {"tcp", "shm"} /\ link \in Hosts
  /\ attached \in BOOLEAN /\ alive \in BOOLEAN /\ reconnecting \in BOOLEAN
  /\ probe \in {"none", "up", "down"}
  /\ \A f \in FrameSet :
       /\ f.kind \in {"call", "register", "connect"} /\ f.pc \in Pcs
       /\ f.key \in Addresses /\ f.fut \in Futures
       /\ f.origin \in {"zmq", "shm"}
  /\ pending \in [Addresses -> Futures \cup {0}]
  /\ archives \in [Addresses -> Futures \cup {0}]
  /\ complete \subseteq Futures /\ {d.fut : d \in freed} \subseteq Futures
  /\ leaked \subseteq Addresses /\ written \subseteq Futures
  /\ up \subseteq Hosts

(* RecvZmqClientThread never sets a flag in a FutureShm that was freed:     *)
(* what is registered outlives failed waits, lost servers and answers that  *)
(* come twice.  Excused are tasks sent again that a worker may have         *)
(* completed through shared memory.                                         *)
NoDangling ==
  \A d \in freed : ~d.shared => \A k \in Addresses : pending[k] # d.fut

(* A future that is waited for can be completed: unless it is complete or   *)
(* what it waited for was lost, it is registered under the address of its   *)
(* task, or runs on the server that shares the memory.                      *)
Registered ==
  \A f \in FrameSet :
    f.fut \notin complete \cup lost /\ f.pc \in {"sent", "shm_read", "loop"}
      => IF f.origin = "zmq" THEN pending[f.key] = f.fut
         ELSE \E r \in running : r.fut = f.fut

(* A call ends with the answer to its own task.  Excused are addresses for  *)
(* which a task was sent twice or a ClientConnectTask was given up, and     *)
(* calls of which another caller's change of host took the answer.          *)
OwnAnswer ==
  \A c \in Callers : result[c].answer \in {"none", "other"} => result[c].excused

(* What f waited for was lost, and server_alive_ cannot show it: the server *)
(* was started again, another caller has changed the host, or Recv waits    *)
(* for outputs in shared memory.                                            *)
Unnoticed(f) ==
  /\ f.fut \in lost
  /\ count["restart"] > 0 \/ link # Original \/ f.pc = "shm_read"

(* A caller gets out of Recv, with an answer or an error, although servers  *)
(* die, probes fail and several callers reconnect at a time, unless the     *)
(* loss of its answer cannot be noticed.                                    *)
Answered ==
  \A c \in Callers :
    []<>(stack[c] = <<>> \/ Top(c).pc = "sent" \/ Unnoticed(Top(c)))

(* As the tests of reconnecting say: a call outlives the death of its       *)
(* server.                                                                  *)
Returns ==
  \A c \in Callers : []<>(stack[c] = <<>> \/ Top(c).pc = "sent")

(* "Guard against recursive re-entry": while a caller reconnects, the tasks *)
(* it sends to do so do not start to reconnect.                             *)
NoReentry == \A c \in Callers : Len(stack[c]) <= 2

(* A call ends with the answer to its own task.                             *)
AlwaysOwnAnswer == \A c \in Callers : result[c].answer # "other"

(* RecvZmqClientThread never sets a flag in a FutureShm that was freed.     *)
NeverDangling == \A d \in freed, k \in Addresses : pending[k] # d.fut

\* The state is well formed, the receiving thread refers to no freed future, and
\* every future that is waited for can be completed.
LinkInv == TypeOK /\ NoDangling /\ Registered
=============================================================================
