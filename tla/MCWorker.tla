------------------------------ MODULE MCWorker ------------------------------
(***************************************************************************)
(* Three workers: 0 schedules, 1 does large I/O, 2 is the network worker.  *)
(* The programs are those of handlers of the repository:                   *)
(*   Main   PutBlob: a message that nobody waits for and a large write,    *)
(*          which yields and then sends a subtask of its own; two periodic *)
(*          tasks, Send and one with period 0                              *)
(*   Fan    ModifyExistingData: two writes in flight, awaited in order     *)
(*   Probe  ProbeRequest: a heartbeat that is polled with a timeout        *)
(*   Now    a handler that uses chi::yield() without a time                *)
(***************************************************************************)
EXTENDS Worker, TLC

CONSTANTS put, write, meta, note, send, flush

ThreeWorkers == {0, 1, 2}
OneIo == {1}

MainTasks    == {put, write, meta, note, send, flush}
MainRoots    == {put, send, flush}
MainPeriodic == {send, flush}
MainProgram ==
  (put :> <<Send(note), Send(write), Await(write)>>)
    @@ (write :> <<Yield, Send(meta), Await(meta)>>)
    @@ [t \in {meta, note, send, flush} |-> <<>>]

SmallTasks == {put, write, meta}
SmallRoots == {put}
FanProgram ==
  (put :> <<Send(write), Send(meta), Await(write), Await(meta)>>)
    @@ (write :> <<Yield>>) @@ (meta :> <<>>)
ProbeProgram ==
  (put :> <<Send(meta), Poll(meta)>>) @@ [t \in {write, meta} |-> <<>>]
NowProgram ==
  (put :> <<YieldNow>>) @@ [t \in {write, meta} |-> <<>>]
SeqProgram ==
  (put :> <<Send(write), Await(write)>>) @@ (write :> <<Yield>>)
    @@ (meta :> <<>>)

\* The theorems of WorkerProofs are about handlers like those of Main; the
\* others show what goes wrong without it.
ASSUME MainIsSequential == Program = MainProgram => Sequential
=============================================================================
