----------------------------- MODULE TaskTransfer -----------------------------
(***************************************************************************)
(* A task on its way from the caller to the containers that run it and     *)
(* back.  A client sends its task to its node; a node that cannot run a    *)
(* task itself sends a copy of it to each of the nodes its queries name;   *)
(* the copy may be sent on from there.  The answers are loaded into the    *)
(* copies and aggregated into the task they were made of.                  *)
(*                                                                         *)
(* The tasks of one request form a tree: <<>> is the caller's task on its  *)
(* node and Append(p, i) the i-th replica of p.  A leaf is run, every      *)
(* other task is sent on.  Losing and repeating messages, and nodes that   *)
(* die, are the subject of AdminNet; here the messages arrive, in any      *)
(* order, and the question is what they carry.                             *)
(***************************************************************************)
EXTENDS Naturals, Sequences, FiniteSets, TaskTypes

CONSTANTS
  Cases   \* the requests: [type, tree, client, max], the type of the task,
          \* the set of paths of its tree, whether a client process sends
          \* it, and the maximum its limited outputs have (0: none)

VARIABLES
  case,      \* the request
  caller,    \* the task object in the client process
  obj,       \* [path -> the task object on the node it is at, or NoObj]
  sub,       \* [path -> the copy its sender keeps in subtasks_, or NoObj]
  send_map,  \* the tasks that wait for their replicas
  recv_map,  \* [path -> the key its node has it under, or NoKey]
  completed, \* [path -> the replicas whose answers were aggregated]
  finished,  \* the tasks that have ended on their node
  msgs,      \* messages on the way
  answered,  \* the caller has its answer
  rcs        \* [leaf -> 1 if it failed, else 0]; for the properties

vars == <<case, caller, obj, sub, send_map, recv_map, completed, finished,
          msgs, answered, rcs>>

Type == case.type
Tree == case.tree
Root == <<>>
Replicas(p) == {q \in Tree : Len(q) = Len(p) + 1 /\ SubSeq(q, 1, Len(p)) = p}
Leaves == {p \in Tree : Replicas(p) = {}}
Parent(p) == SubSeq(p, 1, Len(p) - 1)

NoObj == [id |-> <<0>>]
NoKey == <<0>>

-----------------------------------------------------------------------------
(* A task object: its id (net_key_ and replica_id_; a replica's id names    *)
(* the replica), the node it answers to, whether it has its pool and        *)
(* method, the return code, which inputs hold the caller's values, and for  *)
(* every output the leaves whose results are in it.                         *)

NoOutputs == [f \in Type.out |-> <<>>]

(* A task as NewTask makes it.                                              *)
NewTask ==
  [id |-> Root, ret |-> Root, header |-> FALSE, rc |-> 0, in |-> {},
   out |-> NoOutputs]

CallersTask ==
  [id |-> Root, ret |-> Root, header |-> TRUE, rc |-> 0, in |-> Type.in,
   out |-> NoOutputs]

(* SaveTask and AllocLoadTask with SerializeIn: the header and the fields   *)
(* that SerializeIn names, in a new object.  An output that is also an      *)
(* input has no result yet.                                                 *)
SerializeIn(task) ==
  [task EXCEPT !.in = @ \cap Type.sent, !.out = NoOutputs]

(* SaveTask with SerializeOut.                                              *)
SerializeOut(task) ==
  [rc |-> task.rc, out |-> [f \in Type.returned |-> task.out[f]]]

(* LoadTask with SerializeOut, into an object that is there already.        *)
LoadOut(task, answer) ==
  [task EXCEPT !.rc = answer.rc,
               !.out = [f \in Type.out |->
                          IF f \in Type.returned THEN answer.out[f] ELSE @[f]]]

(* Copy of the type, Task::Copy included where the type calls it.           *)
Copy(to, from) ==
  IF Type.header THEN from
  ELSE [to EXCEPT !.in = from.in, !.out = from.out]

NewCopyTask(task) == Copy(NewTask, task)

TaskAggregateForgets(task, replica) == task

(* Task::Aggregate.                                                         *)
TaskAggregate(task, replica) ==
  [task EXCEPT !.rc = IF replica.rc # 0 THEN replica.rc ELSE @]

ShorterWithoutZero(s) == IF Len(s) > case.max THEN SubSeq(s, 1, case.max) ELSE s

Shorter(s) == IF case.max # 0 /\ Len(s) > case.max THEN SubSeq(s, 1, case.max)
              ELSE s

AppendOutputs(task, replica) ==
  [f \in Type.out |->
     IF f \in Type.limited THEN Shorter(task.out[f] \o replica.out[f])
     ELSE task.out[f] \o replica.out[f]]

(* The first error is kept: a leaf that succeeds leaves the outputs of the  *)
(* assimilation at their default.                                           *)
FirstError(task, replica) ==
  IF task.out["result_code_"] = <<>> THEN replica.out ELSE task.out

AggregateWithHeader(task, replica) ==
  [Copy(TaskAggregate(task, replica), replica)
     EXCEPT !.out = AppendOutputs(task, replica)]

(* The Aggregate of the type.                                               *)
Aggregate(task, replica) ==
  LET base == TaskAggregate(task, replica)
  IN CASE Type.aggregate = "copy"   -> Copy(base, replica)
       [] Type.aggregate = "append" ->
            [base EXCEPT !.out = AppendOutputs(task, replica)]
       [] Type.aggregate = "error"  ->
            [base EXCEPT !.out = FirstError(task, replica)]
       [] Type.aggregate = "base"   -> base

-----------------------------------------------------------------------------
Init ==
  /\ case \in Cases
  /\ caller = IF case.client THEN CallersTask ELSE NoObj
  /\ obj = [p \in Tree |-> IF p = Root /\ ~case.client THEN CallersTask
                           ELSE NoObj]
  /\ sub = [p \in Tree |-> NoObj]
  /\ send_map = {}
  /\ recv_map = [p \in Tree |-> NoKey]
  /\ completed = [p \in Tree |-> {}]
  /\ finished = {}
  /\ msgs = IF case.client THEN {[kind |-> "submit", task |-> SerializeIn(caller)]}
            ELSE {}
  /\ answered = FALSE
  /\ rcs = [p \in Leaves |-> 0]

(* ClientRecv on the client's node: a message always names the pool and the *)
(* method of the client's task, so the object is made.                      *)
ClientRecv ==
  \E m \in msgs :
    /\ m.kind = "submit"
    /\ obj' = [obj EXCEPT ![Root] = m.task]
    /\ msgs' = msgs \ {m}
    /\ UNCHANGED <<case, caller, sub, send_map, recv_map, completed, finished,
                   answered, rcs>>

(* SendIn: a copy for every replica, kept in subtasks_ and sent.            *)
Replica(p, q) == [NewCopyTask(obj[p]) EXCEPT !.id = q, !.ret = p]

SendIn(p) ==
  /\ obj[p] # NoObj /\ p \notin Leaves
  /\ p \notin send_map \cup finished
  /\ send_map' = send_map \cup {p}
  /\ sub' = [q \in Tree |-> IF q \in Replicas(p) THEN Replica(p, q) ELSE sub[q]]
  /\ msgs' = msgs \cup {[kind |-> "in", to |-> q,
                         task |-> SerializeIn(Replica(p, q))] : q \in Replicas(p)}
  /\ UNCHANGED <<case, caller, obj, recv_map, completed, finished, answered,
                 rcs>>

(* RecvIn: without a pool in its header no container is found for a message *)
(* and it is dropped; otherwise the task is kept under the key of its id.   *)
RecvIn ==
  \E m \in msgs :
    /\ m.kind = "in"
    /\ msgs' = msgs \ {m}
    /\ IF m.task.header
       THEN /\ obj' = [obj EXCEPT ![m.to] = m.task]
            /\ recv_map' = [recv_map EXCEPT ![m.to] = m.task.id]
       ELSE UNCHANGED <<obj, recv_map>>
    /\ UNCHANGED <<case, caller, sub, send_map, completed, finished, answered,
                   rcs>>

(* The container runs the task and fills in every output.  It may fail: the *)
(* return code says so, or the result_code_ of a type that has its own.     *)
Result(p, rc) ==
  [f \in Type.out |-> IF Type.aggregate = "error" /\ rc = 0 THEN <<>> ELSE <<p>>]

Run(p) ==
  /\ p \in Leaves \ finished /\ obj[p] # NoObj
  /\ \E rc \in {0, 1} :
       /\ obj' = [obj EXCEPT ![p].rc = IF Type.aggregate = "error" THEN @ ELSE rc,
                             ![p].out = Result(p, rc)]
       /\ rcs' = [rcs EXCEPT ![p] = rc]
  /\ finished' = finished \cup {p}
  /\ UNCHANGED <<case, caller, sub, send_map, recv_map, completed, msgs,
                 answered>>

(* SendOut: a task that is not found under the key of its id is left alone. *)
SendOut(p) ==
  /\ p \in finished \ {Root} /\ recv_map[p] # NoKey
  /\ obj[p].id = recv_map[p]
  /\ recv_map' = [recv_map EXCEPT ![p] = NoKey]
  /\ msgs' = msgs \cup {[kind |-> "out", to |-> obj[p].ret, id |-> obj[p].id,
                         answer |-> SerializeOut(obj[p])]}
  /\ UNCHANGED <<case, caller, obj, sub, send_map, completed, finished,
                 answered, rcs>>

RecvOutKeepsReplicas ==
  \E m \in msgs :
    /\ m.kind = "out"
    /\ LET p == m.to
           q == m.id
           replica == LoadOut(sub[q], m.answer)
       IN /\ p \in send_map
          /\ obj' = [obj EXCEPT ![p] = Aggregate(@, replica)]
          /\ completed' = [completed EXCEPT ![p] = @ \cup {q}]
          /\ IF completed'[p] = Replicas(p)
             THEN /\ sub' = [sub EXCEPT ![q] = replica]
                  /\ send_map' = send_map \ {p}
                  /\ finished' = finished \cup {p}
             ELSE /\ sub' = [sub EXCEPT ![q] = replica]
                  /\ UNCHANGED <<send_map, finished>>
    /\ msgs' = msgs \ {m}
    /\ UNCHANGED <<case, caller, recv_map, answered, rcs>>

(* RecvOut: the answer is loaded into the replica the id names and          *)
(* aggregated into its origin, which ends with the last of its replicas.    *)
RecvOut ==
  \E m \in msgs :
    /\ m.kind = "out"
    /\ LET p == m.to
           q == m.id
           replica == LoadOut(sub[q], m.answer)
       IN /\ p \in send_map
          /\ obj' = [obj EXCEPT ![p] = Aggregate(@, replica)]
          /\ completed' = [completed EXCEPT ![p] = @ \cup {q}]
          /\ IF completed'[p] = Replicas(p)
             THEN /\ sub' = [r \in Tree |-> IF r \in Replicas(p) THEN NoObj
                                            ELSE sub[r]]
                  /\ send_map' = send_map \ {p}
                  /\ finished' = finished \cup {p}
             ELSE /\ sub' = [sub EXCEPT ![q] = replica]
                  /\ UNCHANGED <<send_map, finished>>
    /\ msgs' = msgs \ {m}
    /\ UNCHANGED <<case, caller, recv_map, answered, rcs>>

(* ClientSend takes the key from the future, whatever the task's id is.     *)
ClientSend ==
  /\ case.client /\ Root \in finished /\ obj[Root] # NoObj
  /\ obj' = [obj EXCEPT ![Root] = NoObj]
  /\ msgs' = msgs \cup {[kind |-> "reply", answer |-> SerializeOut(obj[Root])]}
  /\ UNCHANGED <<case, caller, sub, send_map, recv_map, completed, finished,
                 answered, rcs>>

(* The client's Recv loads the reply into its task.                         *)
Recv ==
  \E m \in msgs :
    /\ m.kind = "reply"
    /\ caller' = LoadOut(caller, m.answer)
    /\ answered' = TRUE
    /\ msgs' = msgs \ {m}
    /\ UNCHANGED <<case, obj, sub, send_map, recv_map, completed, finished,
                   rcs>>

(* A caller inside the runtime continues when its task ends.                *)
Continue ==
  /\ ~case.client /\ Root \in finished /\ ~answered
  /\ answered' = TRUE
  /\ UNCHANGED <<case, caller, obj, sub, send_map, recv_map, completed,
                 finished, msgs, rcs>>

Next ==
  \/ ClientRecv
  \/ \E p \in Tree : SendIn(p) \/ Run(p) \/ SendOut(p)
  \/ RecvIn
  \/ RecvOut
  \/ ClientSend
  \/ Recv
  \/ Continue

Spec == Init /\ [][Next]_vars

(* The workers and the network tasks keep running and messages arrive.      *)
FairSpec == Spec /\ WF_vars(Next)

-----------------------------------------------------------------------------
Answer == IF case.client THEN caller ELSE obj[Root]

IsObj(t) ==
  /\ t.id \in Tree /\ t.ret \in Tree /\ t.header \in BOOLEAN /\ t.rc \in {0, 1}
  /\ t.in \subseteq Type.in
  /\ \A f \in Type.out : t.out[f] \in Seq(Leaves)

(* Every object is well formed, and the copies in subtasks_ are exactly the *)
(* replicas of the tasks in send_map_: SendIn makes them and RecvOut        *)
(* deletes them with the entry.                                             *)
TypeOK ==
  /\ case \in Cases
  /\ \A p \in Tree : obj[p] = NoObj \/ IsObj(obj[p])
  /\ \A p \in Tree \ {Root} : sub[p] # NoObj <=> Parent(p) \in send_map
  /\ \A p \in Tree \ {Root} : sub[p] # NoObj => IsObj(sub[p]) /\ sub[p].id = p
  /\ finished \cap send_map = {}

(* A container runs a task only with every input the caller gave it, over   *)
(* whatever nodes the task came.                                            *)
InputsArrive ==
  \A p \in finished \cap Leaves :
    obj[p] # NoObj => Type.in \subseteq obj[p].in

(* A caller whose task is not one of those that add answers up gets the     *)
(* complete answer of one container: its return code and all of its         *)
(* outputs, never some of one replica and some of another.                  *)
OneAnswer ==
  answered /\ Type.aggregate = "copy" =>
    \E p \in Leaves : /\ Answer.rc = rcs[p]
                      /\ \A f \in Type.out : Answer.out[f] = <<p>>

Contributors(f) == {Answer.out[f][i] : i \in DOMAIN Answer.out[f]}

(* The types that add answers up have every container's contribution once,  *)
(* however the query was split; a limited output has as many as fit, and    *)
(* the outputs that are limited together have the same ones.                *)
Collected ==
  answered /\ Type.aggregate = "append" =>
    \A f \in Type.out :
      /\ Len(Answer.out[f]) = Cardinality(Contributors(f))
      /\ IF f \in Type.limited
         THEN /\ Len(Answer.out[f]) =
                   IF case.max = 0 \/ case.max > Cardinality(Leaves)
                   THEN Cardinality(Leaves) ELSE case.max
              /\ \A g \in Type.limited : Answer.out[g] = Answer.out[f]
         ELSE Contributors(f) = Leaves

(* What Task::Aggregate promises: the error of a replica is not lost.       *)
ErrorKept ==
  answered /\ (\E p \in Leaves : rcs[p] # 0) =>
    IF Type.aggregate = "error" THEN Answer.out["result_code_"] # <<>>
    ELSE Answer.rc # 0

(* The same for the types that aggregate without Copy, and for one replica. *)
ErrorKeptUnlessCopied ==
  Type.aggregate # "copy" \/ Cardinality(Leaves) = 1 => ErrorKept

(* Every request is answered.                                               *)
Answered == <>answered

\* The objects are well formed, inputs arrive, and the caller gets one container's
\* answer whole, or every container's contribution once, and the errors.
TransferInv == TypeOK /\ InputsArrive /\ OneAnswer /\ Collected /\ ErrorKeptUnlessCopied
=============================================================================
