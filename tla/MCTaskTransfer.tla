---------------------------- MODULE MCTaskTransfer ----------------------------
(***************************************************************************)
(* Requests for TLC: every task type of the modules.  Types that copy the  *)
(* answers of their replicas are sent to one or two containers, types that *)
(* add them up also over an intermediate node.                             *)
(***************************************************************************)
EXTENDS TaskTransfer

Local  == {<<>>}
Single == {<<>>, <<1>>}
Double == {<<>>, <<1>>, <<2>>}
Nested == {<<>>, <<1>>, <<2>>, <<1, 1>>, <<1, 2>>}
Chain  == {<<>>, <<1>>, <<1, 1>>}

AllTasks == AdminTasks \cup BdevTasks \cup CteTasks \cup CaeTasks
              \cup TemplateTasks \cup CompressorTasks

Lossy == {GetBlobInfoTask, CompressorDestroyTask, DynamicScheduleTask,
          CompressTask, DecompressTask}

Request(types, trees, limits) ==
  [type : types, tree : trees, client : BOOLEAN, max : limits]

Copying == {t \in AllTasks \ Lossy : t.aggregate = "copy"}
Adding  == AllTasks \ (Lossy \cup Copying)

AllCases ==
  Request(Copying, {Local, Single, Double}, {0})
    \cup Request(Adding, {Local, Double, Nested, Chain}, {0, 2})

(* The code at its worst: two replicas, and an intermediate node.          *)
ReplicaCases == Request({ChangeAddressTableTask}, {Double}, {0})
NestedCases == Request({FlushDataTask}, {Nested}, {0})
InfoCases == Request({GetBlobInfoTask}, {Local, Single}, {0})
CompressorCases == Request({CompressTask}, {Local}, {0})
=============================================================================
