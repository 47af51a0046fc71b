------------------------------ MODULE TaskTypes ------------------------------
(***************************************************************************)
(* The task types of the modules: which fields of a task its declaration   *)
(* marks IN, INOUT and OUT, which of them its SerializeIn and SerializeOut *)
(* put into a message, whether its Copy copies the header, and what its    *)
(* Aggregate does with the answer of a replica.  Everything else in the    *)
(* structs (constructors, the types of the fields) is left out.            *)
(***************************************************************************)

(* in, out: the fields the declaration marks IN or INOUT, OUT or INOUT.    *)
(* sent, returned: the fields SerializeIn and SerializeOut pass on.        *)
(* header: Copy calls Task::Copy.  aggregate: "copy" for Task::Aggregate   *)
(* followed by Copy, "append" for a type that adds up what its replicas    *)
(* answer, "error" for one that keeps the first error, "base" for          *)
(* Task::Aggregate alone.  limited: output fields that stop growing at a   *)
(* maximum the caller sets.                                                *)
TaskType(in, inout, out) ==
  [in |-> in \cup inout, out |-> inout \cup out,
   sent |-> in \cup inout, returned |-> inout \cup out,
   header |-> TRUE, aggregate |-> "copy", limited |-> {}]

Appends(type) == [type EXCEPT !.aggregate = "append"]

Task == [TaskType({}, {}, {}) EXCEPT !.aggregate = "base"]

-----------------------------------------------------------------------------
(* The admin module.                                                       *)

BaseCreateTask ==
  TaskType({"pool_name_"},
           {"chimod_name_", "chimod_params_", "new_pool_id_", "is_admin_",
            "do_compose_"},
           {"error_message_"})

DestroyPoolTask ==
  TaskType({"target_pool_id_", "destruction_flags_"}, {}, {"error_message_"})

StopRuntimeTask ==
  TaskType({"shutdown_flags_", "grace_period_ms_"}, {}, {"error_message_"})

FlushTask == TaskType({}, {}, {"total_work_done_"})

SendTask == TaskType({"transfer_flags_"}, {}, {"error_message_"})

RecvTask == TaskType({"transfer_flags_"}, {}, {"error_message_"})

ClientConnectTask == TaskType({}, {}, {"response_", "server_generation_"})

ClientRecvTask == TaskType({}, {}, {"tasks_received_"})

ClientSendTask == TaskType({}, {}, {"tasks_sent_"})

WreapDeadIpcsTask == TaskType({}, {}, {"reaped_count_"})

MonitorTask == Appends(TaskType({"query_"}, {}, {"results_"}))

SubmitBatchTask ==
  TaskType({"task_infos_", "serialized_data_"}, {},
           {"tasks_completed_", "error_message_"})

RegisterMemoryTask ==
  TaskType({"alloc_major_", "alloc_minor_"}, {}, {"success_"})

RestartContainersTask ==
  TaskType({}, {}, {"containers_restarted_", "error_message_"})

AddNodeTask ==
  TaskType({"new_node_ip_", "new_node_port_"}, {},
           {"new_node_id_", "error_message_"})

ChangeAddressTableTask ==
  TaskType({"target_pool_id_", "container_id_", "new_node_id_"}, {},
           {"error_message_"})

MigrateContainersTask ==
  TaskType({"migrations_json_"}, {}, {"num_migrated_", "error_message_"})

HeartbeatTask == TaskType({}, {}, {})

HeartbeatProbeTask == TaskType({}, {}, {})

ProbeRequestTask == TaskType({"target_node_id_"}, {}, {"probe_result_"})

RecoverContainersTask ==
  TaskType({"assignments_data_", "dead_node_id_"}, {},
           {"num_recovered_", "error_message_"})

SystemMonitorTask == TaskType({}, {}, {})

AnnounceShutdownTask == TaskType({"shutting_down_node_id_"}, {}, {})

(* The types Runtime::NewTask of the module can make.                      *)
AdminTasks ==
  {BaseCreateTask, Task, MonitorTask, DestroyPoolTask, StopRuntimeTask,
   FlushTask, SendTask, RecvTask, ClientConnectTask, SubmitBatchTask,
   WreapDeadIpcsTask, ClientRecvTask, ClientSendTask, RegisterMemoryTask,
   RestartContainersTask, AddNodeTask, ChangeAddressTableTask,
   MigrateContainersTask, HeartbeatTask, HeartbeatProbeTask, ProbeRequestTask,
   RecoverContainersTask, SystemMonitorTask, AnnounceShutdownTask}

-----------------------------------------------------------------------------
(* The block device module.                                                *)

AllocateBlocksTask == TaskType({"size_"}, {}, {"blocks_"})

FreeBlocksTask == TaskType({"blocks_"}, {}, {})

WriteTask == TaskType({"blocks_", "data_", "length_"}, {}, {"bytes_written_"})

(* SerializeIn exposes data_ without its contents, SerializeOut sends it.  *)
ReadTask == TaskType({"blocks_"}, {"length_"}, {"data_", "bytes_read_"})

GetStatsTask == TaskType({}, {}, {"metrics_", "remaining_size_"})

BdevTasks ==
  {BaseCreateTask, DestroyPoolTask, Task, MonitorTask, AllocateBlocksTask,
   FreeBlocksTask, WriteTask, ReadTask, GetStatsTask}

-----------------------------------------------------------------------------
(* The core of the transfer engine.                                        *)

RegisterTargetTask ==
  TaskType({"target_name_", "bdev_type_", "total_size_", "target_query_",
            "bdev_id_"}, {}, {})

UnregisterTargetTask == TaskType({"target_name_"}, {}, {})

ListTargetsTask == Appends(TaskType({}, {}, {"target_names_"}))

StatTargetsTask == TaskType({}, {}, {})

GetTargetInfoTask ==
  TaskType({"target_name_"}, {},
           {"target_score_", "remaining_space_", "bytes_read_",
            "bytes_written_", "ops_read_", "ops_written_"})

GetOrCreateTagTask == TaskType({"tag_name_"}, {"tag_id_"}, {})

PutBlobTaskWithoutContext ==
  [TaskType({"tag_id_", "offset_", "size_", "blob_data_", "score_", "flags_"},
            {"blob_name_", "context_"}, {}) EXCEPT !.sent = @ \ {"context_"}]

PutBlobTask ==
  TaskType({"tag_id_", "offset_", "size_", "blob_data_", "score_", "flags_"},
           {"blob_name_", "context_"}, {})

GetBlobTaskWithoutData ==
  [TaskType({"tag_id_", "blob_name_", "offset_", "size_", "flags_"}, {},
            {"blob_data_"}) EXCEPT !.returned = {}]

(* The caller's buffer is only exposed by SerializeIn and filled on return. *)
GetBlobTask ==
  TaskType({"tag_id_", "blob_name_", "offset_", "size_", "flags_"}, {},
           {"blob_data_"})

ReorganizeBlobTask == TaskType({"tag_id_", "blob_name_", "new_score_"}, {}, {})

DelBlobTask == TaskType({"tag_id_", "blob_name_"}, {}, {})

DelTagTask == TaskType({"tag_name_"}, {"tag_id_"}, {})

GetTagSizeTask == Appends(TaskType({"tag_id_"}, {}, {"tag_size_"}))

PollTelemetryLogTask ==
  TaskType({"minimum_logical_time_"}, {}, {"last_logical_time_", "entries_"})

GetBlobScoreTask == TaskType({"tag_id_", "blob_name_"}, {}, {"score_"})

GetBlobSizeTask == TaskType({"tag_id_", "blob_name_"}, {}, {"size_"})

(* blocks_ is declared OUT and copied, and SerializeOut leaves it out.     *)
GetBlobInfoTask ==
  [TaskType({"tag_id_", "blob_name_"}, {}, {"score_", "total_size_", "blocks_"})
     EXCEPT !.returned = @ \ {"blocks_"}]

GetContainedBlobsTask == Appends(TaskType({"tag_id_"}, {}, {"blob_names_"}))

TagQueryTask ==
  [Appends(TaskType({"tag_regex_", "max_tags_"}, {},
                    {"total_tags_matched_", "results_"}))
     EXCEPT !.limited = {"results_"}]

BlobQueryTask ==
  [Appends(TaskType({"tag_regex_", "blob_regex_", "max_blobs_"}, {},
                    {"total_blobs_matched_", "tag_names_", "blob_names_"}))
     EXCEPT !.limited = {"tag_names_", "blob_names_"}]

FlushMetadataTask == TaskType({}, {}, {"entries_flushed_"})

FlushDataTask ==
  TaskType({"target_persistence_level_"}, {},
           {"bytes_flushed_", "blobs_flushed_"})

CteTasks ==
  {BaseCreateTask, DestroyPoolTask, Task, MonitorTask, RegisterTargetTask,
   UnregisterTargetTask, ListTargetsTask, StatTargetsTask, GetOrCreateTagTask, PutBlobTask,
   GetBlobTask, ReorganizeBlobTask, DelBlobTask, DelTagTask, GetTagSizeTask,
   PollTelemetryLogTask, GetBlobScoreTask, GetBlobSizeTask,
   GetContainedBlobsTask, TagQueryTask, BlobQueryTask, GetTargetInfoTask,
   GetBlobInfoTask, FlushMetadataTask, FlushDataTask}

-----------------------------------------------------------------------------
(* The compressor.  Its tasks define SerializeStart and SerializeEnd, which *)
(* no archive calls, and a Copy that leaves the header out: the messages    *)
(* carry what Task::SerializeIn and Task::SerializeOut write.               *)

Unserialized(type) ==
  [type EXCEPT !.sent = {}, !.returned = {}, !.header = FALSE,
               !.aggregate = "base"]

CompressorDestroyTask == Unserialized(Task)

DynamicScheduleTask ==
  Unserialized(TaskType({"tag_id_", "offset_", "size_", "blob_data_", "score_",
                         "flags_", "core_pool_id_"},
                        {"blob_name_", "context_"}, {"tier_score_"}))

CompressTask ==
  Unserialized(TaskType({"tag_id_", "offset_", "size_", "blob_data_", "score_",
                         "flags_", "core_pool_id_"},
                        {"blob_name_", "context_"}, {"tier_score_"}))

DecompressTask ==
  Unserialized(TaskType({"tag_id_", "blob_name_", "offset_", "size_", "flags_",
                         "blob_data_", "core_pool_id_"},
                        {}, {"output_size_", "decompress_time_ms_"}))

CompressorTasks ==
  {BaseCreateTask, CompressorDestroyTask, Task, MonitorTask,
   DynamicScheduleTask, CompressTask, DecompressTask}

-----------------------------------------------------------------------------
(* The assimilation engine.                                                *)

ParseOmniTask ==
  TaskType({"serialized_ctx_"}, {},
           {"num_tasks_scheduled_", "result_code_", "error_message_"})

ProcessHdf5DatasetTask ==
  [TaskType({"file_path_", "dataset_path_", "tag_prefix_"}, {},
            {"result_code_", "error_message_"})
     EXCEPT !.aggregate = "error"]

ExportDataTask ==
  TaskType({"tag_name_", "output_path_", "format_"}, {},
           {"result_code_", "error_message_", "bytes_exported_"})

CaeTasks ==
  {BaseCreateTask, Task, MonitorTask, ParseOmniTask, ProcessHdf5DatasetTask,
   ExportDataTask}

-----------------------------------------------------------------------------
(* The module template.                                                    *)

CustomTask == TaskType({"operation_id_"}, {"data_"}, {})

CoMutexTestTask == TaskType({"test_id_", "hold_duration_ms_"}, {}, {})

CoRwLockTestTask ==
  TaskType({"test_id_", "is_writer_", "hold_duration_ms_"}, {}, {})

WaitTestTask == TaskType({"depth_", "test_id_"}, {"current_depth_"}, {})

TestLargeOutputTask == TaskType({}, {}, {"data_"})

GpuSubmitTask == TaskType({"gpu_id_", "test_value_"}, {"result_value_"}, {})

TemplateTasks ==
  {BaseCreateTask, DestroyPoolTask, Task, MonitorTask, CustomTask, CoMutexTestTask,
   CoRwLockTestTask, WaitTestTask, TestLargeOutputTask, GpuSubmitTask}
=============================================================================
