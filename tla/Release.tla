------------------------------ MODULE Release ------------------------------
(***************************************************************************)
(* What the functions that free a message free: the paths of the strings,   *)
(* lists and arrays of its structure (Records).  The structures themselves  *)
(* are left out; a list is freed with its elements, by the function the     *)
(* unpack function made it with.  A function that only calls xfree with     *)
(* the structure frees {}.                                                  *)
(***************************************************************************)
EXTENDS Records

-----------------------------------------------------------------------------
(* What each function frees, file by file.                                  *)

\* slurm_pmi.c.
FreedKvs ==
  LET free_kvs_comm == Fields({"kvs_keys", "kvs_name", "kvs_values"})
  IN [free_kvs_comm |-> free_kvs_comm,
      slurm_free_kvs_comm_set |-> Fields({"kvs_comm_ptr", "kvs_host_ptr"})
          \cup Within("kvs_comm_ptr", free_kvs_comm)
          \cup Within("kvs_host_ptr", Fields({"hostname"}))]

\* forward.c.
FreedHeader ==
  [destroy_data_info |-> Fields({"node_name"}),
   destroy_forward |-> Fields({"nodelist"})]

job_option_info_destroy == Fields({"optarg", "option"})

job_options_destroy ==
    Fields({"options"})
      \cup Within("options", job_option_info_destroy)

\* jobacct_common.c.
FreedJobacct ==
  LET destroy_jobacct_step_rec == Fields({"nodes", "stepname"})
  IN [destroy_jobacct_job_rec |-> Fields({"account", "blockid", "cluster", "jobname", "nodes",
          "partition", "steps", "user", "wckey"}) \cup Within("steps", destroy_jobacct_step_rec),
      destroy_jobacct_step_rec |-> destroy_jobacct_step_rec]

destroy_config_key_pair == Fields({"name", "value"})

destroy_acct_association_rec ==
    Fields({"accounting_list", "acct", "childern_list", "cluster", "parent_acct", "partition",
            "qos_list", "user"})

\* slurm_accounting_storage.c: conditions.
FreedConds ==
  [destroy_acct_association_cond |-> Fields({"acct_list", "cluster_list", "fairshare_list",
       "grp_cpu_mins_list", "grp_cpus_list", "grp_jobs_list", "grp_nodes_list",
       "grp_submit_jobs_list", "grp_wall_list", "id_list", "max_cpu_mins_pj_list",
       "max_cpus_pj_list", "max_jobs_list", "max_nodes_pj_list", "max_submit_jobs_list",
       "max_wall_pj_list", "parent_acct_list", "partition_list", "qos_list", "user_list"}),
   destroy_acct_job_cond |-> Fields({"acct_list", "associd_list", "cluster_list", "groupid_list",
       "partition_list", "resv_list", "resvid_list", "state_list", "step_list", "used_nodes",
       "userid_list", "wckey_list"}),
   destroy_acct_qos_cond |-> Fields({"id_list", "name_list"}),
   destroy_acct_reservation_cond |-> Fields({"cluster_list", "id_list", "name_list", "nodes"}),
   destroy_acct_txn_cond |-> Fields({"acct_list", "action_list", "actor_list", "cluster_list",
       "id_list", "info_list", "name_list", "user_list"})]

\* slurm_accounting_storage.c: the other records, and the first conditions.
FreedOthers ==
  [destroy_acct_qos_rec |-> Fields({"description", "job_flags", "job_list", "name",
       "preemptee_list", "preemptor_list", "user_limit_list"}),
   destroy_acct_reservation_rec |-> Fields({"assocs", "cluster", "name", "node_inx", "nodes"}),
   destroy_acct_txn_rec |-> Fields({"accts", "actor_name", "clusters", "set_info", "users",
       "where_query"}),
   destroy_acct_wckey_rec |-> Fields({"accounting_list", "cluster", "name", "user"}),
   destroy_acct_archive_rec |-> Fields({"archive_file", "insert"}),
   destroy_acct_user_cond |-> Fields({"def_acct_list", "def_wckey_list"})
       \cup Within("assoc_cond", FreedConds.destroy_acct_association_cond),
   destroy_acct_account_cond |-> Fields({"description_list", "organization_list"})
       \cup Within("assoc_cond", FreedConds.destroy_acct_association_cond),
   destroy_acct_cluster_cond |-> Fields({"cluster_list"})]

\* slurm_accounting_storage.c: users, accounts and clusters.
FreedRecs ==
  LET destroy_acct_coord_rec == Fields({"name"})
  IN [destroy_acct_user_rec |-> Fields({"assoc_list", "coord_accts", "default_acct",
          "default_wckey", "name", "wckey_list"})
          \cup Within("assoc_list", destroy_acct_association_rec)
          \cup Within("coord_accts", destroy_acct_coord_rec)
          \cup Within("wckey_list", FreedOthers.destroy_acct_wckey_rec),
      destroy_acct_account_rec |-> Fields({"assoc_list", "coordinators", "description", "name",
          "organization"}) \cup Within("assoc_list", destroy_acct_association_rec)
          \cup Within("coordinators", destroy_acct_coord_rec),
      destroy_acct_coord_rec |-> destroy_acct_coord_rec,
      destroy_acct_cluster_rec |-> Fields({"accounting_list", "control_host", "name", "nodes"})
          \cup Within("root_assoc", destroy_acct_association_rec)]

\* slurm_accounting_storage.c: archives and updates.
FreedArchiveConds ==
  [destroy_acct_wckey_cond |-> Fields({"cluster_list", "id_list", "name_list", "user_list"}),
   destroy_acct_archive_cond |-> Fields({"archive_dir", "archive_script"})
       \cup Within("job_cond", FreedConds.destroy_acct_job_cond),
   destroy_acct_update_object |-> Fields({"objects"})]

slurm_cred_destroy ==
    Fields({"core_bitmap", "cores_per_socket", "job_hostlist", "nodes", "signature",
            "sock_core_rep_count", "sockets_per_node"})

\* slurm_protocol_defs.c: jobs, nodes and partitions.
FreedJobs ==
  [slurm_free_job_desc_msg |-> Fields({"account", "alloc_node", "argv", "blrtsimage", "ckpt_dir",
       "comment", "cpu_bind", "dependency", "environment", "err", "exc_nodes", "features", "in",
       "licenses", "linuximage", "mail_user", "mem_bind", "mloaderimage", "name", "network", "out",
       "partition", "ramdiskimage", "req_nodes", "reservation", "resp_host", "script",
       "select_jobinfo", "wckey", "work_dir"}),
   slurm_free_job_launch_msg |-> Fields({"argv", "ckpt_dir", "cpu_bind", "cpu_count_reps",
       "cpus_per_node", "environment", "err", "in", "nodes", "out", "restart_dir", "script",
       "select_jobinfo", "work_dir"}) \cup Within("cred", slurm_cred_destroy),
   slurm_free_job_info_members |-> Fields({"account", "alloc_node", "command", "comment",
       "cpu_count_reps", "cpus_per_node", "dependency", "exc_node_inx", "exc_nodes", "features",
       "licenses", "name", "network", "node_inx", "nodes", "partition", "req_node_inx", "req_nodes",
       "resv_name", "select_jobinfo", "state_desc", "wckey", "work_dir"}),
   slurm_free_node_registration_status_msg |-> Fields({"arch", "job_id", "node_name", "os",
       "step_id"}) \cup Within("switch_nodeinfo", Fields({"switch"})),
   slurm_free_update_node_msg |-> Fields({"features", "node_names", "reason"}),
   slurm_free_update_part_msg |-> Fields({"allow_alloc_nodes", "allow_groups", "name", "nodes"})]

\* slurm_protocol_defs.c: requests about partitions, reservations and steps.
FreedRequests ==
  [slurm_free_delete_part_msg |-> Fields({"name"}),
   slurm_free_resv_desc_msg |-> Fields({"accounts", "features", "name", "node_list", "partition",
       "users"}),
   slurm_free_resv_name_msg |-> Fields({"name"}),
   slurm_free_job_step_create_request_msg |-> Fields({"ckpt_dir", "host", "name", "network",
       "node_list"}),
   slurm_free_complete_batch_script_msg |-> Fields({"node_name"}),
   slurm_free_launch_tasks_response_msg |-> Fields({"local_pids", "node_name", "task_ids"}),
   slurm_free_kill_job_msg |-> Fields({"nodes", "select_jobinfo"}),
   slurm_free_task_exit_msg |-> Fields({"task_id_list"})]

\* slurm_protocol_defs.c: tasks of a step.
FreedTasks ==
  [slurm_free_launch_tasks_request_msg |-> Fields({"argv", "ckpt_dir", "complete_nodelist",
       "cpu_bind", "cpus_allocated", "cwd", "efname", "env", "global_task_ids", "ifname", "io_port",
       "mem_bind", "ofname", "resp_port", "restart_dir", "task_epilog", "task_prolog",
       "tasks_to_launch"}) \cup Within("cred", slurm_cred_destroy)
       \cup Within("switch_job", Fields({"switch"})) \cup Within("options", job_options_destroy),
   slurm_free_reattach_tasks_request_msg |-> Fields({"io_port", "resp_port"})
       \cup Within("cred", slurm_cred_destroy),
   slurm_free_reattach_tasks_response_msg |-> Fields({"executable_names", "gtids", "local_pids",
       "node_name"}),
   slurm_free_checkpoint_tasks_msg |-> Fields({"image_dir"}),
   slurm_free_epilog_complete_msg |-> Fields({"node_name"})
       \cup Within("switch_nodeinfo", Fields({"switch"})),
   slurm_free_srun_exec_msg |-> Fields({"argv"}),
   slurm_free_srun_node_fail_msg |-> Fields({"nodelist"}),
   slurm_free_srun_step_missing_msg |-> Fields({"nodelist"})]

\* slurm_protocol_defs.c: checkpoints.
FreedCheckpoints ==
  [slurm_free_srun_user_msg |-> Fields({"msg"}),
   slurm_free_checkpoint_msg |-> Fields({"image_dir"}),
   slurm_free_checkpoint_comp_msg |-> Fields({"error_msg"}),
   slurm_free_checkpoint_task_comp_msg |-> Fields({"error_msg"}),
   slurm_free_checkpoint_resp_msg |-> Fields({"error_msg"})]

\* slurm_protocol_defs.c: key and value pairs, and a job that would run.
FreedSmallAnswers ==
  [slurm_free_get_kvs_msg |-> Fields({"hostname"}),
   slurm_free_will_run_response_msg |-> Fields({"node_list"})]

\* slurm_protocol_defs.c: partitions, reservations, topology and triggers.
FreedAnswers ==
  LET slurm_free_reserve_info_members == Fields({"accounts", "features", "name", "node_inx",
          "node_list", "partition", "users"})
  IN [slurm_free_partition_info_members |-> Fields({"allow_alloc_nodes", "allow_groups", "name",
          "node_inx", "nodes"}),
      slurm_free_reservation_info_msg |-> Fields({"reservation_array"})
          \cup Within("reservation_array", slurm_free_reserve_info_members),
      slurm_free_reserve_info_members |-> slurm_free_reserve_info_members,
      slurm_free_topo_info_msg |-> Within("topo_array", Fields({"name", "nodes", "switches"})),
      slurm_free_file_bcast_msg |-> Fields({"block", "fname"}),
      slurm_free_trigger_msg |-> Fields({"trigger_array"})
          \cup Within("trigger_array", Fields({"res_id", "program"})),
      slurm_destroy_association_shares_object |-> Fields({"cluster", "name", "parent"}),
      slurm_free_shares_request_msg |-> Fields({"acct_list", "user_list"})]

\* slurm_protocol_defs.c: the daemon of a node, jobs and steps.
FreedJobAnswers ==
  LET slurm_free_job_step_info_members == Fields({"ckpt_dir", "name", "network", "node_inx",
          "nodes", "partition", "resv_ports"})
      slurm_free_node_info_members == Fields({"arch", "features", "name", "os", "reason"})
  IN [slurm_free_slurmd_status |-> Fields({"hostname", "slurmd_logfile", "step_list", "version"}),
      slurm_free_job_info_msg |-> Fields({"job_array"})
          \cup Within("job_array", FreedJobs.slurm_free_job_info_members),
      slurm_free_job_step_info_response_msg |-> Fields({"job_steps"})
          \cup Within("job_steps", slurm_free_job_step_info_members),
      slurm_free_job_step_info_members |-> slurm_free_job_step_info_members,
      slurm_free_node_info_msg |-> Fields({"node_array"})
          \cup Within("node_array", slurm_free_node_info_members),
      slurm_free_node_info_members |-> slurm_free_node_info_members,
      slurm_free_partition_info_msg |-> Fields({"partition_array"})
          \cup Within("partition_array", FreedAnswers.slurm_free_partition_info_members)]

\* slurm_protocol_defs.c: shares and priorities.
FreedShares ==
  [slurm_free_shares_response_msg |-> Fields({"assoc_shares_list"})
       \cup Within("assoc_shares_list", FreedAnswers.slurm_destroy_association_shares_object),
   slurm_free_priority_factors_request_msg |-> Fields({"job_id_list", "uid_list"}),
   slurm_free_priority_factors_response_msg |-> Fields({"priority_factors_list"})]

slurm_free_job_notify_msg == Fields({"message"})

slurm_step_layout_destroy == Fields({"node_addr", "node_list", "tasks", "tids"})

\* Mutant: the counts of equal nodes are not freed.
slurm_free_resource_allocation_response_msg_NoReps ==
    Fields({"cpus_per_node", "node_list", "select_jobinfo"})
slurm_free_resource_allocation_response_msg ==
    Fields({"cpu_count_reps", "cpus_per_node", "node_list", "select_jobinfo"})

\* slurm_protocol_defs.c: allocations and the configuration.
FreedAllocations ==
  [slurm_free_job_alloc_info_response_msg |-> Fields({"cpu_count_reps", "cpus_per_node",
       "node_addr", "node_list", "select_jobinfo"}),
   slurm_free_job_step_create_response_msg |-> Fields({"resv_ports"})
       \cup Within("step_layout", slurm_step_layout_destroy) \cup Within("cred", slurm_cred_destroy)
       \cup Within("switch_job", Fields({"switch"})),
   slurm_free_ctl_conf |-> Fields({"accounting_storage_host", "accounting_storage_loc",
       "accounting_storage_pass", "accounting_storage_type", "accounting_storage_user", "authtype",
       "backup_addr", "backup_controller", "checkpoint_type", "cluster_name", "control_addr",
       "control_machine", "crypto_type", "epilog", "epilog_slurmctld", "health_check_program",
       "job_acct_gather_type", "job_ckpt_dir", "job_comp_host", "job_comp_loc", "job_comp_pass",
       "job_comp_type", "job_comp_user", "job_credential_private_key",
       "job_credential_public_certificate", "licenses", "mail_prog", "mpi_default", "mpi_params",
       "node_prefix", "plugindir", "plugstack", "proctrack_type", "prolog", "prolog_slurmctld",
       "propagate_rlimits", "propagate_rlimits_except", "resume_program", "salloc_default_command",
       "sched_params", "schedtype", "select_conf_key_pairs", "select_type", "slurm_conf",
       "slurm_user_name", "slurmctld_logfile", "slurmctld_pidfile", "slurmd_logfile",
       "slurmd_pidfile", "slurmd_spooldir", "srun_epilog", "srun_prolog", "state_save_location",
       "suspend_exc_nodes", "suspend_exc_parts", "suspend_program", "switch_type", "task_epilog",
       "task_plugin", "task_prolog", "tmp_fs", "topology_plugin", "unkillable_program", "z_char"})
       \cup Within("select_conf_key_pairs", destroy_config_key_pair)]

\* slurmdbd_defs.c: coordinators and processors of a cluster.
FreedDbdClusters ==
  [slurmdbd_free_acct_coord_msg |-> Fields({"acct_list"})
       \cup Within("cond", FreedOthers.destroy_acct_user_cond),
   slurmdbd_free_cluster_procs_msg |-> Fields({"cluster_name", "cluster_nodes"})]

\* slurmdbd_defs.c: jobs.
FreedDbdJobs ==
  [slurmdbd_free_get_jobs_msg |-> Fields({"cluster_name", "selected_parts", "selected_steps",
       "user"}),
   slurmdbd_free_job_complete_msg |-> Fields({"nodes"}),
   slurmdbd_free_job_start_msg |-> Fields({"account", "block_id", "cluster", "name", "node_inx",
       "nodes", "partition", "wckey"})]

\* slurmdbd_defs.c: nodes and steps.
FreedDbdNodes ==
  [slurmdbd_free_node_state_msg |-> Fields({"cluster_name", "hostlist", "reason"}),
   slurmdbd_free_rc_msg |-> Fields({"comment"}),
   slurmdbd_free_register_ctld_msg |-> Fields({"cluster_name"}),
   slurmdbd_free_step_complete_msg |-> Fields({"jobacct"}),
   slurmdbd_free_step_start_msg |-> Fields({"name", "node_inx", "nodes"})]

-----------------------------------------------------------------------------
(* What is freed with a message of a type.                                  *)

slurmdbd_free_rec_msg(type) == Within("rec", FreedOthers.destroy_acct_reservation_rec)

slurmdbd_free_cond_msg(type) ==
    Within("cond",
      CASE type \in {"DBD_GET_ACCOUNTS", "DBD_REMOVE_ACCOUNTS"} ->
             FreedOthers.destroy_acct_account_cond
        [] type \in {"DBD_GET_ASSOCS", "DBD_REMOVE_ASSOCS"} ->
                  FreedConds.destroy_acct_association_cond
        [] type \in {"DBD_GET_CLUSTERS", "DBD_REMOVE_CLUSTERS"} ->
                  FreedOthers.destroy_acct_cluster_cond
        [] type = "DBD_GET_JOBS_COND" -> FreedConds.destroy_acct_job_cond
        [] type \in {"DBD_GET_QOS", "DBD_REMOVE_QOS"} -> FreedConds.destroy_acct_qos_cond
        [] type \in {"DBD_GET_WCKEYS", "DBD_REMOVE_WCKEYS"} ->
                  FreedArchiveConds.destroy_acct_wckey_cond
        [] type \in {"DBD_GET_USERS", "DBD_REMOVE_USERS"} -> FreedOthers.destroy_acct_user_cond
        [] type = "DBD_GET_TXN" -> FreedConds.destroy_acct_txn_cond
        [] type = "DBD_ARCHIVE_DUMP" -> FreedArchiveConds.destroy_acct_archive_cond
        [] type = "DBD_GET_RESVS" -> FreedConds.destroy_acct_reservation_cond)

slurmdbd_free_list_msg(type) ==
    Fields({"my_list"}) \cup
    Within("my_list",
      CASE type \in {"DBD_ADD_ACCOUNTS", "DBD_GOT_ACCOUNTS"} -> FreedRecs.destroy_acct_account_rec
        [] type \in {"DBD_ADD_ASSOCS", "DBD_GOT_ASSOCS"} -> destroy_acct_association_rec
        [] type \in {"DBD_ADD_CLUSTERS", "DBD_GOT_CLUSTERS"} -> FreedRecs.destroy_acct_cluster_rec
        [] type = "DBD_GOT_CONFIG" -> destroy_config_key_pair
        [] type = "DBD_GOT_JOBS" -> FreedJobacct.destroy_jobacct_job_rec
        [] type = "DBD_GOT_LIST" -> {}
        [] type \in {"DBD_ADD_QOS", "DBD_GOT_QOS"} -> FreedOthers.destroy_acct_qos_rec
        [] type = "DBD_GOT_RESVS" -> FreedOthers.destroy_acct_reservation_rec
        [] type \in {"DBD_ADD_WCKEYS", "DBD_GOT_WCKEYS"} -> FreedOthers.destroy_acct_wckey_rec
        [] type \in {"DBD_ADD_USERS", "DBD_GOT_USERS"} -> FreedRecs.destroy_acct_user_rec
        [] type = "DBD_GOT_TXN" -> FreedOthers.destroy_acct_txn_rec)

slurmdbd_free_modify_msg(type) ==
    CASE type = "DBD_MODIFY_ACCOUNTS" ->
           Within("cond", FreedOthers.destroy_acct_account_cond)
             \cup Within("rec", FreedRecs.destroy_acct_account_rec)
      [] type = "DBD_MODIFY_ASSOCS" ->
           Within("cond", FreedConds.destroy_acct_association_cond)
             \cup Within("rec", destroy_acct_association_rec)
      [] type = "DBD_MODIFY_CLUSTERS" ->
           Within("cond", FreedOthers.destroy_acct_cluster_cond)
             \cup Within("rec", FreedRecs.destroy_acct_cluster_rec)
      [] type = "DBD_MODIFY_USERS" ->
           Within("cond", FreedOthers.destroy_acct_user_cond)
             \cup Within("rec", FreedRecs.destroy_acct_user_rec)

slurmdbd_free_usage_msg(type) ==
    Within("rec", CASE type \in {"DBD_GET_ASSOC_USAGE", "DBD_GOT_ASSOC_USAGE"} ->
                         destroy_acct_association_rec
                    [] type \in {"DBD_GET_CLUSTER_USAGE", "DBD_GOT_CLUSTER_USAGE"} ->
                         FreedRecs.destroy_acct_cluster_rec
                    [] type \in {"DBD_GET_WCKEY_USAGE", "DBD_GOT_WCKEY_USAGE"} ->
                         FreedOthers.destroy_acct_wckey_rec)

\* The other messages to and from SlurmDBD.
slurmdbd_free_plain_msg(type) ==
    CASE type = "DBD_ARCHIVE_LOAD" -> FreedOthers.destroy_acct_archive_rec
      [] type \in {"DBD_CLUSTER_PROCS", "DBD_FLUSH_JOBS"} ->
                FreedDbdClusters.slurmdbd_free_cluster_procs_msg
      [] type = "DBD_GET_JOBS" -> FreedDbdJobs.slurmdbd_free_get_jobs_msg
      [] type = "DBD_JOB_COMPLETE" -> FreedDbdJobs.slurmdbd_free_job_complete_msg
      [] type = "DBD_JOB_START" -> FreedDbdJobs.slurmdbd_free_job_start_msg
      [] type = "DBD_NODE_STATE" -> FreedDbdNodes.slurmdbd_free_node_state_msg
      [] type = "DBD_RC" -> FreedDbdNodes.slurmdbd_free_rc_msg
      [] type = "DBD_STEP_COMPLETE" -> FreedDbdNodes.slurmdbd_free_step_complete_msg
      [] type = "DBD_STEP_START" -> FreedDbdNodes.slurmdbd_free_step_start_msg
      [] type = "DBD_REGISTER_CTLD" -> FreedDbdNodes.slurmdbd_free_register_ctld_msg
      [] OTHER -> {}

\* An update message: its objects are freed by the destructor of their type.
slurm_free_accounting_update_msg(type) ==
    Fields({"update_list"})
      \cup Within("update_list", FreedArchiveConds.destroy_acct_update_object) \cup
    Within("update_list", Within("objects",
      CASE type \in {"ACCT_ADD_USER", "ACCT_MODIFY_USER", "ACCT_REMOVE_USER", "ACCT_ADD_COORD",
                     "ACCT_REMOVE_COORD"} -> FreedRecs.destroy_acct_user_rec
        [] type \in {"ACCT_ADD_ASSOC", "ACCT_MODIFY_ASSOC", "ACCT_REMOVE_ASSOC"} ->
               destroy_acct_association_rec
        [] type \in {"ACCT_ADD_QOS", "ACCT_MODIFY_QOS", "ACCT_REMOVE_QOS"} ->
               FreedOthers.destroy_acct_qos_rec
        [] type \in {"ACCT_ADD_WCKEY", "ACCT_MODIFY_WCKEY", "ACCT_REMOVE_WCKEY"} ->
               FreedOthers.destroy_acct_wckey_rec))

\* The types that slurm_free_msg_data passes on; it logs an error for others.
slurm_free_msg_data(type) ==
    CASE type = "MESSAGE_EPILOG_COMPLETE" -> FreedTasks.slurm_free_epilog_complete_msg
      [] type = "REQUEST_COMPLETE_BATCH_SCRIPT" ->
                FreedRequests.slurm_free_complete_batch_script_msg
      [] type = "REQUEST_JOB_STEP_CREATE" -> FreedRequests.slurm_free_job_step_create_request_msg
      [] type \in {"REQUEST_RESOURCE_ALLOCATION", "REQUEST_JOB_WILL_RUN",
                   "REQUEST_SUBMIT_BATCH_JOB", "REQUEST_UPDATE_JOB"} ->
                          FreedJobs.slurm_free_job_desc_msg
      [] type = "MESSAGE_NODE_REGISTRATION_STATUS" ->
                FreedJobs.slurm_free_node_registration_status_msg
      [] type = "REQUEST_UPDATE_NODE" -> FreedJobs.slurm_free_update_node_msg
      [] type \in {"REQUEST_CREATE_PARTITION", "REQUEST_UPDATE_PARTITION"} ->
             FreedJobs.slurm_free_update_part_msg
      [] type = "REQUEST_DELETE_PARTITION" -> FreedRequests.slurm_free_delete_part_msg
      [] type \in {"REQUEST_CREATE_RESERVATION", "REQUEST_UPDATE_RESERVATION"} ->
             FreedRequests.slurm_free_resv_desc_msg
      [] type \in {"REQUEST_DELETE_RESERVATION", "RESPONSE_CREATE_RESERVATION"} ->
             FreedRequests.slurm_free_resv_name_msg
      [] type = "REQUEST_CHECKPOINT" -> FreedCheckpoints.slurm_free_checkpoint_msg
      [] type = "REQUEST_CHECKPOINT_COMP" -> FreedCheckpoints.slurm_free_checkpoint_comp_msg
      [] type = "REQUEST_CHECKPOINT_TASK_COMP" ->
                FreedCheckpoints.slurm_free_checkpoint_task_comp_msg
      [] type = "REQUEST_SHARE_INFO" -> FreedAnswers.slurm_free_shares_request_msg
      [] type = "RESPONSE_SHARE_INFO" -> FreedShares.slurm_free_shares_response_msg
      [] type = "REQUEST_PRIORITY_FACTORS" -> FreedShares.slurm_free_priority_factors_request_msg
      [] type = "RESPONSE_PRIORITY_FACTORS" -> FreedShares.slurm_free_priority_factors_response_msg
      [] type = "REQUEST_BATCH_JOB_LAUNCH" -> FreedJobs.slurm_free_job_launch_msg
      [] type = "REQUEST_LAUNCH_TASKS" -> FreedTasks.slurm_free_launch_tasks_request_msg
      [] type = "REQUEST_CHECKPOINT_TASKS" -> FreedTasks.slurm_free_checkpoint_tasks_msg
      [] type = "REQUEST_REATTACH_TASKS" -> FreedTasks.slurm_free_reattach_tasks_request_msg
      [] type = "RESPONSE_REATTACH_TASKS" -> FreedTasks.slurm_free_reattach_tasks_response_msg
      [] type \in {"REQUEST_ABORT_JOB", "REQUEST_KILL_TIMELIMIT", "REQUEST_TERMINATE_JOB"} ->
             FreedRequests.slurm_free_kill_job_msg
      [] type = "REQUEST_FILE_BCAST" -> FreedAnswers.slurm_free_file_bcast_msg
      [] type = "RESPONSE_TOPO_INFO" -> FreedAnswers.slurm_free_topo_info_msg
      [] OTHER -> {}

\* The function with which the caller of the API, srun or the daemon frees a
\* message that is not among them.
FreedByCaller(type) ==
    CASE type = "RESPONSE_BUILD_INFO" -> FreedAllocations.slurm_free_ctl_conf
      [] type \in {"RESPONSE_JOB_ALLOCATION_INFO_LITE", "RESPONSE_RESOURCE_ALLOCATION"} ->
             slurm_free_resource_allocation_response_msg
      [] type = "RESPONSE_JOB_WILL_RUN" -> FreedSmallAnswers.slurm_free_will_run_response_msg
      [] type = "RESPONSE_JOB_ALLOCATION_INFO" ->
                FreedAllocations.slurm_free_job_alloc_info_response_msg
      [] type = "RESPONSE_LAUNCH_TASKS" -> FreedRequests.slurm_free_launch_tasks_response_msg
      [] type = "RESPONSE_STEP_LAYOUT" -> slurm_step_layout_destroy
      [] type = "MESSAGE_TASK_EXIT" -> FreedRequests.slurm_free_task_exit_msg
      [] type = "RESPONSE_JOB_STEP_CREATE" ->
                FreedAllocations.slurm_free_job_step_create_response_msg
      [] type = "SRUN_EXEC" -> FreedTasks.slurm_free_srun_exec_msg
      [] type = "SRUN_NODE_FAIL" -> FreedTasks.slurm_free_srun_node_fail_msg
      [] type = "SRUN_STEP_MISSING" -> FreedTasks.slurm_free_srun_step_missing_msg
      [] type = "SRUN_USER_MSG" -> FreedCheckpoints.slurm_free_srun_user_msg
      [] type \in {"RESPONSE_CHECKPOINT", "RESPONSE_CHECKPOINT_COMP"} ->
             FreedCheckpoints.slurm_free_checkpoint_resp_msg
      [] type \in {"PMI_KVS_PUT_REQ", "PMI_KVS_GET_RESP"} -> FreedKvs.slurm_free_kvs_comm_set
      [] type = "PMI_KVS_GET_REQ" -> FreedSmallAnswers.slurm_free_get_kvs_msg
      [] type \in {"REQUEST_TRIGGER_GET", "RESPONSE_TRIGGER_GET", "REQUEST_TRIGGER_SET",
                   "REQUEST_TRIGGER_CLEAR"} -> FreedAnswers.slurm_free_trigger_msg
      [] type = "RESPONSE_SLURMD_STATUS" -> FreedJobAnswers.slurm_free_slurmd_status
      [] type = "REQUEST_JOB_NOTIFY" -> slurm_free_job_notify_msg
      [] type = "RESPONSE_JOB_INFO" -> FreedJobAnswers.slurm_free_job_info_msg
      [] type = "RESPONSE_PARTITION_INFO" -> FreedJobAnswers.slurm_free_partition_info_msg
      [] type = "RESPONSE_NODE_INFO" -> FreedJobAnswers.slurm_free_node_info_msg
      [] type = "RESPONSE_RESERVATION_INFO" -> FreedAnswers.slurm_free_reservation_info_msg
      [] type = "RESPONSE_JOB_STEP_INFO" -> FreedJobAnswers.slurm_free_job_step_info_response_msg
      [] type = "HEADER" ->
             Within("forward", FreedHeader.destroy_forward)
               \cup Within("ret_list", FreedHeader.destroy_data_info)
      [] OTHER -> {}
=============================================================================
