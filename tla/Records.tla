------------------------------ MODULE Records ------------------------------
(***************************************************************************)
(* The structures that messages are unpacked to: a structure is the set of *)
(* the paths of its members.  A member that is a structure, or that points *)
(* to one, has the paths within that structure; a list and an array have a *)
(* path of their own and the paths within their elements.                  *)
(***************************************************************************)
EXTENDS Sequences

Fields(S)    == {<<f>> : f \in S}
Within(f, P) == {<<f>> \o p : p \in P}

-----------------------------------------------------------------------------
(* The structures, header by header.                                        *)

switch_jobinfo == Fields({"switch"})

slurm_addr == Fields({"sin_addr", "sin_port"})

job_desc_msg_t ==
    Fields({"account", "acctg_freq", "alloc_node", "alloc_resp_port", "alloc_sid", "argc", "argv",
            "begin_time", "blrtsimage", "ckpt_dir", "ckpt_interval", "comment", "conn_type",
            "contiguous", "cpu_bind", "cpu_bind_type", "cpus_per_task", "dependency", "env_size",
            "environment", "err", "exc_nodes", "features", "geometry", "group_id", "immediate",
            "in", "job_id", "job_min_cores", "job_min_memory", "job_min_procs", "job_min_sockets",
            "job_min_threads", "job_min_tmp_disk", "kill_on_node_fail", "licenses", "linuximage",
            "mail_type", "mail_user", "max_cores", "max_nodes", "max_sockets", "max_threads",
            "mem_bind", "mem_bind_type", "min_cores", "min_nodes", "min_sockets", "min_threads",
            "mloaderimage", "name", "network", "nice", "ntasks_per_core", "ntasks_per_node",
            "ntasks_per_socket", "num_procs", "num_tasks", "open_mode", "other_port", "out",
            "overcommit", "partition", "plane_size", "priority", "ramdiskimage", "reboot",
            "req_nodes", "requeue", "reservation", "resp_host", "rotate", "script",
            "select_jobinfo", "shared", "task_dist", "time_limit", "user_id", "wckey", "work_dir"})

\* slurm.h: the jobs, and the layout of a step.
JobAnswers ==
  LET job_info_t == Fields({"account", "alloc_node", "alloc_sid", "assoc_id", "batch_flag",
          "command", "comment", "contiguous", "cpu_count_reps", "cpus_per_node", "cpus_per_task",
          "dependency", "end_time", "exc_node_inx", "exc_nodes", "exit_code", "features",
          "group_id", "job_id", "job_min_cores", "job_min_memory", "job_min_procs",
          "job_min_sockets", "job_min_threads", "job_min_tmp_disk", "job_state", "licenses",
          "max_cores", "max_nodes", "max_sockets", "max_threads", "min_cores", "min_sockets",
          "min_threads", "name", "network", "node_inx", "nodes", "ntasks_per_core",
          "ntasks_per_node", "ntasks_per_socket", "num_cpu_groups", "num_nodes", "num_procs",
          "partition", "pre_sus_time", "priority", "req_node_inx", "req_nodes", "requeue",
          "restart_cnt", "resv_name", "select_jobinfo", "shared", "start_time", "state_desc",
          "state_reason", "submit_time", "suspend_time", "time_limit", "user_id", "wckey",
          "work_dir"})
  IN [job_info_t |-> job_info_t,
      job_info_msg_t |-> Fields({"last_update", "record_count"})
          \cup Within("job_array", job_info_t),
      slurm_step_layout_t |-> Fields({"node_cnt", "node_list", "plane_size", "task_cnt",
          "task_dist", "tasks", "tids"})]

\* slurm.h: what slurmctld and slurmd tell srun.
SrunMessages ==
  [launch_tasks_response_msg_t |-> Fields({"count_of_pids", "local_pids", "node_name",
       "return_code", "srun_node_id", "task_ids"}),
   task_exit_msg_t |-> Fields({"job_id", "num_tasks", "return_code", "step_id", "task_id_list"}),
   srun_ping_msg_t |-> Fields({"job_id", "step_id"}),
   srun_job_complete_msg_t |-> Fields({"job_id", "step_id"}),
   srun_timeout_msg_t |-> Fields({"job_id", "step_id", "timeout"}),
   srun_user_msg_t |-> Fields({"job_id", "msg"}),
   srun_node_fail_msg_t |-> Fields({"job_id", "nodelist", "step_id"}),
   srun_step_missing_msg_t |-> Fields({"job_id", "nodelist", "step_id"})]

\* slurm.h: steps, nodes, partitions and allocations.
ControllerAnswers ==
  LET job_step_info_t == Fields({"ckpt_dir", "ckpt_interval", "job_id", "name", "network",
          "node_inx", "nodes", "num_tasks", "partition", "resv_ports", "run_time", "start_time",
          "step_id", "user_id"})
      node_info_t == Fields({"arch", "cores", "cpus", "features", "name", "node_state", "os",
          "real_memory", "reason", "sockets", "threads", "tmp_disk", "used_cpus", "weight"})
      topo_info_t == Fields({"level", "link_speed", "name", "nodes", "switches"})
      partition_info_t == Fields({"allow_alloc_nodes", "allow_groups", "default_part",
          "default_time", "disable_root_jobs", "hidden", "max_nodes", "max_share", "max_time",
          "min_nodes", "name", "node_inx", "node_scaling", "nodes", "priority", "root_only",
          "state_up", "total_cpus", "total_nodes"})
  IN [job_step_info_t |-> job_step_info_t,
      job_step_info_response_msg_t |-> Fields({"job_step_count", "last_update"})
          \cup Within("job_steps", job_step_info_t),
      node_info_t |-> node_info_t,
      node_info_msg_t |-> Fields({"last_update", "record_count"})
          \cup Within("node_array", node_info_t),
      topo_info_t |-> topo_info_t,
      topo_info_response_msg_t |-> Fields({"record_count"}) \cup Within("topo_array", topo_info_t),
      job_alloc_info_msg_t |-> Fields({"job_id"}),
      partition_info_t |-> partition_info_t,
      delete_part_msg_t |-> Fields({"name"}),
      resource_allocation_response_msg_t |-> Fields({"cpu_count_reps", "cpus_per_node",
          "error_code", "job_id", "node_cnt", "node_list", "num_cpu_groups", "select_jobinfo"}),
      job_alloc_info_response_msg_t |-> Fields({"cpu_count_reps", "cpus_per_node", "error_code",
          "job_id", "node_addr", "node_cnt", "node_list", "num_cpu_groups", "select_jobinfo"})
          \cup Within("node_addr", slurm_addr),
      partition_info_msg_t |-> Fields({"last_update", "record_count"})
          \cup Within("partition_array", partition_info_t)]

\* slurm.h: reservations.
ReservationAnswers ==
  LET reserve_info_t == Fields({"accounts", "end_time", "features", "flags", "name", "node_cnt",
          "node_inx", "node_list", "partition", "start_time", "users"})
  IN [reserve_info_t |-> reserve_info_t,
      reserve_info_msg_t |-> Fields({"last_update", "record_count"})
          \cup Within("reservation_array", reserve_info_t),
      resv_desc_msg_t |-> Fields({"accounts", "duration", "end_time", "features", "flags", "name",
          "node_cnt", "node_list", "partition", "start_time", "users"})]

reservation_name_msg_t == Fields({"name"})

\* slurm.h: the daemon of a node, and updates of nodes.
NodeMessages ==
  [slurmd_status_t |-> Fields({"actual_cores", "actual_cpus", "actual_real_mem", "actual_sockets",
       "actual_threads", "actual_tmp_disk", "booted", "hostname", "last_slurmctld_msg", "pid",
       "slurmd_debug", "slurmd_logfile", "step_list", "version"}),
   submit_response_msg_t |-> Fields({"error_code", "job_id", "step_id"}),
   update_node_msg_t |-> Fields({"features", "node_names", "node_state", "reason", "weight"})]

\* slurm.h: triggers.
TriggerMessages ==
  LET trigger_info_t == Fields({"offset", "program", "res_id", "res_type", "trig_id", "trig_type",
          "user_id"})
  IN [trigger_info_t |-> trigger_info_t,
      trigger_info_msg_t |-> Fields({"record_count"}) \cup Within("trigger_array", trigger_info_t)]

\* slurm_pmi.h: key and value pairs of tasks.
KvsMessages ==
  LET kvs_hosts == Fields({"hostname", "port", "task_id"})
      kvs_comm == Fields({"kvs_cnt", "kvs_keys", "kvs_name", "kvs_values"})
  IN [kvs_hosts |-> kvs_hosts,
      kvs_comm |-> kvs_comm,
      kvs_comm_set |-> Fields({"host_cnt", "kvs_comm_recs"}) \cup Within("kvs_host_ptr", kvs_hosts)
          \cup Within("kvs_comm_ptr", kvs_comm)]

job_option_info == Fields({"optarg", "option", "type"})

job_options ==
    Fields({"iterator", "magic", "options"})
      \cup Within("options", job_option_info)

\* jobacct_common.h.
JobacctRecs ==
  LET jobacct_id_t == Fields({"nodeid", "taskid"})
      sacct_t == Fields({"ave_cpu", "ave_pages", "ave_rss", "ave_vsize", "max_pages", "max_rss",
          "max_vsize", "min_cpu"}) \cup Within("max_vsize_id", jobacct_id_t)
          \cup Within("max_rss_id", jobacct_id_t) \cup Within("max_pages_id", jobacct_id_t)
          \cup Within("min_cpu_id", jobacct_id_t)
      jobacct_step_rec_t == Fields({"elapsed", "end", "exitcode", "job_ptr", "ncpus", "nnodes",
          "nodes", "ntasks", "requid", "start", "state", "stepid", "stepname", "suspended",
          "sys_cpu_sec", "sys_cpu_usec", "task_dist", "tot_cpu_sec", "tot_cpu_usec", "user_cpu_sec",
          "user_cpu_usec"}) \cup Within("sacct", sacct_t)
  IN [jobacct_id_t |-> jobacct_id_t,
      sacct_t |-> sacct_t,
      jobacct_job_rec_t |-> Fields({"account", "alloc_cpus", "alloc_nodes", "associd", "blockid",
          "cluster", "elapsed", "eligible", "end", "exitcode", "first_step_ptr", "gid", "jobid",
          "jobname", "lft", "nodes", "partition", "priority", "qos", "req_cpus", "requid", "resvid",
          "show_full", "start", "state", "steps", "submit", "suspended", "sys_cpu_sec",
          "sys_cpu_usec", "timelimit", "tot_cpu_sec", "tot_cpu_usec", "track_steps", "uid", "user",
          "user_cpu_sec", "user_cpu_usec", "wckey", "wckeyid"}) \cup Within("sacct", sacct_t)
          \cup Within("steps", jobacct_step_rec_t),
      jobacct_step_rec_t |-> jobacct_step_rec_t,
      jobacct_selected_step_t |-> Fields({"jobid", "stepid"}),
      jobacctinfo |-> Fields({"max_pages", "max_rss", "max_vsize", "min_cpu", "pid", "sys_cpu_sec",
          "sys_cpu_usec", "tot_cpu", "tot_pages", "tot_rss", "tot_vsize", "user_cpu_sec",
          "user_cpu_usec"}) \cup Within("max_vsize_id", jobacct_id_t)
          \cup Within("max_rss_id", jobacct_id_t) \cup Within("max_pages_id", jobacct_id_t)
          \cup Within("min_cpu_id", jobacct_id_t)]

config_key_pair_t == Fields({"name", "value"})

slurm_ctl_conf_t ==
    Fields({"accounting_storage_backup_host", "accounting_storage_enforce",
            "accounting_storage_host", "accounting_storage_loc", "accounting_storage_pass",
            "accounting_storage_port", "accounting_storage_type", "accounting_storage_user",
            "authtype", "backup_addr", "backup_controller", "batch_start_timeout", "boot_time",
            "cache_groups", "checkpoint_type", "cluster_name", "complete_wait", "control_addr",
            "control_machine", "crypto_type", "debug_flags", "def_mem_per_task",
            "disable_root_jobs", "enforce_part_limits", "epilog", "epilog_msg_time",
            "epilog_slurmctld", "event_handler_logfile", "event_handler_poll_interval",
            "fast_schedule", "first_job_id", "get_env_timeout", "health_check_interval",
            "health_check_program", "inactive_limit", "job_acct_gather_freq",
            "job_acct_gather_type", "job_ckpt_dir", "job_comp_host", "job_comp_loc",
            "job_comp_pass", "job_comp_port", "job_comp_type", "job_comp_user",
            "job_credential_private_key", "job_credential_public_certificate", "job_file_append",
            "job_requeue", "kill_on_bad_exit", "kill_wait", "last_update", "licenses", "mail_prog",
            "max_job_cnt", "max_mem_per_task", "min_job_age", "mpi_default", "mpi_params",
            "msg_timeout", "next_job_id", "node_prefix", "over_time_limit", "plugindir",
            "plugstack", "priority_decay_hl", "priority_favor_small", "priority_max_age",
            "priority_reset_period", "priority_type", "priority_weight_age", "priority_weight_fs",
            "priority_weight_js", "priority_weight_part", "priority_weight_qos", "private_data",
            "proctrack_type", "prolog", "prolog_slurmctld", "propagate_prio_process",
            "propagate_rlimits", "propagate_rlimits_except", "resume_program", "resume_rate",
            "resume_timeout", "resv_over_run", "ret2service", "salloc_default_command",
            "sched_params", "sched_time_slice", "schedport", "schedrootfltr", "schedtype",
            "select_conf_key_pairs", "select_type", "select_type_param", "slurm_conf",
            "slurm_event_handler", "slurm_kill_on_bad_exit", "slurm_user_id", "slurm_user_name",
            "slurmctld_debug", "slurmctld_logfile", "slurmctld_pidfile", "slurmctld_port",
            "slurmctld_timeout", "slurmd_debug", "slurmd_logfile", "slurmd_pidfile", "slurmd_port",
            "slurmd_spooldir", "slurmd_timeout", "slurmd_user_id", "slurmd_user_name",
            "srun_epilog", "srun_io_timeout", "srun_prolog", "state_save_location",
            "suspend_exc_nodes", "suspend_exc_parts", "suspend_program", "suspend_rate",
            "suspend_time", "suspend_timeout", "switch_type", "task_epilog", "task_plugin",
            "task_plugin_param", "task_prolog", "tmp_fs", "topology_plugin", "track_wckey",
            "tree_width", "unkillable_program", "unkillable_timeout", "use_pam", "wait_time",
            "z_16", "z_32", "z_char"})
      \cup Within("select_conf_key_pairs", config_key_pair_t)

\* slurm_accounting_storage.h: which associations and accounts.
AssocConds ==
  LET acct_association_cond_t == Fields({"acct_list", "cluster_list", "fairshare_list",
          "grp_cpu_mins_list", "grp_cpus_list", "grp_jobs_list", "grp_nodes_list",
          "grp_submit_jobs_list", "grp_wall_list", "id_list", "max_cpu_mins_pj_list",
          "max_cpus_pj_list", "max_jobs_list", "max_nodes_pj_list", "max_submit_jobs_list",
          "max_wall_pj_list", "parent_acct_list", "partition_list", "qos_list", "usage_end",
          "usage_start", "user_list", "with_deleted", "with_raw_qos", "with_sub_accts",
          "with_usage", "without_parent_info", "without_parent_limits"})
  IN [acct_association_cond_t |-> acct_association_cond_t,
      acct_account_cond_t |-> Fields({"description_list", "organization_list", "with_assocs",
          "with_coords", "with_deleted"}) \cup Within("assoc_cond", acct_association_cond_t)]

acct_accounting_rec_t == Fields({"alloc_secs", "id", "period_start"})

\* slurm_accounting_storage.h: transactions, updates and wckeys.
UpdateRecs ==
  [acct_txn_rec_t |-> Fields({"accts", "action", "actor_name", "clusters", "id", "set_info",
       "timestamp", "users", "where_query"}),
   acct_update_object_t |-> Fields({"objects", "type"}),
   acct_wckey_cond_t |-> Fields({"cluster_list", "id_list", "name_list", "usage_end", "usage_start",
       "user_list", "with_deleted", "with_usage"}),
   acct_wckey_rec_t |-> Fields({"accounting_list", "cluster", "id", "name", "uid", "user"})
       \cup Within("accounting_list", acct_accounting_rec_t)]

cluster_accounting_rec_t ==
    Fields({"alloc_secs", "cpu_count", "down_secs", "idle_secs", "over_secs", "pdown_secs",
            "period_start", "resv_secs"})

\* slurm_accounting_storage.h: associations, clusters and jobs.
AssocRecs ==
  LET acct_association_rec_t == Fields({"accounting_list", "acct", "childern_list", "cluster",
          "grp_cpu_mins", "grp_cpus", "grp_jobs", "grp_nodes", "grp_submit_jobs", "grp_used_cpus",
          "grp_used_nodes", "grp_used_wall", "grp_wall", "id", "level_shares", "lft",
          "max_cpu_mins_pj", "max_cpus_pj", "max_jobs", "max_nodes_pj", "max_submit_jobs",
          "max_wall_pj", "parent_acct", "parent_assoc_ptr", "parent_id", "partition", "qos_list",
          "rgt", "shares_norm", "shares_raw", "uid", "usage_efctv", "usage_norm", "usage_raw",
          "used_jobs", "used_submit_jobs", "user"})
          \cup Within("accounting_list", acct_accounting_rec_t)
  IN [acct_association_rec_t |-> acct_association_rec_t,
      acct_cluster_cond_t |-> Fields({"classification", "cluster_list", "usage_end", "usage_start",
          "with_deleted", "with_usage"}),
      acct_cluster_rec_t |-> Fields({"accounting_list", "classification", "control_host",
          "control_port", "cpu_count", "name", "nodes", "rpc_version"})
          \cup Within("accounting_list", cluster_accounting_rec_t)
          \cup Within("root_assoc", acct_association_rec_t),
      acct_coord_rec_t |-> Fields({"direct", "name"}),
      acct_job_cond_t |-> Fields({"acct_list", "associd_list", "cluster_list", "duplicates",
          "groupid_list", "partition_list", "resv_list", "resvid_list", "state_list", "step_list",
          "usage_end", "usage_start", "used_nodes", "userid_list", "wckey_list", "without_steps",
          "without_usage_truncation"})
          \cup Within("step_list", JobacctRecs.jobacct_selected_step_t)]

acct_account_rec_t ==
    Fields({"assoc_list", "coordinators", "description", "name", "organization"})
      \cup Within("assoc_list", AssocRecs.acct_association_rec_t)
      \cup Within("coordinators", AssocRecs.acct_coord_rec_t)

\* slurm_accounting_storage.h: QOS, reservations and users.
AcctRecs ==
  LET acct_used_limits_t == Fields({"cpu_mins", "cpus", "jobs", "nodes", "submit_jobs", "uid",
          "wall"})
  IN [acct_qos_rec_t |-> Fields({"description", "grp_cpu_mins", "grp_cpus", "grp_jobs", "grp_nodes",
          "grp_submit_jobs", "grp_used_cpus", "grp_used_jobs", "grp_used_nodes",
          "grp_used_submit_jobs", "grp_used_wall", "grp_wall", "id", "job_flags", "job_list",
          "max_cpu_mins_pu", "max_cpus_pu", "max_jobs_pu", "max_nodes_pu", "max_submit_jobs_pu",
          "max_wall_pu", "name", "norm_priority", "preemptee_list", "preemptor_list", "priority",
          "usage_factor", "usage_raw", "user_limit_list"})
          \cup Within("user_limit_list", acct_used_limits_t),
      acct_qos_cond_t |-> Fields({"description_list", "id_list", "name_list", "with_deleted"}),
      acct_reservation_cond_t |-> Fields({"cluster_list", "flags", "id_list", "name_list", "nodes",
          "time_end", "time_start", "with_usage"}),
      acct_reservation_rec_t |-> Fields({"alloc_secs", "assocs", "cluster", "cpus", "down_secs",
          "flags", "id", "name", "node_inx", "nodes", "time_end", "time_start", "time_start_prev"}),
      acct_used_limits_t |-> acct_used_limits_t,
      acct_user_cond_t |-> Fields({"admin_level", "def_acct_list", "def_wckey_list", "with_assocs",
          "with_coords", "with_deleted", "with_wckeys"})
          \cup Within("assoc_cond", AssocConds.acct_association_cond_t),
      acct_user_rec_t |-> Fields({"admin_level", "assoc_list", "coord_accts", "default_acct",
          "default_wckey", "name", "uid", "wckey_list"})
          \cup Within("assoc_list", AssocRecs.acct_association_rec_t)
          \cup Within("coord_accts", AssocRecs.acct_coord_rec_t)
          \cup Within("wckey_list", UpdateRecs.acct_wckey_rec_t),
      acct_txn_cond_t |-> Fields({"acct_list", "action_list", "actor_list", "cluster_list",
          "id_list", "info_list", "name_list", "time_end", "time_start", "user_list",
          "with_assoc_info"})]

\* slurm_accounting_storage.h: archives.
ArchiveRecs ==
  [acct_archive_cond_t |-> Fields({"archive_dir", "archive_events", "archive_jobs",
       "archive_script", "archive_steps", "archive_suspend", "purge_event", "purge_job",
       "purge_step", "purge_suspend"}) \cup Within("job_cond", AssocRecs.acct_job_cond_t),
   acct_archive_rec_t |-> Fields({"archive_file", "insert"})]

slurm_job_credential ==
    Fields({"core_array_size", "core_bitmap", "cores_per_socket", "ctime", "job_hostlist",
            "job_mem", "job_nhosts", "jobid", "magic", "mutex", "nodes", "siglen", "signature",
            "sock_core_rep_count", "sockets_per_node", "stepid", "uid"})

\* slurm_protocol_defs.h: shares, priorities and what asks about jobs and nodes.
RequestMessages ==
  LET association_shares_object_t == Fields({"assoc_id", "cluster", "name", "parent", "shares_norm",
          "shares_raw", "usage_efctv", "usage_norm", "usage_raw", "user"})
      priority_factors_object_t == Fields({"job_id", "nice", "priority_age", "priority_fs",
          "priority_js", "priority_part", "priority_qos", "user_id"})
  IN [ret_data_info_t |-> Fields({"data", "err", "node_name", "type"}),
      association_shares_object_t |-> association_shares_object_t,
      shares_request_msg_t |-> Fields({"acct_list", "user_list"}),
      shares_response_msg_t |-> Fields({"assoc_shares_list", "tot_shares"})
          \cup Within("assoc_shares_list", association_shares_object_t),
      priority_factors_object_t |-> priority_factors_object_t,
      priority_factors_request_msg_t |-> Fields({"job_id_list", "uid_list"}),
      priority_factors_response_msg_t |-> Fields({"priority_factors_list"})
          \cup Within("priority_factors_list", priority_factors_object_t),
      job_step_kill_msg_t |-> Fields({"batch_flag", "job_id", "job_step_id", "signal"}),
      job_notify_msg_t |-> Fields({"job_id", "job_step_id", "message"}),
      job_id_msg_t |-> Fields({"job_id"}),
      job_step_id_msg_t |-> Fields({"job_id", "step_id"}),
      job_info_request_msg_t |-> Fields({"last_update", "show_flags"}),
      job_step_info_request_msg_t |-> Fields({"job_id", "last_update", "show_flags", "step_id"}),
      node_info_request_msg_t |-> Fields({"last_update", "show_flags"}),
      node_info_select_request_msg_t |-> Fields({"last_update"}),
      part_info_request_msg_t |-> Fields({"last_update", "show_flags"}),
      resv_info_request_msg_t |-> Fields({"last_update"}),
      complete_job_allocation_msg_t |-> Fields({"job_id", "job_rc"}),
      complete_batch_script_msg_t |-> Fields({"job_id", "job_rc", "node_name", "slurm_rc"}),
      step_complete_msg_t |-> Fields({"job_id", "job_step_id", "range_first", "range_last",
          "step_rc"}) \cup Within("jobacct", JobacctRecs.jobacctinfo),
      stat_jobacct_msg_t |-> Fields({"job_id", "num_tasks", "return_code", "step_id"})
          \cup Within("jobacct", JobacctRecs.jobacctinfo),
      kill_tasks_msg_t |-> Fields({"job_id", "job_step_id", "signal"})]

\* slurm_protocol_defs.h: the header of a message.
Headers ==
  LET forward_t == Fields({"cnt", "init", "nodelist", "timeout"})
  IN [forward_t |-> forward_t,
      header_t |-> Fields({"body_length", "flags", "msg_type", "ret_cnt", "ret_list", "version"})
          \cup Within("forward", forward_t) \cup Within("orig_addr", slurm_addr)
          \cup Within("ret_list", RequestMessages.ret_data_info_t)]

\* slurm_protocol_defs.h: checkpoints, steps and their tasks.
TaskMessages ==
  [checkpoint_tasks_msg_t |-> Fields({"image_dir", "job_id", "job_step_id", "timestamp"}),
   epilog_complete_msg_t |-> Fields({"job_id", "node_name", "return_code"})
       \cup Within("switch_nodeinfo", switch_jobinfo),
   shutdown_msg_t |-> Fields({"options"}),
   last_update_msg_t |-> Fields({"last_update"}),
   set_debug_level_msg_t |-> Fields({"debug_level"}),
   job_step_create_request_msg_t |-> Fields({"ckpt_dir", "ckpt_interval", "cpu_count", "exclusive",
       "host", "immediate", "job_id", "mem_per_task", "name", "network", "no_kill", "node_count",
       "node_list", "num_tasks", "overcommit", "plane_size", "port", "relative", "resv_port_cnt",
       "task_dist", "user_id"}),
   job_step_create_response_msg_t |-> Fields({"job_step_id", "resv_ports"})
       \cup Within("step_layout", JobAnswers.slurm_step_layout_t)
       \cup Within("cred", slurm_job_credential) \cup Within("switch_job", switch_jobinfo),
   launch_tasks_request_msg_t |-> Fields({"acctg_freq", "argc", "argv", "buffered_stdio",
       "ckpt_dir", "complete_nodelist", "cpu_bind", "cpu_bind_type", "cpus_allocated",
       "cpus_per_task", "cwd", "efname", "env", "envc", "gid", "global_task_ids", "ifname",
       "io_port", "job_id", "job_mem", "job_step_id", "labelio", "max_cores", "max_sockets",
       "max_threads", "mem_bind", "mem_bind_type", "multi_prog", "nnodes", "nprocs", "num_io_port",
       "num_resp_port", "ofname", "open_mode", "pty", "resp_port", "restart_dir", "slurmd_debug",
       "task_dist", "task_epilog", "task_flags", "task_prolog", "tasks_to_launch", "uid",
       "user_managed_io"}) \cup Within("orig_addr", slurm_addr)
       \cup Within("cred", slurm_job_credential) \cup Within("switch_job", switch_jobinfo)
       \cup Within("options", job_options),
   task_user_managed_io_msg_t |-> Fields({"task_id"})]

return_code_msg_t == Fields({"return_code"})

\* slurm_protocol_defs.h: what goes to slurmd, and what ends a job.
SlurmdMessages ==
  [kill_job_msg_t |-> Fields({"job_id", "job_state", "job_uid", "nodes", "select_jobinfo", "time"}),
   signal_job_msg_t |-> Fields({"job_id", "signal"}),
   job_time_msg_t |-> Fields({"expiration_time", "job_id"}),
   reattach_tasks_request_msg_t |-> Fields({"io_port", "job_id", "job_step_id", "num_io_port",
       "num_resp_port", "resp_port"}) \cup Within("cred", slurm_job_credential),
   reattach_tasks_response_msg_t |-> Fields({"executable_names", "gtids", "local_pids", "node_name",
       "ntasks", "return_code"}),
   batch_job_launch_msg_t |-> Fields({"acctg_freq", "argc", "argv", "ckpt_dir", "cpu_bind",
       "cpu_bind_type", "cpu_count_reps", "cpus_per_node", "cpus_per_task", "envc", "environment",
       "err", "gid", "in", "job_id", "job_mem", "nodes", "nprocs", "num_cpu_groups", "open_mode",
       "out", "overcommit", "restart_cnt", "restart_dir", "script", "select_jobinfo", "step_id",
       "uid", "work_dir"}) \cup Within("cred", slurm_job_credential),
   job_id_request_msg_t |-> Fields({"job_pid"}),
   job_id_response_msg_t |-> Fields({"job_id", "return_code"}),
   srun_exec_msg_t |-> Fields({"argc", "argv", "job_id", "step_id"}),
   checkpoint_msg_t |-> Fields({"data", "image_dir", "job_id", "op", "step_id"}),
   checkpoint_comp_msg_t |-> Fields({"begin_time", "error_code", "error_msg", "job_id", "step_id"}),
   checkpoint_task_comp_msg_t |-> Fields({"begin_time", "error_code", "error_msg", "job_id",
       "step_id", "task_id"}),
   checkpoint_resp_msg_t |-> Fields({"error_code", "error_msg", "event_time"}),
   suspend_msg_t |-> Fields({"job_id", "op"}),
   kvs_get_msg_t |-> Fields({"hostname", "port", "size", "task_id"}),
   file_bcast_msg_t |-> Fields({"atime", "block", "block_len", "block_no", "fname", "force", "gid",
       "last_block", "modes", "mtime", "uid"})]

\* slurm_protocol_defs.h: what a job would get, and what a node has.
NodeAnswers ==
  [will_run_response_msg_t |-> Fields({"job_id", "node_list", "proc_cnt", "start_time"}),
   slurm_node_registration_status_msg_t |-> Fields({"arch", "cores", "cpus", "job_count", "job_id",
       "node_name", "os", "real_memory", "sockets", "startup", "status", "step_id", "threads",
       "timestamp", "tmp_disk"}) \cup Within("switch_nodeinfo", switch_jobinfo)]

\* slurmdbd_defs.h: coordinators and processors of a cluster.
DbdClusterMessages ==
  [dbd_acct_coord_msg_t |-> Fields({"acct_list"}) \cup Within("cond", AcctRecs.acct_user_cond_t),
   dbd_cluster_procs_msg_t |-> Fields({"cluster_name", "cluster_nodes", "event_time",
       "proc_count"})]

dbd_roll_usage_msg_t == Fields({"archive_data", "end", "start"})

\* slurmdbd_defs.h: jobs, and the connection.
DbdJobMessages ==
  [dbd_get_jobs_msg_t |-> Fields({"cluster_name", "completion", "gid", "last_update",
       "selected_parts", "selected_steps", "user"})
       \cup Within("selected_steps", JobacctRecs.jobacct_selected_step_t),
   dbd_init_msg_t |-> Fields({"rollback", "uid", "version"}),
   dbd_fini_msg_t |-> Fields({"close_conn", "commit"}),
   dbd_job_comp_msg_t |-> Fields({"assoc_id", "db_index", "end_time", "exit_code", "job_id",
       "job_state", "nodes", "start_time", "submit_time"}),
   dbd_job_start_msg_t |-> Fields({"account", "alloc_cpus", "alloc_nodes", "assoc_id", "block_id",
       "cluster", "db_index", "eligible_time", "gid", "job_id", "job_state", "name", "node_inx",
       "nodes", "partition", "priority", "req_cpus", "resv_id", "start_time", "submit_time",
       "timelimit", "uid", "wckey"}),
   dbd_id_rc_msg_t |-> Fields({"id", "return_code"}),
   dbd_job_suspend_msg_t |-> Fields({"assoc_id", "db_index", "job_id", "job_state", "submit_time",
       "suspend_time"})]

\* slurmdbd_defs.h: nodes, steps and return codes.
DbdNodeMessages ==
  [dbd_node_state_msg_t |-> Fields({"cluster_name", "cpu_count", "event_time", "hostlist",
       "new_state", "reason", "state"}),
   dbd_rc_msg_t |-> Fields({"comment", "return_code", "sent_type"}),
   dbd_register_ctld_msg_t |-> Fields({"cluster_name", "port"}),
   dbd_step_comp_msg_t |-> Fields({"assoc_id", "db_index", "end_time", "exit_code", "job_id",
       "job_submit_time", "req_uid", "start_time", "step_id", "total_procs", "total_tasks"})
       \cup Within("jobacct", JobacctRecs.jobacctinfo),
   dbd_step_start_msg_t |-> Fields({"assoc_id", "db_index", "job_id", "job_submit_time", "name",
       "node_cnt", "node_inx", "nodes", "start_time", "step_id", "task_dist", "total_procs",
       "total_tasks"})]

-----------------------------------------------------------------------------
(* The structure of a message.                                              *)

CondStructure(type) ==
    CASE type \in {"DBD_GET_ACCOUNTS", "DBD_REMOVE_ACCOUNTS"} -> AssocConds.acct_account_cond_t
      [] type \in {"DBD_GET_ASSOCS", "DBD_REMOVE_ASSOCS"} -> AssocConds.acct_association_cond_t
      [] type \in {"DBD_GET_CLUSTERS", "DBD_REMOVE_CLUSTERS"} -> AssocRecs.acct_cluster_cond_t
      [] type = "DBD_GET_JOBS_COND" -> AssocRecs.acct_job_cond_t
      [] type \in {"DBD_GET_QOS", "DBD_REMOVE_QOS"} -> AcctRecs.acct_qos_cond_t
      [] type \in {"DBD_GET_WCKEYS", "DBD_REMOVE_WCKEYS"} -> UpdateRecs.acct_wckey_cond_t
      [] type \in {"DBD_GET_USERS", "DBD_REMOVE_USERS"} -> AcctRecs.acct_user_cond_t
      [] type = "DBD_GET_TXN" -> AcctRecs.acct_txn_cond_t
      [] type = "DBD_ARCHIVE_DUMP" -> ArchiveRecs.acct_archive_cond_t
      [] type = "DBD_GET_RESVS" -> AcctRecs.acct_reservation_cond_t

ElementStructure(type) ==
    CASE type \in {"DBD_ADD_ACCOUNTS", "DBD_GOT_ACCOUNTS"} -> acct_account_rec_t
      [] type \in {"DBD_ADD_ASSOCS", "DBD_GOT_ASSOCS"} -> AssocRecs.acct_association_rec_t
      [] type \in {"DBD_ADD_CLUSTERS", "DBD_GOT_CLUSTERS"} -> AssocRecs.acct_cluster_rec_t
      [] type = "DBD_GOT_CONFIG" -> config_key_pair_t
      [] type = "DBD_GOT_JOBS" -> JobacctRecs.jobacct_job_rec_t
      [] type = "DBD_GOT_LIST" -> {}
      [] type \in {"DBD_ADD_QOS", "DBD_GOT_QOS"} -> AcctRecs.acct_qos_rec_t
      [] type = "DBD_GOT_RESVS" -> AcctRecs.acct_reservation_rec_t
      [] type \in {"DBD_ADD_WCKEYS", "DBD_GOT_WCKEYS"} -> UpdateRecs.acct_wckey_rec_t
      [] type \in {"DBD_ADD_USERS", "DBD_GOT_USERS"} -> AcctRecs.acct_user_rec_t
      [] type = "DBD_GOT_TXN" -> UpdateRecs.acct_txn_rec_t

ModifyStructure(type) ==
    CASE type = "DBD_MODIFY_ACCOUNTS" ->
           Within("cond", AssocConds.acct_account_cond_t) \cup Within("rec", acct_account_rec_t)
      [] type = "DBD_MODIFY_ASSOCS" ->
           Within("cond", AssocConds.acct_association_cond_t)
             \cup Within("rec", AssocRecs.acct_association_rec_t)
      [] type = "DBD_MODIFY_CLUSTERS" ->
           Within("cond", AssocRecs.acct_cluster_cond_t)
             \cup Within("rec", AssocRecs.acct_cluster_rec_t)
      [] type = "DBD_MODIFY_USERS" ->
           Within("cond", AcctRecs.acct_user_cond_t) \cup Within("rec", AcctRecs.acct_user_rec_t)

UsageStructure(type) ==
    Fields({"start", "end"}) \cup
    Within("rec", CASE type \in {"DBD_GET_ASSOC_USAGE", "DBD_GOT_ASSOC_USAGE"} ->
                         AssocRecs.acct_association_rec_t
                    [] type \in {"DBD_GET_CLUSTER_USAGE", "DBD_GOT_CLUSTER_USAGE"} ->
                         AssocRecs.acct_cluster_rec_t
                    [] type \in {"DBD_GET_WCKEY_USAGE", "DBD_GOT_WCKEY_USAGE"} ->
                         UpdateRecs.acct_wckey_rec_t)

PlainStructure(type) ==
    CASE type = "DBD_ARCHIVE_LOAD" -> ArchiveRecs.acct_archive_rec_t
      [] type \in {"DBD_CLUSTER_PROCS", "DBD_FLUSH_JOBS"} ->
                DbdClusterMessages.dbd_cluster_procs_msg_t
      [] type = "DBD_GET_JOBS" -> DbdJobMessages.dbd_get_jobs_msg_t
      [] type = "DBD_INIT" -> DbdJobMessages.dbd_init_msg_t
      [] type = "DBD_FINI" -> DbdJobMessages.dbd_fini_msg_t
      [] type = "DBD_JOB_COMPLETE" -> DbdJobMessages.dbd_job_comp_msg_t
      [] type = "DBD_JOB_START" -> DbdJobMessages.dbd_job_start_msg_t
      [] type = "DBD_ID_RC" -> DbdJobMessages.dbd_id_rc_msg_t
      [] type = "DBD_JOB_SUSPEND" -> DbdJobMessages.dbd_job_suspend_msg_t
      [] type = "DBD_NODE_STATE" -> DbdNodeMessages.dbd_node_state_msg_t
      [] type = "DBD_RC" -> DbdNodeMessages.dbd_rc_msg_t
      [] type = "DBD_STEP_COMPLETE" -> DbdNodeMessages.dbd_step_comp_msg_t
      [] type = "DBD_STEP_START" -> DbdNodeMessages.dbd_step_start_msg_t
      [] type = "DBD_REGISTER_CTLD" -> DbdNodeMessages.dbd_register_ctld_msg_t
      [] type = "DBD_ROLL_USAGE" -> dbd_roll_usage_msg_t
      [] type = "DBD_GET_CONFIG" -> {}

\* What the update object of a type holds.
UpdatedRecord(type) ==
    CASE type \in {"ACCT_ADD_USER", "ACCT_MODIFY_USER", "ACCT_REMOVE_USER", "ACCT_ADD_COORD",
                   "ACCT_REMOVE_COORD"} -> AcctRecs.acct_user_rec_t
      [] type \in {"ACCT_ADD_ASSOC", "ACCT_MODIFY_ASSOC", "ACCT_REMOVE_ASSOC"} ->
             AssocRecs.acct_association_rec_t
      [] type \in {"ACCT_ADD_QOS", "ACCT_MODIFY_QOS", "ACCT_REMOVE_QOS"} -> AcctRecs.acct_qos_rec_t
      [] type \in {"ACCT_ADD_WCKEY", "ACCT_MODIFY_WCKEY", "ACCT_REMOVE_WCKEY"} ->
             UpdateRecs.acct_wckey_rec_t

SlurmStructure(type) ==
    CASE type = "SRUN_EXEC" -> SlurmdMessages.srun_exec_msg_t
      [] type = "SRUN_JOB_COMPLETE" -> SrunMessages.srun_job_complete_msg_t
      [] type = "SRUN_PING" -> SrunMessages.srun_ping_msg_t
      [] type = "SRUN_NODE_FAIL" -> SrunMessages.srun_node_fail_msg_t
      [] type = "SRUN_STEP_MISSING" -> SrunMessages.srun_step_missing_msg_t
      [] type = "SRUN_TIMEOUT" -> SrunMessages.srun_timeout_msg_t
      [] type = "SRUN_USER_MSG" -> SrunMessages.srun_user_msg_t
      [] type = "REQUEST_CHECKPOINT" -> SlurmdMessages.checkpoint_msg_t
      [] type = "REQUEST_CHECKPOINT_COMP" -> SlurmdMessages.checkpoint_comp_msg_t
      [] type = "REQUEST_CHECKPOINT_TASK_COMP" -> SlurmdMessages.checkpoint_task_comp_msg_t
      [] type \in {"RESPONSE_CHECKPOINT", "RESPONSE_CHECKPOINT_COMP"} ->
                SlurmdMessages.checkpoint_resp_msg_t
      [] type = "REQUEST_SUSPEND" -> SlurmdMessages.suspend_msg_t
      [] type \in {"REQUEST_JOB_READY", "REQUEST_JOB_REQUEUE", "REQUEST_JOB_INFO_SINGLE"} ->
             RequestMessages.job_id_msg_t
      [] type = "REQUEST_SHARE_INFO" -> RequestMessages.shares_request_msg_t
      [] type = "RESPONSE_SHARE_INFO" -> RequestMessages.shares_response_msg_t
      [] type = "REQUEST_PRIORITY_FACTORS" -> RequestMessages.priority_factors_request_msg_t
      [] type = "RESPONSE_PRIORITY_FACTORS" -> RequestMessages.priority_factors_response_msg_t
      [] type = "REQUEST_NODE_SELECT_INFO" -> RequestMessages.node_info_select_request_msg_t
      [] type = "REQUEST_FILE_BCAST" -> SlurmdMessages.file_bcast_msg_t
      [] type \in {"PMI_KVS_PUT_REQ", "PMI_KVS_GET_RESP"} -> KvsMessages.kvs_comm_set
      [] type = "PMI_KVS_GET_REQ" -> SlurmdMessages.kvs_get_msg_t
      [] type \in {"REQUEST_TRIGGER_GET", "RESPONSE_TRIGGER_GET", "REQUEST_TRIGGER_SET",
                   "REQUEST_TRIGGER_CLEAR"} -> TriggerMessages.trigger_info_msg_t
      [] type = "RESPONSE_SLURMD_STATUS" -> NodeMessages.slurmd_status_t
      [] type = "REQUEST_JOB_NOTIFY" -> RequestMessages.job_notify_msg_t
      [] type = "REQUEST_SET_DEBUG_LEVEL" -> TaskMessages.set_debug_level_msg_t
      [] type = "RESPONSE_TOPO_INFO" -> ControllerAnswers.topo_info_response_msg_t
      [] type = "REQUEST_REATTACH_TASKS" -> SlurmdMessages.reattach_tasks_request_msg_t
      [] type = "RESPONSE_REATTACH_TASKS" -> SlurmdMessages.reattach_tasks_response_msg_t
      [] type = "REQUEST_LAUNCH_TASKS" -> TaskMessages.launch_tasks_request_msg_t
      [] type = "RESPONSE_LAUNCH_TASKS" -> SrunMessages.launch_tasks_response_msg_t
      [] type = "TASK_USER_MANAGED_IO_STREAM" -> TaskMessages.task_user_managed_io_msg_t
      [] type \in {"REQUEST_SIGNAL_TASKS", "REQUEST_TERMINATE_TASKS"} ->
                RequestMessages.kill_tasks_msg_t
      [] type = "REQUEST_CHECKPOINT_TASKS" -> TaskMessages.checkpoint_tasks_msg_t
      [] type = "REQUEST_JOB_STEP_INFO" -> RequestMessages.job_step_info_request_msg_t
      [] type = "REQUEST_JOB_INFO" -> RequestMessages.job_info_request_msg_t
      [] type = "REQUEST_CANCEL_JOB_STEP" -> RequestMessages.job_step_kill_msg_t
      [] type = "REQUEST_COMPLETE_JOB_ALLOCATION" -> RequestMessages.complete_job_allocation_msg_t
      [] type = "REQUEST_COMPLETE_BATCH_SCRIPT" -> RequestMessages.complete_batch_script_msg_t
      [] type = "REQUEST_STEP_COMPLETE" -> RequestMessages.step_complete_msg_t
      [] type = "MESSAGE_STAT_JOBACCT" -> RequestMessages.stat_jobacct_msg_t
      [] type = "REQUEST_STEP_LAYOUT" -> RequestMessages.job_step_id_msg_t
      [] type = "RESPONSE_STEP_LAYOUT" -> JobAnswers.slurm_step_layout_t
      [] type = "REQUEST_SIGNAL_JOB" -> SlurmdMessages.signal_job_msg_t
      [] type \in {"REQUEST_ABORT_JOB", "REQUEST_KILL_TIMELIMIT", "REQUEST_TERMINATE_JOB"} ->
             SlurmdMessages.kill_job_msg_t
      [] type = "MESSAGE_EPILOG_COMPLETE" -> TaskMessages.epilog_complete_msg_t
      [] type = "REQUEST_UPDATE_JOB_TIME" -> SlurmdMessages.job_time_msg_t
      [] type = "MESSAGE_TASK_EXIT" -> SrunMessages.task_exit_msg_t
      [] type = "REQUEST_BATCH_JOB_LAUNCH" -> SlurmdMessages.batch_job_launch_msg_t
      [] type \in {"RESPONSE_JOB_READY", "RESPONSE_SLURM_RC"} -> return_code_msg_t
      [] type = "RESPONSE_JOB_STEP_CREATE" -> TaskMessages.job_step_create_response_msg_t
      [] type = "REQUEST_JOB_STEP_CREATE" -> TaskMessages.job_step_create_request_msg_t
      [] type = "REQUEST_JOB_ID" -> SlurmdMessages.job_id_request_msg_t
      [] type = "RESPONSE_JOB_ID" -> SlurmdMessages.job_id_response_msg_t
      [] type = "RESPONSE_JOB_STEP_INFO" -> ControllerAnswers.job_step_info_response_msg_t
      [] type = "REQUEST_NODE_INFO" -> RequestMessages.node_info_request_msg_t
      [] type = "REQUEST_PARTITION_INFO" -> RequestMessages.part_info_request_msg_t
      [] type = "REQUEST_RESERVATION_INFO" -> RequestMessages.resv_info_request_msg_t
      [] type \in {"REQUEST_BUILD_INFO", "REQUEST_ACCTING_INFO"} -> TaskMessages.last_update_msg_t
      [] type = "RESPONSE_BUILD_INFO" -> slurm_ctl_conf_t
      [] type = "MESSAGE_NODE_REGISTRATION_STATUS" ->
                NodeAnswers.slurm_node_registration_status_msg_t
      [] type \in {"REQUEST_RESOURCE_ALLOCATION", "REQUEST_SUBMIT_BATCH_JOB",
                   "REQUEST_JOB_WILL_RUN", "REQUEST_UPDATE_JOB"} -> job_desc_msg_t
      [] type \in {"REQUEST_JOB_END_TIME", "REQUEST_JOB_ALLOCATION_INFO",
                   "REQUEST_JOB_ALLOCATION_INFO_LITE"} -> ControllerAnswers.job_alloc_info_msg_t
      [] type = "REQUEST_SHUTDOWN" -> TaskMessages.shutdown_msg_t
      [] type = "RESPONSE_SUBMIT_BATCH_JOB" -> NodeMessages.submit_response_msg_t
      [] type \in {"RESPONSE_JOB_ALLOCATION_INFO_LITE", "RESPONSE_RESOURCE_ALLOCATION"} ->
             ControllerAnswers.resource_allocation_response_msg_t
      [] type = "RESPONSE_JOB_WILL_RUN" -> NodeAnswers.will_run_response_msg_t
      [] type = "RESPONSE_JOB_ALLOCATION_INFO" -> ControllerAnswers.job_alloc_info_response_msg_t
      [] type = "REQUEST_UPDATE_NODE" -> NodeMessages.update_node_msg_t
      [] type \in {"REQUEST_CREATE_PARTITION", "REQUEST_UPDATE_PARTITION"} ->
                ControllerAnswers.partition_info_t
      [] type = "REQUEST_DELETE_PARTITION" -> ControllerAnswers.delete_part_msg_t
      [] type \in {"REQUEST_CREATE_RESERVATION", "REQUEST_UPDATE_RESERVATION"} ->
                ReservationAnswers.resv_desc_msg_t
      [] type \in {"REQUEST_DELETE_RESERVATION", "RESPONSE_CREATE_RESERVATION"} ->
             reservation_name_msg_t
      [] type = "RESPONSE_JOB_INFO" -> JobAnswers.job_info_msg_t
      [] type = "RESPONSE_PARTITION_INFO" -> ControllerAnswers.partition_info_msg_t
      [] type = "RESPONSE_NODE_INFO" -> ControllerAnswers.node_info_msg_t
      [] type = "RESPONSE_RESERVATION_INFO" -> ReservationAnswers.reserve_info_msg_t
=============================================================================
