---------------------------- MODULE SlurmMessages ----------------------------
(***************************************************************************)
(* What the messages between slurmctld, slurmd, srun and the commands are   *)
(* made of (common/slurm_protocol_pack.c): one pair of definitions per      *)
(* message structure, and the choice of the pair by the message type.  Wire *)
(* says what the items mean.  These messages have one format: the version   *)
(* in the header is compared, not gone by.                                  *)
(*                                                                         *)
(* Left out: RESPONSE_NODE_SELECT_INFO, which is the select plugin's.       *)
(***************************************************************************)
EXTENDS DbdMessages

SLURMDBD_VERSION == 5

\* The information of the switch plugin, here one string.
switch_pack_jobinfo       == Always(<<Str("switch")>>)
switch_unpack_jobinfo     == <<Str("switch")>>
switch_g_pack_node_info   == Always(<<Str("switch")>>)
switch_g_unpack_node_info == <<Str("switch")>>

slurm_pack_slurm_addr   == Always(<<U32("sin_addr"), U16("sin_port")>>)
slurm_unpack_slurm_addr == <<U32("sin_addr"), U16("sin_port")>>

pack_cred ==
    Always(<<U32("jobid"), U32("stepid"), U32("uid"), U32("job_mem"), Str("nodes"),
      Time("ctime"), U32("tot_core_cnt"), Str("core_bitmap"), Count16("core_array_size"),
      Some(<<Array16("cores_per_socket"), Array16("sockets_per_node"),
        Array32("sock_core_rep_count")>>),
      U32("job_nhosts"), Str("job_hostlist")>>)

slurm_cred_pack ==
    Always(pack_cred.full \o <<Str("signature")>>)

slurm_cred_unpack ==
    <<U32("jobid"), U32("stepid"), U32("uid"), U32("job_mem"), Str("nodes"), Time("ctime"),
      U32("tot_core_cnt"), Str("core_bitmap"), Count16("core_array_size"),
      Some(<<Array16("cores_per_socket"), Array16("sockets_per_node"),
        Array32("sock_core_rep_count")>>),
      U32("job_nhosts"), Str("job_hostlist"), Str("signature")>>

job_option_info_pack   == Always(<<U32("type"), Str("option"), Str("optarg")>>)
job_option_info_unpack == <<U32("type"), Str("option"), Str("optarg")>>

\* A tag, then the options (none when there is no container).
job_options_pack ==
    Always(<<Checked("tag"), List("options", {Zero}, job_option_info_pack.full)>>)

job_options_unpack ==
    <<Checked("tag"), List("options", {Zero}, <<Call("", job_option_info_unpack)>>)>>

pack_slurm_step_layout ==
    Always(<<When("layout", <<Str("node_list"), Count("node_cnt"), U32("task_cnt"),
      U16("task_dist"),
      Loop(<<Array32("tids")>>)>>)>>)

unpack_slurm_step_layout ==
    <<When("layout", <<Str("node_list"), Count("node_cnt"), U32("task_cnt"), U16("task_dist"),
      Loop(<<Array32("tids")>>)>>)>>

pack_assoc_shares_object ==
    Object(<<U32("assoc_id"), Str("cluster"), Str("name"), Str("parent"), Dbl("shares_norm"),
      U32("shares_raw"), Dbl("usage_efctv"), Dbl("usage_norm"), U64("usage_raw"), U16("user")>>,
           <<Z32, Null, Null, Null, ZT, Z32, ZT, ZT, Z64, Z16>>)

unpack_assoc_shares_object ==
    <<U32("assoc_id"), Str("cluster"), Str("name"), Str("parent"), Dbl("shares_norm"),
      U32("shares_raw"), Dbl("usage_efctv"), Dbl("usage_norm"), U64("usage_raw"), U16("user")>>

pack_priority_factors_object ==
    Object(<<U32("job_id"), U32("user_id"), Dbl("priority_age"), Dbl("priority_fs"),
      Dbl("priority_js"), Dbl("priority_part"), Dbl("priority_qos"), U16("nice")>>,
           <<Z32, Z32>> \o Rep(5, ZT) \o <<Z16>>)

unpack_priority_factors_object ==
    <<U32("job_id"), U32("user_id"), Dbl("priority_age"), Dbl("priority_fs"), Dbl("priority_js"),
      Dbl("priority_part"), Dbl("priority_qos"), U16("nice")>>

pack_kvs_host_rec ==
    Always(<<U16("task_id"), U16("port"), Str("hostname")>>)

unpack_kvs_host_rec ==
    <<U16("task_id"), U16("port"), Str("hostname")>>

pack_kvs_rec ==
    Always(<<Str("kvs_name"), Count16("kvs_cnt"), Loop(<<Str("kvs_keys"), Str("kvs_values")>>)>>)

unpack_kvs_rec ==
    <<Str("kvs_name"), Count16("kvs_cnt"), Loop(<<Str("kvs_keys"), Str("kvs_values")>>)>>

pack_node_info_request_msg ==
    Always(<<Time("last_update"), U16("show_flags")>>)

unpack_node_info_request_msg ==
    <<Time("last_update"), U16("show_flags")>>

pack_part_info_request_msg ==
    Always(<<Time("last_update"), U16("show_flags")>>)

unpack_part_info_request_msg ==
    <<Time("last_update"), U16("show_flags")>>

pack_resv_info_request_msg ==
    Always(<<Time("last_update")>>)

unpack_resv_info_request_msg ==
    <<Time("last_update")>>

pack_last_update_msg ==
    Always(<<Time("last_update")>>)

unpack_last_update_msg ==
    <<Time("last_update")>>

pack_slurm_ctl_conf_msg_rest ==
    <<U32("next_job_id"), Str("node_prefix"),
      U16("over_time_limit"), Str("plugindir"), Str("plugstack"), U32("priority_decay_hl"),
      U16("priority_favor_small"), U32("priority_max_age"), U16("priority_reset_period"),
      Str("priority_type"), U32("priority_weight_age"), U32("priority_weight_fs"),
      U32("priority_weight_js"), U32("priority_weight_part"), U32("priority_weight_qos"),
      U16("private_data"), Str("proctrack_type"), Str("prolog"), Str("prolog_slurmctld"),
      U16("propagate_prio_process"), Str("propagate_rlimits"), Str("propagate_rlimits_except"),
      Str("resume_program"), U16("resume_rate"), U16("resume_timeout"), U16("resv_over_run"),
      U16("ret2service"), Str("salloc_default_command"), Str("sched_params"), U16("schedport"),
      U16("schedrootfltr"), U16("sched_time_slice"), Str("schedtype"), Str("select_type"),
      Recs("select_conf_key_pairs", pack_config_key_pair(SLURMDBD_VERSION)),
      U16("select_type_param"), Str("slurm_conf"), U32("slurm_user_id"), Str("slurm_user_name"),
      U32("slurmd_user_id"), Str("slurmd_user_name"), U16("slurmctld_debug"),
      Str("slurmctld_logfile"), Str("slurmctld_pidfile"), U32("slurmctld_port"),
      U16("slurmctld_timeout"), U16("slurmd_debug"), Str("slurmd_logfile"), Str("slurmd_pidfile"),
      Str("slurmd_spooldir"), U16("slurmd_timeout"), Str("srun_epilog"), U16("srun_io_timeout"),
      Str("srun_prolog"), Str("state_save_location"), Str("suspend_exc_nodes"),
      Str("suspend_exc_parts"), Str("suspend_program"), U16("suspend_rate"), U16("suspend_time"),
      U16("suspend_timeout"), Str("switch_type"), Str("task_epilog"), Str("task_prolog"),
      Str("task_plugin"), U16("task_plugin_param"), Str("tmp_fs"), Str("topology_plugin"),
      U16("track_wckey"), U16("tree_width"), U16("use_pam"), U16("event_handler_poll_interval"),
      Str("slurm_event_handler"), Str("event_handler_logfile"), Str("unkillable_program"),
      U16("unkillable_timeout"), U16("wait_time"), U16("z_16"), U32("z_32"), Str("z_char")>>

pack_slurm_ctl_conf_msg ==
    Always(<<Time("last_update"), U16("accounting_storage_enforce"),
      Str("accounting_storage_backup_host"), Str("accounting_storage_host"),
      Str("accounting_storage_loc"), Str("accounting_storage_pass"),
      U32("accounting_storage_port"), Str("accounting_storage_type"),
      Str("accounting_storage_user"), Str("authtype"), Str("backup_addr"),
      Str("backup_controller"), U16("batch_start_timeout"), Time("boot_time"),
      U16("cache_groups"), Str("checkpoint_type"), Str("cluster_name"), U16("complete_wait"),
      Str("control_addr"), Str("control_machine"), Str("crypto_type"), U32("def_mem_per_task"),
      U32("debug_flags"), U16("disable_root_jobs"), Str("epilog"), U32("epilog_msg_time"),
      Str("epilog_slurmctld"), U16("fast_schedule"), U32("first_job_id"), U16("get_env_timeout"),
      U16("health_check_interval"), Str("health_check_program"), U16("inactive_limit"),
      U16("job_acct_gather_freq"), Str("job_acct_gather_type"), Str("job_ckpt_dir"),
      Str("job_comp_host"), Str("job_comp_loc"), Str("job_comp_pass"), U32("job_comp_port"),
      Str("job_comp_type"), Str("job_comp_user"), Str("job_credential_private_key"),
      Str("job_credential_public_certificate"), U16("job_file_append"), U16("job_requeue"),
      U16("kill_on_bad_exit"), U16("kill_wait"), Str("licenses"), Str("mail_prog"),
      U16("max_job_cnt"), U32("max_mem_per_task"), U16("min_job_age"), Str("mpi_default"),
      Str("mpi_params"), U16("msg_timeout")>> \o pack_slurm_ctl_conf_msg_rest)

unpack_slurm_ctl_conf_msg_rest ==
    <<U32("next_job_id"), Str("node_prefix"),
      U16("over_time_limit"), Str("plugindir"), Str("plugstack"), U32("priority_decay_hl"),
      U16("priority_favor_small"), U32("priority_max_age"), U16("priority_reset_period"),
      Str("priority_type"), U32("priority_weight_age"), U32("priority_weight_fs"),
      U32("priority_weight_js"), U32("priority_weight_part"), U32("priority_weight_qos"),
      U16("private_data"), Str("proctrack_type"), Str("prolog"), Str("prolog_slurmctld"),
      U16("propagate_prio_process"), Str("propagate_rlimits"), Str("propagate_rlimits_except"),
      Str("resume_program"), U16("resume_rate"), U16("resume_timeout"), U16("resv_over_run"),
      U16("ret2service"), Str("salloc_default_command"), Str("sched_params"), U16("schedport"),
      U16("schedrootfltr"), U16("sched_time_slice"), Str("schedtype"), Str("select_type"),
      RecsOf("select_conf_key_pairs", unpack_config_key_pair(SLURMDBD_VERSION)),
      U16("select_type_param"), Str("slurm_conf"), U32("slurm_user_id"), Str("slurm_user_name"),
      U32("slurmd_user_id"), Str("slurmd_user_name"), U16("slurmctld_debug"),
      Str("slurmctld_logfile"), Str("slurmctld_pidfile"), U32("slurmctld_port"),
      U16("slurmctld_timeout"), U16("slurmd_debug"), Str("slurmd_logfile"), Str("slurmd_pidfile"),
      Str("slurmd_spooldir"), U16("slurmd_timeout"), Str("srun_epilog"), U16("srun_io_timeout"),
      Str("srun_prolog"), Str("state_save_location"), Str("suspend_exc_nodes"),
      Str("suspend_exc_parts"), Str("suspend_program"), U16("suspend_rate"), U16("suspend_time"),
      U16("suspend_timeout"), Str("switch_type"), Str("task_epilog"), Str("task_prolog"),
      Str("task_plugin"), U16("task_plugin_param"), Str("tmp_fs"), Str("topology_plugin"),
      U16("track_wckey"), U16("tree_width"), U16("use_pam"), U16("event_handler_poll_interval"),
      Str("slurm_event_handler"), Str("event_handler_logfile"), Str("unkillable_program"),
      U16("unkillable_timeout"), U16("wait_time"), U16("z_16"), U32("z_32"), Str("z_char")>>

unpack_slurm_ctl_conf_msg ==
    <<Time("last_update"), U16("accounting_storage_enforce"),
      Str("accounting_storage_backup_host"), Str("accounting_storage_host"),
      Str("accounting_storage_loc"), Str("accounting_storage_pass"),
      U32("accounting_storage_port"), Str("accounting_storage_type"),
      Str("accounting_storage_user"), Str("authtype"), Str("backup_addr"),
      Str("backup_controller"), U16("batch_start_timeout"), Time("boot_time"),
      U16("cache_groups"), Str("checkpoint_type"), Str("cluster_name"), U16("complete_wait"),
      Str("control_addr"), Str("control_machine"), Str("crypto_type"), U32("def_mem_per_task"),
      U32("debug_flags"), U16("disable_root_jobs"), Str("epilog"), U32("epilog_msg_time"),
      Str("epilog_slurmctld"), U16("fast_schedule"), U32("first_job_id"), U16("get_env_timeout"),
      U16("health_check_interval"), Str("health_check_program"), U16("inactive_limit"),
      U16("job_acct_gather_freq"), Str("job_acct_gather_type"), Str("job_ckpt_dir"),
      Str("job_comp_host"), Str("job_comp_loc"), Str("job_comp_pass"), U32("job_comp_port"),
      Str("job_comp_type"), Str("job_comp_user"), Str("job_credential_private_key"),
      Str("job_credential_public_certificate"), U16("job_file_append"), U16("job_requeue"),
      U16("kill_on_bad_exit"), U16("kill_wait"), Str("licenses"), Str("mail_prog"),
      U16("max_job_cnt"), U32("max_mem_per_task"), U16("min_job_age"), Str("mpi_default"),
      Str("mpi_params"), U16("msg_timeout")>> \o unpack_slurm_ctl_conf_msg_rest

pack_node_registration_status_msg ==
    Always(<<Time("timestamp"), U32("status"), Str("node_name"), Str("arch"), Str("os"),
      U16("cpus"), U16("sockets"), U16("cores"), U16("threads"), U32("real_memory"),
      U32("tmp_disk"), Count("job_count"), Loop(<<U32("job_id")>>), Loop(<<U32("step_id")>>),
      When("startup", <<Part("switch_nodeinfo", switch_g_pack_node_info)>>)>>)

unpack_node_registration_status_msg ==
    <<Time("timestamp"), U32("status"), Str("node_name"), Str("arch"), Str("os"), U16("cpus"),
      U16("sockets"), U16("cores"), U16("threads"), U32("real_memory"), U32("tmp_disk"),
      Count("job_count"), Loop(<<U32("job_id")>>), Loop(<<U32("step_id")>>),
      When("startup", <<Call("switch_nodeinfo", switch_g_unpack_node_info)>>)>>

pack_job_desc_msg ==
    Always(<<U16("contiguous"), U16("task_dist"), U16("kill_on_node_fail"), Str("features"),
      U32("job_id"), Str("name"), Str("alloc_node"), U32("alloc_sid"), U16("job_min_procs"),
      U16("job_min_sockets"), U16("job_min_cores"), U16("job_min_threads"), U32("job_min_memory"),
      U32("job_min_tmp_disk"), Str("partition"), U32("priority"), Str("dependency"),
      Str("account"), Str("comment"), U16("nice"), U8("open_mode"), U8("overcommit"),
      U16("acctg_freq"), U32("num_tasks"), U16("ckpt_interval"), Str("req_nodes"),
      Str("exc_nodes"), StrArray("environment"), Str("script"), StrArray("argv"), Str("err"),
      Str("in"), Str("out"), Str("work_dir"), Str("ckpt_dir"), U16("immediate"), U16("requeue"),
      U16("shared"), U16("cpus_per_task"), U16("ntasks_per_node"), U16("ntasks_per_socket"),
      U16("ntasks_per_core"), U16("plane_size"), U16("cpu_bind_type"), U16("mem_bind_type"),
      Str("cpu_bind"), Str("mem_bind"), U32("time_limit"), U32("num_procs"), U32("min_nodes"),
      U32("max_nodes"), U16("min_sockets"), U16("max_sockets"), U16("min_cores"),
      U16("max_cores"), U16("min_threads"), U16("max_threads"), U32("user_id"), U32("group_id"),
      U16("alloc_resp_port"), U16("other_port"), Str("network"), Time("begin_time"),
      Str("licenses"), U16("mail_type"), Str("mail_user"), Str("reservation"), Str("wckey")>>)

unpack_job_desc_msg ==
    <<U16("contiguous"), U16("task_dist"), U16("kill_on_node_fail"), Str("features"),
      U32("job_id"), Str("name"), Str("alloc_node"), U32("alloc_sid"), U16("job_min_procs"),
      U16("job_min_sockets"), U16("job_min_cores"), U16("job_min_threads"), U32("job_min_memory"),
      U32("job_min_tmp_disk"), Str("partition"), U32("priority"), Str("dependency"),
      Str("account"), Str("comment"), U16("nice"), U8("open_mode"), U8("overcommit"),
      U16("acctg_freq"), U32("num_tasks"), U16("ckpt_interval"), Str("req_nodes"),
      Str("exc_nodes"), StrArray("environment"), Str("script"), StrArray("argv"), Str("err"),
      Str("in"), Str("out"), Str("work_dir"), Str("ckpt_dir"), U16("immediate"), U16("requeue"),
      U16("shared"), U16("cpus_per_task"), U16("ntasks_per_node"), U16("ntasks_per_socket"),
      U16("ntasks_per_core"), U16("plane_size"), U16("cpu_bind_type"), U16("mem_bind_type"),
      Str("cpu_bind"), Str("mem_bind"), U32("time_limit"), U32("num_procs"), U32("min_nodes"),
      U32("max_nodes"), U16("min_sockets"), U16("max_sockets"), U16("min_cores"),
      U16("max_cores"), U16("min_threads"), U16("max_threads"), U32("user_id"), U32("group_id"),
      U16("alloc_resp_port"), U16("other_port"), Str("network"), Time("begin_time"),
      Str("licenses"), U16("mail_type"), Str("mail_user"), Str("reservation"), Str("wckey")>>

pack_job_alloc_info_msg ==
    Always(<<U32("job_id")>>)

unpack_job_alloc_info_msg ==
    <<U32("job_id")>>

pack_shutdown_msg ==
    Always(<<U16("options")>>)

unpack_shutdown_msg ==
    <<U16("options")>>

pack_submit_response_msg ==
    Always(<<U32("job_id"), U32("step_id"), U32("error_code")>>)

unpack_submit_response_msg ==
    <<U32("job_id"), U32("step_id"), U32("error_code")>>

pack_resource_allocation_response_msg ==
    Always(<<U32("error_code"), U32("job_id"), Str("node_list"), Count("num_cpu_groups"),
      Some(<<Array16("cpus_per_node"), Array32("cpu_count_reps")>>), U32("node_cnt")>>)

unpack_resource_allocation_response_msg ==
    <<U32("error_code"), U32("job_id"), Str("node_list"), Count("num_cpu_groups"),
      Some(<<Array16("cpus_per_node"), Array32("cpu_count_reps")>>), U32("node_cnt")>>

pack_will_run_response_msg ==
    Always(<<U32("job_id"), U32("proc_cnt"), Time("start_time"), Str("node_list")>>)

unpack_will_run_response_msg ==
    <<U32("job_id"), U32("proc_cnt"), Time("start_time"), Str("node_list")>>

pack_job_alloc_info_response_msg ==
    Always(<<U32("error_code"), U32("job_id"), Str("node_list"), Count("num_cpu_groups"),
      Some(<<Array16("cpus_per_node"), Array32("cpu_count_reps")>>), Count("node_cnt"),
      Some(<<List("node_addr", {Zero}, slurm_pack_slurm_addr.full)>>)>>)

unpack_job_alloc_info_response_msg ==
    <<U32("error_code"), U32("job_id"), Str("node_list"), Count("num_cpu_groups"),
      Some(<<Array16("cpus_per_node"), Array32("cpu_count_reps")>>), Count("node_cnt"),
      Some(<<List("node_addr", {Zero}, <<Call("", slurm_unpack_slurm_addr)>>)>>)>>

pack_update_node_msg ==
    Always(<<Str("node_names"), U16("node_state"), Str("features"), Str("reason"),
      U32("weight")>>)

unpack_update_node_msg ==
    <<Str("node_names"), U16("node_state"), Str("features"), Str("reason"), U32("weight")>>

pack_update_partition_msg ==
    Always(<<Str("allow_groups"), U16("default_part"), U32("max_time"), U32("default_time"),
      U32("max_nodes"), U32("min_nodes"), Str("name"), Str("nodes"), U16("hidden"),
      U16("max_share"), U16("priority"), U16("root_only"), U16("state_up"),
      Str("allow_alloc_nodes")>>)

unpack_update_partition_msg ==
    <<Str("allow_groups"), U16("default_part"), U32("max_time"), U32("default_time"),
      U32("max_nodes"), U32("min_nodes"), Str("name"), Str("nodes"), U16("hidden"),
      U16("max_share"), U16("priority"), U16("root_only"), U16("state_up"),
      Str("allow_alloc_nodes")>>

pack_delete_partition_msg ==
    Always(<<Str("name")>>)

unpack_delete_partition_msg ==
    <<Str("name")>>

pack_update_resv_msg ==
    Always(<<Str("name"), Time("start_time"), Time("end_time"), U32("duration"), U16("flags"),
      U32("node_cnt"), Str("node_list"), Str("features"), Str("partition"), Str("users"),
      Str("accounts")>>)

unpack_update_resv_msg ==
    <<Str("name"), Time("start_time"), Time("end_time"), U32("duration"), U16("flags"),
      U32("node_cnt"), Str("node_list"), Str("features"), Str("partition"), Str("users"),
      Str("accounts")>>

pack_resv_name_msg ==
    Always(<<Str("name")>>)

unpack_resv_name_msg ==
    <<Str("name")>>

pack_reattach_tasks_request_msg ==
    Always(<<U32("job_id"), U32("job_step_id"), Count16("num_resp_port"),
      Loop(<<U16("resp_port")>>), Count16("num_io_port"), Loop(<<U16("io_port")>>),
      Part("cred", slurm_cred_pack)>>)

unpack_reattach_tasks_request_msg ==
    <<U32("job_id"), U32("job_step_id"), Count16("num_resp_port"), Loop(<<U16("resp_port")>>),
      Count16("num_io_port"), Loop(<<U16("io_port")>>), Call("cred", slurm_cred_unpack)>>

pack_reattach_tasks_response_msg ==
    Always(<<Str("node_name"), U32("return_code"), Count("ntasks"), Array32("gtids"),
      Array32("local_pids"), Loop(<<Str("executable_names")>>)>>)

unpack_reattach_tasks_response_msg ==
    <<Str("node_name"), U32("return_code"), Count("ntasks"), Array32("gtids"),
      Array32("local_pids"), Loop(<<Str("executable_names")>>)>>

pack_launch_tasks_request_msg ==
    Always(<<U32("job_id"), U32("job_step_id"), U32("nprocs"), U32("uid"), U32("gid"),
      U32("job_mem"), Count("nnodes"), U16("max_sockets"), U16("max_cores"), U16("max_threads"),
      U16("cpus_per_task"), U16("task_dist"), Part("cred", slurm_cred_pack),
      Loop(<<U16("tasks_to_launch"), U16("cpus_allocated"), Array32("global_task_ids")>>),
      Count16("num_resp_port"), Loop(<<U16("resp_port")>>),
      Part("orig_addr", slurm_pack_slurm_addr), StrArray("env"), Str("cwd"), U16("cpu_bind_type"),
      Str("cpu_bind"), U16("mem_bind_type"), Str("mem_bind"), StrArray("argv"), U16("task_flags"),
      U16("multi_prog"),
      Unless("user_managed_io", <<Str("ofname"), Str("efname"), Str("ifname"),
        U8("buffered_stdio"), U8("labelio"), Count16("num_io_port"), Loop(<<U16("io_port")>>)>>),
      Str("task_prolog"), Str("task_epilog"), U16("slurmd_debug"),
      Part("switch_job", switch_pack_jobinfo), Part("options", job_options_pack),
      Str("complete_nodelist"), U8("open_mode"), U8("pty"), U16("acctg_freq"), Str("ckpt_dir"),
      Str("restart_dir")>>)

unpack_launch_tasks_request_msg ==
    <<U32("job_id"), U32("job_step_id"), U32("nprocs"), U32("uid"), U32("gid"), U32("job_mem"),
      Count("nnodes"), U16("max_sockets"), U16("max_cores"), U16("max_threads"),
      U16("cpus_per_task"), U16("task_dist"), Call("cred", slurm_cred_unpack),
      Loop(<<U16("tasks_to_launch"), U16("cpus_allocated"), Array32("global_task_ids")>>),
      Count16("num_resp_port"), Loop(<<U16("resp_port")>>),
      Unchecked("orig_addr", slurm_unpack_slurm_addr), StrArray("env"), Str("cwd"),
      U16("cpu_bind_type"), Str("cpu_bind"), U16("mem_bind_type"), Str("mem_bind"),
      StrArray("argv"), U16("task_flags"), U16("multi_prog"),
      Unless("user_managed_io", <<Str("ofname"), Str("efname"), Str("ifname"),
        U8("buffered_stdio"), U8("labelio"), Count16("num_io_port"), Loop(<<U16("io_port")>>)>>),
      Str("task_prolog"), Str("task_epilog"), U16("slurmd_debug"),
      Call("switch_job", switch_unpack_jobinfo), Call("options", job_options_unpack),
      Str("complete_nodelist"), U8("open_mode"), U8("pty"), U16("acctg_freq"), Str("ckpt_dir"),
      Str("restart_dir")>>

pack_launch_tasks_response_msg ==
    Always(<<U32("return_code"), Str("node_name"), U32("count_of_pids"), Array32("local_pids"),
      Array32("task_ids")>>)

unpack_launch_tasks_response_msg ==
    <<U32("return_code"), Str("node_name"), U32("count_of_pids"), Array32("local_pids"),
      Array32("task_ids")>>

pack_task_user_managed_io_stream_msg ==
    Always(<<U32("task_id")>>)

unpack_task_user_managed_io_stream_msg ==
    <<U32("task_id")>>

pack_cancel_tasks_msg ==
    Always(<<U32("job_id"), U32("job_step_id"), U32("signal")>>)

unpack_cancel_tasks_msg ==
    <<U32("job_id"), U32("job_step_id"), U32("signal")>>

pack_checkpoint_tasks_msg ==
    Always(<<U32("job_id"), U32("job_step_id"), Time("timestamp"), Str("image_dir")>>)

unpack_checkpoint_tasks_msg ==
    <<U32("job_id"), U32("job_step_id"), Time("timestamp"), Str("image_dir")>>

pack_job_step_info_req_msg ==
    Always(<<Time("last_update"), U32("job_id"), U32("step_id"), U16("show_flags")>>)

unpack_job_step_info_req_msg ==
    <<Time("last_update"), U32("job_id"), U32("step_id"), U16("show_flags")>>

pack_job_info_request_msg ==
    Always(<<Time("last_update"), U16("show_flags")>>)

unpack_job_info_request_msg ==
    <<Time("last_update"), U16("show_flags")>>

pack_job_step_kill_msg ==
    Always(<<U32("job_id"), U32("job_step_id"), U16("signal"), U16("batch_flag")>>)

unpack_job_step_kill_msg ==
    <<U32("job_id"), U32("job_step_id"), U16("signal"), U16("batch_flag")>>

pack_complete_job_allocation_msg ==
    Always(<<U32("job_id"), U32("job_rc")>>)

unpack_complete_job_allocation_msg ==
    <<U32("job_id"), U32("job_rc")>>

pack_complete_batch_script_msg ==
    Always(<<U32("job_id"), U32("job_rc"), U32("slurm_rc"), Str("node_name")>>)

unpack_complete_batch_script_msg ==
    <<U32("job_id"), U32("job_rc"), U32("slurm_rc"), Str("node_name")>>

pack_step_complete_msg ==
    Always(<<U32("job_id"), U32("job_step_id"), U32("range_first"), U32("range_last"),
      U32("step_rc"), Rec("jobacct", jobacct_common_pack(SLURMDBD_VERSION))>>)

unpack_step_complete_msg ==
    <<U32("job_id"), U32("job_step_id"), U32("range_first"), U32("range_last"), U32("step_rc"),
      Call("jobacct", jobacct_common_unpack(SLURMDBD_VERSION))>>

pack_stat_jobacct_msg ==
    Always(<<U32("job_id"), U32("return_code"), U32("step_id"), U32("num_tasks"),
      Rec("jobacct", jobacct_common_pack(SLURMDBD_VERSION))>>)

unpack_stat_jobacct_msg ==
    <<U32("job_id"), U32("return_code"), U32("step_id"), U32("num_tasks"),
      Call("jobacct", jobacct_common_unpack(SLURMDBD_VERSION))>>

pack_job_step_id_msg ==
    Always(<<U32("job_id"), U32("step_id")>>)

unpack_job_step_id_msg ==
    <<U32("job_id"), U32("step_id")>>

pack_signal_job_msg ==
    Always(<<U32("job_id"), U32("signal")>>)

unpack_signal_job_msg ==
    <<U32("job_id"), U32("signal")>>

pack_kill_job_msg ==
    Always(<<U32("job_id"), U16("job_state"), U32("job_uid"), Time("time"), Str("nodes")>>)

unpack_kill_job_msg ==
    <<U32("job_id"), U16("job_state"), U32("job_uid"), Time("time"), Str("nodes")>>

pack_epilog_comp_msg ==
    Always(<<U32("job_id"), U32("return_code"), Str("node_name"),
      Part("switch_nodeinfo", switch_g_pack_node_info)>>)

unpack_epilog_comp_msg ==
    <<U32("job_id"), U32("return_code"), Str("node_name"),
      Call("switch_nodeinfo", switch_g_unpack_node_info)>>

pack_update_job_time_msg ==
    Always(<<U32("job_id"), Time("expiration_time")>>)

unpack_update_job_time_msg ==
    <<U32("job_id"), Time("expiration_time")>>

pack_task_exit_msg ==
    Always(<<U32("return_code"), U32("num_tasks"), Array32("task_id_list"), U32("job_id"),
      U32("step_id")>>)

unpack_task_exit_msg ==
    <<U32("return_code"), U32("num_tasks"), Array32("task_id_list"), U32("job_id"),
      U32("step_id")>>

pack_batch_job_launch_msg ==
    Always(<<U32("job_id"), U32("step_id"), U32("uid"), U32("gid"), U32("nprocs"),
      U8("open_mode"), U8("overcommit"), U16("acctg_freq"), U16("cpu_bind_type"),
      U16("cpus_per_task"), U16("restart_cnt"), Count("num_cpu_groups"),
      Some(<<Array16("cpus_per_node"), Array32("cpu_count_reps")>>), Str("cpu_bind"),
      Str("nodes"), Str("script"), Str("work_dir"), Str("ckpt_dir"), Str("restart_dir"),
      Str("err"), Str("in"), Str("out"), U32("argc"), StrArray("argv"), U32("envc"),
      StrArray("environment"), U32("job_mem"), Part("cred", slurm_cred_pack)>>)

unpack_batch_job_launch_msg ==
    <<U32("job_id"), U32("step_id"), U32("uid"), U32("gid"), U32("nprocs"), U8("open_mode"),
      U8("overcommit"), U16("acctg_freq"), U16("cpu_bind_type"), U16("cpus_per_task"),
      U16("restart_cnt"), Count("num_cpu_groups"),
      Some(<<Array16("cpus_per_node"), Array32("cpu_count_reps")>>), Str("cpu_bind"),
      Str("nodes"), Str("script"), Str("work_dir"), Str("ckpt_dir"), Str("restart_dir"),
      Str("err"), Str("in"), Str("out"), U32("argc"), StrArray("argv"), U32("envc"),
      StrArray("environment"), U32("job_mem"), Call("cred", slurm_cred_unpack)>>

pack_return_code_msg ==
    Always(<<U32("return_code")>>)

unpack_return_code_msg ==
    <<U32("return_code")>>

pack_job_step_create_response_msg ==
    Always(<<Str("resv_ports"), U32("job_step_id"), Part("step_layout", pack_slurm_step_layout),
      Part("cred", slurm_cred_pack), Part("switch_job", switch_pack_jobinfo)>>)

unpack_job_step_create_response_msg ==
    <<Str("resv_ports"), U32("job_step_id"), Call("step_layout", unpack_slurm_step_layout),
      Call("cred", slurm_cred_unpack), Call("switch_job", switch_unpack_jobinfo)>>

pack_job_step_create_request_msg ==
    Always(<<U32("job_id"), U32("user_id"), U32("node_count"), U32("cpu_count"), U32("num_tasks"),
      U32("mem_per_task"), U16("relative"), U16("task_dist"), U16("plane_size"), U16("port"),
      U16("ckpt_interval"), U16("exclusive"), U16("immediate"), U16("resv_port_cnt"), Str("host"),
      Str("name"), Str("network"), Str("node_list"), Str("ckpt_dir"), U8("no_kill"),
      U8("overcommit")>>)

unpack_job_step_create_request_msg ==
    <<U32("job_id"), U32("user_id"), U32("node_count"), U32("cpu_count"), U32("num_tasks"),
      U32("mem_per_task"), U16("relative"), U16("task_dist"), U16("plane_size"), U16("port"),
      U16("ckpt_interval"), U16("exclusive"), U16("immediate"), U16("resv_port_cnt"), Str("host"),
      Str("name"), Str("network"), Str("node_list"), Str("ckpt_dir"), U8("no_kill"),
      U8("overcommit")>>

pack_job_id_request_msg ==
    Always(<<U32("job_pid")>>)

unpack_job_id_request_msg ==
    <<U32("job_pid")>>

pack_job_id_response_msg ==
    Always(<<U32("job_id"), U32("return_code")>>)

unpack_job_id_response_msg ==
    <<U32("job_id"), U32("return_code")>>

pack_srun_exec_msg ==
    Always(<<U32("job_id"), U32("step_id"), StrArray("argv")>>)

unpack_srun_exec_msg ==
    <<U32("job_id"), U32("step_id"), StrArray("argv")>>

pack_srun_ping_msg ==
    Always(<<U32("job_id"), U32("step_id")>>)

unpack_srun_ping_msg ==
    <<U32("job_id"), U32("step_id")>>

pack_srun_node_fail_msg ==
    Always(<<U32("job_id"), U32("step_id"), Str("nodelist")>>)

unpack_srun_node_fail_msg ==
    <<U32("job_id"), U32("step_id"), Str("nodelist")>>

pack_srun_step_missing_msg ==
    Always(<<U32("job_id"), U32("step_id"), Str("nodelist")>>)

unpack_srun_step_missing_msg ==
    <<U32("job_id"), U32("step_id"), Str("nodelist")>>

pack_srun_timeout_msg ==
    Always(<<U32("job_id"), U32("step_id"), Time("timeout")>>)

unpack_srun_timeout_msg ==
    <<U32("job_id"), U32("step_id"), Time("timeout")>>

pack_srun_user_msg ==
    Always(<<U32("job_id"), Str("msg")>>)

unpack_srun_user_msg ==
    <<U32("job_id"), Str("msg")>>

pack_checkpoint_msg ==
    Always(<<U16("op"), U16("data"), U32("job_id"), U32("step_id"), Str("image_dir")>>)

unpack_checkpoint_msg ==
    <<U16("op"), U16("data"), U32("job_id"), U32("step_id"), Str("image_dir")>>

pack_checkpoint_comp ==
    Always(<<U32("job_id"), U32("step_id"), U32("error_code"), Str("error_msg"),
      Time("begin_time")>>)

unpack_checkpoint_comp ==
    <<U32("job_id"), U32("step_id"), U32("error_code"), Str("error_msg"), Time("begin_time")>>

pack_checkpoint_task_comp ==
    Always(<<U32("job_id"), U32("step_id"), U32("task_id"), U32("error_code"), Str("error_msg"),
      Time("begin_time")>>)

unpack_checkpoint_task_comp ==
    <<U32("job_id"), U32("step_id"), U32("task_id"), U32("error_code"), Str("error_msg"),
      Time("begin_time")>>

pack_checkpoint_resp_msg ==
    Always(<<Time("event_time"), U32("error_code"), Str("error_msg")>>)

unpack_checkpoint_resp_msg ==
    <<Time("event_time"), U32("error_code"), Str("error_msg")>>

pack_suspend_msg ==
    Always(<<U16("op"), U32("job_id")>>)

unpack_suspend_msg ==
    <<U16("op"), U32("job_id")>>

pack_job_ready_msg ==
    Always(<<U32("job_id")>>)

unpack_job_ready_msg ==
    <<U32("job_id")>>

pack_shares_request_msg ==
    Always(<<Strs("acct_list"), Strs("user_list")>>)

unpack_shares_request_msg ==
    <<Strs("acct_list"), Strs("user_list")>>

pack_shares_response_msg ==
    Always(<<Recs("assoc_shares_list", pack_assoc_shares_object), U64("tot_shares")>>)

unpack_shares_response_msg ==
    <<RecsOf("assoc_shares_list", unpack_assoc_shares_object), U64("tot_shares")>>

pack_priority_factors_request_msg ==
    Always(<<List("job_id_list", {NO_VAL}, <<U32("")>>),
      List("uid_list", {NO_VAL}, <<U32("")>>)>>)

unpack_priority_factors_request_msg ==
    <<List("job_id_list", {NO_VAL}, <<U32("")>>), List("uid_list", {NO_VAL}, <<U32("")>>)>>

pack_priority_factors_response_msg ==
    Always(<<Recs("priority_factors_list", pack_priority_factors_object)>>)

unpack_priority_factors_response_msg ==
    <<RecsOf("priority_factors_list", unpack_priority_factors_object)>>

pack_node_select_info_req_msg ==
    Always(<<Time("last_update")>>)

unpack_node_select_info_req_msg ==
    <<Time("last_update")>>

pack_file_bcast ==
    Always(<<U16("block_no"), U16("last_block"), U16("force"), U16("modes"), U32("uid"),
      U32("gid"), Time("atime"), Time("mtime"), Str("fname"), U32("block_len"), Str("block")>>)

unpack_file_bcast ==
    <<U16("block_no"), U16("last_block"), U16("force"), U16("modes"), U32("uid"), U32("gid"),
      Time("atime"), Time("mtime"), Str("fname"), U32("block_len"), Str("block")>>

pack_kvs_data ==
    Always(<<Count16("host_cnt"), Loop(<<Part("kvs_host_ptr", pack_kvs_host_rec)>>),
      Count16("kvs_comm_recs"), Loop(<<Part("kvs_comm_ptr", pack_kvs_rec)>>)>>)

unpack_kvs_data ==
    <<Count16("host_cnt"), Loop(<<Call("kvs_host_ptr", unpack_kvs_host_rec)>>),
      Count16("kvs_comm_recs"), Loop(<<Call("kvs_comm_ptr", unpack_kvs_rec)>>)>>

pack_kvs_get ==
    Always(<<U16("task_id"), U16("size"), U16("port"), Str("hostname")>>)

unpack_kvs_get ==
    <<U16("task_id"), U16("size"), U16("port"), Str("hostname")>>

pack_trigger_msg ==
    Always(<<Count("record_count"), Loop(<<Part("trigger_array", Always(
      <<U32("trig_id"), U16("res_type"), Str("res_id"), U16("trig_type"), U16("offset"),
        U32("user_id"), Str("program")>>))>>)>>)

unpack_trigger_msg ==
    <<Count("record_count"), Loop(<<Call("trigger_array",
      <<U32("trig_id"), U16("res_type"), Str("res_id"), U16("trig_type"), U16("offset"),
        U32("user_id"), Str("program")>>)>>)>>

pack_slurmd_status ==
    Always(<<Time("booted"), Time("last_slurmctld_msg"), U16("slurmd_debug"), U16("actual_cpus"),
      U16("actual_sockets"), U16("actual_cores"), U16("actual_threads"), U32("actual_real_mem"),
      U32("actual_tmp_disk"), U32("pid"), Str("hostname"), Str("slurmd_logfile"),
      Str("step_list"), Str("version")>>)

unpack_slurmd_status ==
    <<Time("booted"), Time("last_slurmctld_msg"), U16("slurmd_debug"), U16("actual_cpus"),
      U16("actual_sockets"), U16("actual_cores"), U16("actual_threads"), U32("actual_real_mem"),
      U32("actual_tmp_disk"), U32("pid"), Str("hostname"), Str("slurmd_logfile"),
      Str("step_list"), Str("version")>>

pack_job_notify ==
    Always(<<U32("job_id"), U32("job_step_id"), Str("message")>>)

unpack_job_notify ==
    <<U32("job_id"), U32("job_step_id"), Str("message")>>

pack_set_debug_level_msg ==
    Always(<<U32("debug_level")>>)

unpack_set_debug_level_msg ==
    <<U32("debug_level")>>

pack_topo_info_msg ==
    Always(<<Count("record_count"), Loop(<<Part("topo_array", Always(
      <<U16("level"), U32("link_speed"), Str("name"), Str("nodes"), Str("switches")>>))>>)>>)

unpack_topo_info_msg ==
    <<Count("record_count"), Loop(<<Call("topo_array",
      <<U16("level"), U32("link_speed"), Str("name"), Str("nodes"), Str("switches")>>)>>)>>

\* The answers of the nodes a message was forwarded to, here return codes.
pack_ret_list ==
    <<U32("err"), Const(<<"RESPONSE_SLURM_RC">>, 2), Str("node_name"),
      Part("data", pack_return_code_msg)>>

unpack_ret_list ==
    <<U32("err"), Skip16, Str("node_name"), Call("data", unpack_return_code_msg)>>

pack_forward == Always(<<Count16("cnt"), Some(<<Str("nodelist"), U32("timeout")>>)>>)

pack_header ==
    Always(<<U16("version"), U16("flags"), U16("msg_type"), U32("body_length"),
      Part("forward", pack_forward), Count16("ret_cnt"),
      Loop(<<Part("ret_list", Always(pack_ret_list))>>),
      Part("orig_addr", slurm_pack_slurm_addr)>>)

unpack_header ==
    <<U16("version"), U16("flags"), U16("msg_type"), U32("body_length"),
      Call("forward", pack_forward.full), Count16("ret_cnt"),
      Loop(<<Call("ret_list", unpack_ret_list)>>),
      Unchecked("orig_addr", slurm_unpack_slurm_addr)>>

-----------------------------------------------------------------------------
(* What slurmctld answers about jobs, steps, nodes, partitions and          *)
(* reservations.  It packs each record when it changes and sends the buffer *)
(* as it is (_pack_buffer_msg); the packing is in slurmctld, outside this   *)
(* repository, and taken to be what is unpacked.                            *)

pack_multi_core_data ==
    Always(<<When8("flag", <<U16("job_min_sockets"), U16("job_min_cores"),
      U16("job_min_threads"), U16("min_sockets"), U16("max_sockets"), U16("min_cores"),
      U16("max_cores"), U16("min_threads"), U16("max_threads"), U16("ntasks_per_socket"),
      U16("ntasks_per_core"), U16("plane_size")>>)>>)

unpack_multi_core_data ==
    <<When8("flag", <<U16("job_min_sockets"), U16("job_min_cores"), U16("job_min_threads"),
      U16("min_sockets"), U16("max_sockets"), U16("min_cores"), U16("max_cores"),
      U16("min_threads"), U16("max_threads"), U16("ntasks_per_socket"),
      U16("ntasks_per_core"), U16("plane_size")>>)>>

unpack_node_info_members ==
    <<Str("name"), U16("node_state"), U16("cpus"), U16("sockets"), U16("cores"),
      U16("threads"), U32("real_memory"), U32("tmp_disk"), U32("weight"), U16("used_cpus"),
      Str("arch"), Str("features"), Str("os"), Str("reason")>>

unpack_node_info_msg ==
    <<Count("record_count"), Time("last_update"),
      Loop(<<Call("node_array", unpack_node_info_members)>>)>>

unpack_partition_info_members ==
    <<Str("name"), U32("max_time"), U32("default_time"), U32("max_nodes"), U32("min_nodes"),
      U32("total_nodes"), U16("node_scaling"), U32("total_cpus"), U16("default_part"),
      U16("disable_root_jobs"), U16("hidden"), U16("root_only"), U16("max_share"),
      U16("priority"), U16("state_up"), Str("allow_groups"), Str("allow_alloc_nodes"),
      Str("nodes"), Str("node_inx")>>

unpack_partition_info_msg ==
    <<Count("record_count"), Time("last_update"),
      Loop(<<Call("partition_array", unpack_partition_info_members)>>)>>

unpack_reserve_info_members ==
    <<Str("accounts"), Time("end_time"), Str("features"), Str("name"), U32("node_cnt"),
      Str("node_list"), Str("partition"), Time("start_time"), U16("flags"), Str("users"),
      Str("node_inx")>>

unpack_reserve_info_msg ==
    <<Count("record_count"), Time("last_update"),
      Loop(<<Call("reservation_array", unpack_reserve_info_members)>>)>>

unpack_job_step_info_members ==
    <<U32("job_id"), U32("step_id"), U16("ckpt_interval"), U32("user_id"), U32("num_tasks"),
      Time("start_time"), Time("run_time"), Str("partition"), Str("resv_ports"), Str("nodes"),
      Str("name"), Str("network"), Str("node_inx"), Str("ckpt_dir")>>

unpack_job_step_info_response_msg ==
    <<Time("last_update"), Count("job_step_count"),
      Loop(<<Call("job_steps", unpack_job_step_info_members)>>)>>

unpack_job_info_members ==
    <<U32("assoc_id"), U32("job_id"), U32("user_id"), U32("group_id"), U16("job_state"),
      U16("batch_flag"), U16("state_reason"), U16("restart_cnt"), U32("alloc_sid"),
      U32("time_limit"), Time("submit_time"), Time("start_time"), Time("end_time"),
      Time("suspend_time"), Time("pre_sus_time"), U32("priority"), Str("nodes"),
      Str("partition"), Str("account"), Str("network"), Str("comment"), Str("licenses"),
      Str("state_desc"), Str("resv_name"), U32("exit_code"), Count("num_cpu_groups"),
      Some(<<Array16("cpus_per_node"), Array32("cpu_count_reps")>>), Str("name"),
      Str("wckey"), Str("alloc_node"), Str("node_inx"), U32("num_procs"), Str("features"),
      Str("work_dir"), Str("dependency"), Str("command"), U32("num_nodes"), U32("max_nodes"),
      U16("requeue"), U16("shared"), U16("contiguous"), U16("cpus_per_task"),
      U16("job_min_procs"), U32("job_min_memory"), U32("job_min_tmp_disk"), Str("req_nodes"),
      Str("req_node_inx"), Str("exc_nodes"), Str("exc_node_inx"),
      Call("", unpack_multi_core_data)>>

unpack_job_info_msg ==
    <<Count("record_count"), Time("last_update"),
      Loop(<<Call("job_array", unpack_job_info_members)>>)>>

pack_node_info_msg         == Always(unpack_node_info_msg)
pack_partition_info_msg    == Always(unpack_partition_info_msg)
pack_reserve_info_msg      == Always(unpack_reserve_info_msg)
pack_job_step_info_response_msg == Always(unpack_job_step_info_response_msg)
pack_job_info_msg ==
    Always(<<Count("record_count"), Time("last_update"),
      Loop(<<Call("job_array",
        SubSeq(unpack_job_info_members, 1, Len(unpack_job_info_members) - 1)
          \o <<Part("", pack_multi_core_data)>>)>>)>>)

-----------------------------------------------------------------------------
(* The message types.                                                       *)

\* A type only.
EmptyTypes ==
    {"ACCOUNTING_FIRST_REG", "PMI_KVS_PUT_RESP", "REQUEST_CONTROL", "REQUEST_DAEMON_STATUS",
     "REQUEST_HEALTH_CHECK", "REQUEST_JOB_ATTACH", "REQUEST_JOB_RESOURCE",
     "REQUEST_NODE_REGISTRATION_STATUS", "REQUEST_PING", "REQUEST_RECONFIGURE",
     "REQUEST_RUN_JOB_STEP", "REQUEST_SHUTDOWN_IMMEDIATE", "REQUEST_TAKEOVER",
     "REQUEST_TOPO_INFO", "RESPONSE_CANCEL_JOB_STEP", "RESPONSE_FORWARD_FAILED",
     "RESPONSE_JOB_ATTACH", "RESPONSE_JOB_RESOURCE", "RESPONSE_RECONFIGURE",
     "RESPONSE_RUN_JOB_STEP", "RESPONSE_SHUTDOWN"}

BodyTypes ==
    {"REQUEST_NODE_INFO", "REQUEST_PARTITION_INFO", "REQUEST_RESERVATION_INFO",
     "REQUEST_BUILD_INFO", "REQUEST_ACCTING_INFO", "RESPONSE_BUILD_INFO",
     "MESSAGE_NODE_REGISTRATION_STATUS", "REQUEST_RESOURCE_ALLOCATION",
     "REQUEST_SUBMIT_BATCH_JOB", "REQUEST_JOB_WILL_RUN", "REQUEST_UPDATE_JOB",
     "REQUEST_JOB_END_TIME", "REQUEST_JOB_ALLOCATION_INFO",
     "REQUEST_JOB_ALLOCATION_INFO_LITE", "REQUEST_SHUTDOWN", "RESPONSE_SUBMIT_BATCH_JOB",
     "RESPONSE_JOB_ALLOCATION_INFO_LITE", "RESPONSE_RESOURCE_ALLOCATION",
     "RESPONSE_JOB_WILL_RUN", "RESPONSE_JOB_ALLOCATION_INFO", "REQUEST_UPDATE_NODE",
     "REQUEST_CREATE_PARTITION", "REQUEST_UPDATE_PARTITION", "REQUEST_DELETE_PARTITION",
     "REQUEST_CREATE_RESERVATION", "REQUEST_UPDATE_RESERVATION",
     "REQUEST_DELETE_RESERVATION", "RESPONSE_CREATE_RESERVATION", "REQUEST_REATTACH_TASKS",
     "RESPONSE_REATTACH_TASKS", "REQUEST_LAUNCH_TASKS", "RESPONSE_LAUNCH_TASKS",
     "TASK_USER_MANAGED_IO_STREAM", "REQUEST_SIGNAL_TASKS", "REQUEST_TERMINATE_TASKS",
     "REQUEST_CHECKPOINT_TASKS", "REQUEST_JOB_STEP_INFO", "REQUEST_JOB_INFO",
     "REQUEST_CANCEL_JOB_STEP", "REQUEST_COMPLETE_JOB_ALLOCATION",
     "REQUEST_COMPLETE_BATCH_SCRIPT", "REQUEST_STEP_COMPLETE", "MESSAGE_STAT_JOBACCT",
     "REQUEST_STEP_LAYOUT", "RESPONSE_STEP_LAYOUT", "REQUEST_SIGNAL_JOB",
     "REQUEST_ABORT_JOB", "REQUEST_KILL_TIMELIMIT", "REQUEST_TERMINATE_JOB",
     "MESSAGE_EPILOG_COMPLETE", "REQUEST_UPDATE_JOB_TIME", "MESSAGE_TASK_EXIT",
     "REQUEST_BATCH_JOB_LAUNCH", "RESPONSE_JOB_READY", "RESPONSE_SLURM_RC",
     "RESPONSE_JOB_STEP_CREATE", "REQUEST_JOB_STEP_CREATE", "REQUEST_JOB_ID",
     "RESPONSE_JOB_ID", "SRUN_EXEC", "SRUN_JOB_COMPLETE", "SRUN_PING", "SRUN_NODE_FAIL",
     "SRUN_STEP_MISSING", "SRUN_TIMEOUT", "SRUN_USER_MSG", "REQUEST_CHECKPOINT",
     "REQUEST_CHECKPOINT_COMP", "REQUEST_CHECKPOINT_TASK_COMP", "RESPONSE_CHECKPOINT",
     "RESPONSE_CHECKPOINT_COMP", "REQUEST_SUSPEND", "REQUEST_JOB_READY",
     "REQUEST_JOB_REQUEUE", "REQUEST_JOB_INFO_SINGLE", "REQUEST_SHARE_INFO",
     "RESPONSE_SHARE_INFO", "REQUEST_PRIORITY_FACTORS", "RESPONSE_PRIORITY_FACTORS",
     "REQUEST_NODE_SELECT_INFO", "REQUEST_FILE_BCAST", "PMI_KVS_PUT_REQ",
     "PMI_KVS_GET_RESP", "PMI_KVS_GET_REQ", "REQUEST_TRIGGER_GET", "RESPONSE_TRIGGER_GET",
     "REQUEST_TRIGGER_SET", "REQUEST_TRIGGER_CLEAR", "RESPONSE_SLURMD_STATUS",
     "REQUEST_JOB_NOTIFY", "REQUEST_SET_DEBUG_LEVEL", "RESPONSE_TOPO_INFO",
     "RESPONSE_JOB_INFO", "RESPONSE_PARTITION_INFO", "RESPONSE_NODE_INFO",
     "RESPONSE_RESERVATION_INFO", "RESPONSE_JOB_STEP_INFO"}

\* "HEADER" stands for the header of every message.
SlurmTypes == EmptyTypes \cup BodyTypes \cup {"HEADER"}

pack_srun_msg(type) ==
    CASE type = "SRUN_EXEC" -> pack_srun_exec_msg
      [] type \in {"SRUN_JOB_COMPLETE", "SRUN_PING"} -> pack_srun_ping_msg
      [] type = "SRUN_NODE_FAIL" -> pack_srun_node_fail_msg
      [] type = "SRUN_STEP_MISSING" -> pack_srun_step_missing_msg
      [] type = "SRUN_TIMEOUT" -> pack_srun_timeout_msg
      [] type = "SRUN_USER_MSG" -> pack_srun_user_msg
      [] type = "REQUEST_CHECKPOINT" -> pack_checkpoint_msg
      [] type = "REQUEST_CHECKPOINT_COMP" -> pack_checkpoint_comp
      [] type = "REQUEST_CHECKPOINT_TASK_COMP" -> pack_checkpoint_task_comp
      [] type \in {"RESPONSE_CHECKPOINT", "RESPONSE_CHECKPOINT_COMP"} -> pack_checkpoint_resp_msg
      [] type = "REQUEST_SUSPEND" -> pack_suspend_msg
      [] type \in {"REQUEST_JOB_READY", "REQUEST_JOB_REQUEUE", "REQUEST_JOB_INFO_SINGLE"} ->
             pack_job_ready_msg
      [] type = "REQUEST_SHARE_INFO" -> pack_shares_request_msg
      [] type = "RESPONSE_SHARE_INFO" -> pack_shares_response_msg
      [] type = "REQUEST_PRIORITY_FACTORS" -> pack_priority_factors_request_msg
      [] type = "RESPONSE_PRIORITY_FACTORS" -> pack_priority_factors_response_msg
      [] type = "REQUEST_NODE_SELECT_INFO" -> pack_node_select_info_req_msg
      [] type = "REQUEST_FILE_BCAST" -> pack_file_bcast
      [] type \in {"PMI_KVS_PUT_REQ", "PMI_KVS_GET_RESP"} -> pack_kvs_data
      [] type = "PMI_KVS_GET_REQ" -> pack_kvs_get
      [] type \in {"REQUEST_TRIGGER_GET", "RESPONSE_TRIGGER_GET", "REQUEST_TRIGGER_SET",
                  "REQUEST_TRIGGER_CLEAR"} ->
             pack_trigger_msg
      [] type = "RESPONSE_SLURMD_STATUS" -> pack_slurmd_status
      [] type = "REQUEST_JOB_NOTIFY" -> pack_job_notify
      [] type = "REQUEST_SET_DEBUG_LEVEL" -> pack_set_debug_level_msg
      [] type = "RESPONSE_TOPO_INFO" -> pack_topo_info_msg

pack_step_msg(type) ==
    CASE type = "REQUEST_REATTACH_TASKS" -> pack_reattach_tasks_request_msg
      [] type = "RESPONSE_REATTACH_TASKS" -> pack_reattach_tasks_response_msg
      [] type = "REQUEST_LAUNCH_TASKS" -> pack_launch_tasks_request_msg
      [] type = "RESPONSE_LAUNCH_TASKS" -> pack_launch_tasks_response_msg
      [] type = "TASK_USER_MANAGED_IO_STREAM" -> pack_task_user_managed_io_stream_msg
      [] type \in {"REQUEST_SIGNAL_TASKS", "REQUEST_TERMINATE_TASKS"} -> pack_cancel_tasks_msg
      [] type = "REQUEST_CHECKPOINT_TASKS" -> pack_checkpoint_tasks_msg
      [] type = "REQUEST_JOB_STEP_INFO" -> pack_job_step_info_req_msg
      [] type = "REQUEST_JOB_INFO" -> pack_job_info_request_msg
      [] type = "REQUEST_CANCEL_JOB_STEP" -> pack_job_step_kill_msg
      [] type = "REQUEST_COMPLETE_JOB_ALLOCATION" -> pack_complete_job_allocation_msg
      [] type = "REQUEST_COMPLETE_BATCH_SCRIPT" -> pack_complete_batch_script_msg
      [] type = "REQUEST_STEP_COMPLETE" -> pack_step_complete_msg
      [] type = "MESSAGE_STAT_JOBACCT" -> pack_stat_jobacct_msg
      [] type = "REQUEST_STEP_LAYOUT" -> pack_job_step_id_msg
      [] type = "RESPONSE_STEP_LAYOUT" -> pack_slurm_step_layout
      [] type = "REQUEST_SIGNAL_JOB" -> pack_signal_job_msg
      [] type \in {"REQUEST_ABORT_JOB", "REQUEST_KILL_TIMELIMIT", "REQUEST_TERMINATE_JOB"} ->
             pack_kill_job_msg
      [] type = "MESSAGE_EPILOG_COMPLETE" -> pack_epilog_comp_msg
      [] type = "REQUEST_UPDATE_JOB_TIME" -> pack_update_job_time_msg
      [] type = "MESSAGE_TASK_EXIT" -> pack_task_exit_msg
      [] type = "REQUEST_BATCH_JOB_LAUNCH" -> pack_batch_job_launch_msg
      [] type \in {"RESPONSE_JOB_READY", "RESPONSE_SLURM_RC"} -> pack_return_code_msg
      [] type = "RESPONSE_JOB_STEP_CREATE" -> pack_job_step_create_response_msg
      [] type = "REQUEST_JOB_STEP_CREATE" -> pack_job_step_create_request_msg
      [] type = "REQUEST_JOB_ID" -> pack_job_id_request_msg
      [] type = "RESPONSE_JOB_ID" -> pack_job_id_response_msg
      [] type = "RESPONSE_JOB_STEP_INFO" -> pack_job_step_info_response_msg
      [] OTHER -> pack_srun_msg(type)

pack_msg(type) ==
    CASE type \in EmptyTypes -> Always(<<>>)
      [] type = "HEADER" -> pack_header
      [] type = "REQUEST_NODE_INFO" -> pack_node_info_request_msg
      [] type = "REQUEST_PARTITION_INFO" -> pack_part_info_request_msg
      [] type = "REQUEST_RESERVATION_INFO" -> pack_resv_info_request_msg
      [] type \in {"REQUEST_BUILD_INFO", "REQUEST_ACCTING_INFO"} -> pack_last_update_msg
      [] type = "RESPONSE_BUILD_INFO" -> pack_slurm_ctl_conf_msg
      [] type = "MESSAGE_NODE_REGISTRATION_STATUS" -> pack_node_registration_status_msg
      [] type \in {"REQUEST_RESOURCE_ALLOCATION", "REQUEST_SUBMIT_BATCH_JOB",
                  "REQUEST_JOB_WILL_RUN", "REQUEST_UPDATE_JOB"} ->
             pack_job_desc_msg
      [] type \in {"REQUEST_JOB_END_TIME", "REQUEST_JOB_ALLOCATION_INFO",
                  "REQUEST_JOB_ALLOCATION_INFO_LITE"} ->
             pack_job_alloc_info_msg
      [] type = "REQUEST_SHUTDOWN" -> pack_shutdown_msg
      [] type = "RESPONSE_SUBMIT_BATCH_JOB" -> pack_submit_response_msg
      [] type \in {"RESPONSE_JOB_ALLOCATION_INFO_LITE", "RESPONSE_RESOURCE_ALLOCATION"} ->
             pack_resource_allocation_response_msg
      [] type = "RESPONSE_JOB_WILL_RUN" -> pack_will_run_response_msg
      [] type = "RESPONSE_JOB_ALLOCATION_INFO" -> pack_job_alloc_info_response_msg
      [] type = "REQUEST_UPDATE_NODE" -> pack_update_node_msg
      [] type \in {"REQUEST_CREATE_PARTITION", "REQUEST_UPDATE_PARTITION"} ->
             pack_update_partition_msg
      [] type = "REQUEST_DELETE_PARTITION" -> pack_delete_partition_msg
      [] type \in {"REQUEST_CREATE_RESERVATION", "REQUEST_UPDATE_RESERVATION"} ->
             pack_update_resv_msg
      [] type \in {"REQUEST_DELETE_RESERVATION", "RESPONSE_CREATE_RESERVATION"} ->
             pack_resv_name_msg
      [] type = "RESPONSE_JOB_INFO" -> pack_job_info_msg
      [] type = "RESPONSE_PARTITION_INFO" -> pack_partition_info_msg
      [] type = "RESPONSE_NODE_INFO" -> pack_node_info_msg
      [] type = "RESPONSE_RESERVATION_INFO" -> pack_reserve_info_msg
      [] OTHER -> pack_step_msg(type)

unpack_srun_msg(type) ==
    CASE type = "SRUN_EXEC" -> unpack_srun_exec_msg
      [] type \in {"SRUN_JOB_COMPLETE", "SRUN_PING"} -> unpack_srun_ping_msg
      [] type = "SRUN_NODE_FAIL" -> unpack_srun_node_fail_msg
      [] type = "SRUN_STEP_MISSING" -> unpack_srun_step_missing_msg
      [] type = "SRUN_TIMEOUT" -> unpack_srun_timeout_msg
      [] type = "SRUN_USER_MSG" -> unpack_srun_user_msg
      [] type = "REQUEST_CHECKPOINT" -> unpack_checkpoint_msg
      [] type = "REQUEST_CHECKPOINT_COMP" -> unpack_checkpoint_comp
      [] type = "REQUEST_CHECKPOINT_TASK_COMP" -> unpack_checkpoint_task_comp
      [] type \in {"RESPONSE_CHECKPOINT", "RESPONSE_CHECKPOINT_COMP"} ->
             unpack_checkpoint_resp_msg
      [] type = "REQUEST_SUSPEND" -> unpack_suspend_msg
      [] type \in {"REQUEST_JOB_READY", "REQUEST_JOB_REQUEUE", "REQUEST_JOB_INFO_SINGLE"} ->
             unpack_job_ready_msg
      [] type = "REQUEST_SHARE_INFO" -> unpack_shares_request_msg
      [] type = "RESPONSE_SHARE_INFO" -> unpack_shares_response_msg
      [] type = "REQUEST_PRIORITY_FACTORS" -> unpack_priority_factors_request_msg
      [] type = "RESPONSE_PRIORITY_FACTORS" -> unpack_priority_factors_response_msg
      [] type = "REQUEST_NODE_SELECT_INFO" -> unpack_node_select_info_req_msg
      [] type = "REQUEST_FILE_BCAST" -> unpack_file_bcast
      [] type \in {"PMI_KVS_PUT_REQ", "PMI_KVS_GET_RESP"} -> unpack_kvs_data
      [] type = "PMI_KVS_GET_REQ" -> unpack_kvs_get
      [] type \in {"REQUEST_TRIGGER_GET", "RESPONSE_TRIGGER_GET", "REQUEST_TRIGGER_SET",
                  "REQUEST_TRIGGER_CLEAR"} ->
             unpack_trigger_msg
      [] type = "RESPONSE_SLURMD_STATUS" -> unpack_slurmd_status
      [] type = "REQUEST_JOB_NOTIFY" -> unpack_job_notify
      [] type = "REQUEST_SET_DEBUG_LEVEL" -> unpack_set_debug_level_msg
      [] type = "RESPONSE_TOPO_INFO" -> unpack_topo_info_msg

unpack_step_msg(type) ==
    CASE type = "REQUEST_REATTACH_TASKS" -> unpack_reattach_tasks_request_msg
      [] type = "RESPONSE_REATTACH_TASKS" -> unpack_reattach_tasks_response_msg
      [] type \in {"REQUEST_SIGNAL_TASKS", "REQUEST_TERMINATE_TASKS"} -> unpack_cancel_tasks_msg
      [] type = "REQUEST_CHECKPOINT_TASKS" -> unpack_checkpoint_tasks_msg
      [] type = "REQUEST_JOB_STEP_INFO" -> unpack_job_step_info_req_msg
      [] type = "REQUEST_JOB_INFO" -> unpack_job_info_request_msg
      [] type = "REQUEST_CANCEL_JOB_STEP" -> unpack_job_step_kill_msg
      [] type = "REQUEST_COMPLETE_JOB_ALLOCATION" -> unpack_complete_job_allocation_msg
      [] type = "REQUEST_COMPLETE_BATCH_SCRIPT" -> unpack_complete_batch_script_msg
      [] type = "REQUEST_STEP_COMPLETE" -> unpack_step_complete_msg
      [] type = "MESSAGE_STAT_JOBACCT" -> unpack_stat_jobacct_msg
      [] type = "REQUEST_STEP_LAYOUT" -> unpack_job_step_id_msg
      [] type = "RESPONSE_STEP_LAYOUT" -> unpack_slurm_step_layout
      [] type = "REQUEST_SIGNAL_JOB" -> unpack_signal_job_msg
      [] type \in {"REQUEST_ABORT_JOB", "REQUEST_KILL_TIMELIMIT", "REQUEST_TERMINATE_JOB"} ->
             unpack_kill_job_msg
      [] type = "MESSAGE_EPILOG_COMPLETE" -> unpack_epilog_comp_msg
      [] type = "REQUEST_UPDATE_JOB_TIME" -> unpack_update_job_time_msg
      [] type = "MESSAGE_TASK_EXIT" -> unpack_task_exit_msg
      [] type = "REQUEST_BATCH_JOB_LAUNCH" -> unpack_batch_job_launch_msg
      [] type \in {"RESPONSE_JOB_READY", "RESPONSE_SLURM_RC"} -> unpack_return_code_msg
      [] type = "RESPONSE_JOB_STEP_CREATE" -> unpack_job_step_create_response_msg
      [] type = "REQUEST_JOB_STEP_CREATE" -> unpack_job_step_create_request_msg
      [] type = "REQUEST_JOB_ID" -> unpack_job_id_request_msg
      [] type = "RESPONSE_JOB_ID" -> unpack_job_id_response_msg
      [] type = "RESPONSE_JOB_STEP_INFO" -> unpack_job_step_info_response_msg
      [] OTHER -> unpack_srun_msg(type)

unpack_msg(type) ==
    CASE type \in EmptyTypes -> <<>>
      [] type = "HEADER" -> unpack_header
      [] type = "REQUEST_NODE_INFO" -> unpack_node_info_request_msg
      [] type = "REQUEST_PARTITION_INFO" -> unpack_part_info_request_msg
      [] type = "REQUEST_RESERVATION_INFO" -> unpack_resv_info_request_msg
      [] type \in {"REQUEST_BUILD_INFO", "REQUEST_ACCTING_INFO"} -> unpack_last_update_msg
      [] type = "RESPONSE_BUILD_INFO" -> unpack_slurm_ctl_conf_msg
      [] type = "MESSAGE_NODE_REGISTRATION_STATUS" -> unpack_node_registration_status_msg
      [] type \in {"REQUEST_RESOURCE_ALLOCATION", "REQUEST_SUBMIT_BATCH_JOB",
                  "REQUEST_JOB_WILL_RUN", "REQUEST_UPDATE_JOB"} ->
             unpack_job_desc_msg
      [] type \in {"REQUEST_JOB_END_TIME", "REQUEST_JOB_ALLOCATION_INFO",
                  "REQUEST_JOB_ALLOCATION_INFO_LITE"} ->
             unpack_job_alloc_info_msg
      [] type = "REQUEST_SHUTDOWN" -> unpack_shutdown_msg
      [] type = "RESPONSE_SUBMIT_BATCH_JOB" -> unpack_submit_response_msg
      [] type \in {"RESPONSE_JOB_ALLOCATION_INFO_LITE", "RESPONSE_RESOURCE_ALLOCATION"} ->
             unpack_resource_allocation_response_msg
      [] type = "RESPONSE_JOB_WILL_RUN" -> unpack_will_run_response_msg
      [] type = "RESPONSE_JOB_ALLOCATION_INFO" -> unpack_job_alloc_info_response_msg
      [] type = "REQUEST_UPDATE_NODE" -> unpack_update_node_msg
      [] type \in {"REQUEST_CREATE_PARTITION", "REQUEST_UPDATE_PARTITION"} ->
             unpack_update_partition_msg
      [] type = "REQUEST_DELETE_PARTITION" -> unpack_delete_partition_msg
      [] type \in {"REQUEST_CREATE_RESERVATION", "REQUEST_UPDATE_RESERVATION"} ->
             unpack_update_resv_msg
      [] type \in {"REQUEST_DELETE_RESERVATION", "RESPONSE_CREATE_RESERVATION"} ->
             unpack_resv_name_msg
      [] type = "REQUEST_LAUNCH_TASKS" -> unpack_launch_tasks_request_msg
      [] type = "RESPONSE_LAUNCH_TASKS" -> unpack_launch_tasks_response_msg
      [] type = "TASK_USER_MANAGED_IO_STREAM" -> unpack_task_user_managed_io_stream_msg
      [] type = "RESPONSE_JOB_INFO" -> unpack_job_info_msg
      [] type = "RESPONSE_PARTITION_INFO" -> unpack_partition_info_msg
      [] type = "RESPONSE_NODE_INFO" -> unpack_node_info_msg
      [] type = "RESPONSE_RESERVATION_INFO" -> unpack_reserve_info_msg
      [] OTHER -> unpack_step_msg(type)
==============================================================================
