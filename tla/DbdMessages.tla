---------------------------- MODULE DbdMessages ----------------------------
(***************************************************************************)
(* What the messages between slurmctld, the commands and SlurmDBD are made *)
(* of (common/slurmdbd_defs.c): one pair of definitions per message        *)
(* structure, for the RPC version v, and the choice of the pair by the     *)
(* message type.  Wire says what the items mean.                           *)
(***************************************************************************)
EXTENDS AcctRecords

slurmdbd_pack_acct_coord_msg(v) ==
    Always(<<List("acct_list", {Zero}, <<Str("")>>), Rec("cond", pack_acct_user_cond(v))>>)

slurmdbd_unpack_acct_coord_msg(v) ==
    <<List("acct_list", {Zero}, <<Str("")>>), Call("cond", unpack_acct_user_cond(v))>>

slurmdbd_pack_cluster_procs_msg(v) ==
    CASE v >= 5 ->
          Always(<<Str("cluster_name"), Str("cluster_nodes"), U32("proc_count"),
            Time("event_time")>>)
      [] OTHER ->
          Always(<<Str("cluster_name"), U32("proc_count"), Time("event_time")>>)

slurmdbd_unpack_cluster_procs_msg(v) ==
    CASE v >= 5 ->
          <<Str("cluster_name"), Str("cluster_nodes"), U32("proc_count"), Time("event_time")>>
      [] OTHER ->
          <<Str("cluster_name"), U32("proc_count"), Time("event_time")>>

slurmdbd_pack_fini_msg(v) ==
    Always(<<U16("close_conn"), U16("commit")>>)

slurmdbd_unpack_fini_msg(v) ==
    <<U16("close_conn"), U16("commit")>>

slurmdbd_pack_job_complete_msg(v) ==
    Always(<<U32("assoc_id"), U32("db_index"), Time("end_time"), U32("exit_code"), U32("job_id"),
      U16("job_state"), Str("nodes"), Time("start_time"), Time("submit_time")>>)

slurmdbd_unpack_job_complete_msg(v) ==
    <<U32("assoc_id"), U32("db_index"), Time("end_time"), U32("exit_code"), U32("job_id"),
      U16("job_state"), Str("nodes"), Time("start_time"), Time("submit_time")>>

slurmdbd_pack_job_start_msg(v) ==
    CASE v >= 5 ->
          Always(<<Str("account"), U32("alloc_cpus"), U32("alloc_nodes"), U32("assoc_id"),
            Str("block_id"), Str("cluster"), U32("db_index"), Time("eligible_time"), U32("gid"),
            U32("job_id"), U16("job_state"), Str("name"), Str("nodes"), Str("node_inx"),
            Str("partition"), U32("priority"), U32("req_cpus"), U32("resv_id"),
            Time("start_time"), Time("submit_time"), U32("timelimit"), U32("uid"), Str("wckey")>>)
      [] v >= 3 ->
          Always(<<Str("account"), U32("alloc_cpus"), U32("assoc_id"), Str("block_id"),
            Str("cluster"), U32("db_index"), Time("eligible_time"), U32("gid"), U32("job_id"),
            U16("job_state"), Str("name"), Str("nodes"), Str("partition"), U32("priority"),
            U32("req_cpus"), Time("start_time"), Time("submit_time"), U32("uid")>>)
      [] OTHER ->
          Always(<<Str("account"), U32("alloc_cpus"), U32("assoc_id"), Str("block_id"),
            U32("db_index"), Time("eligible_time"), U32("gid"), U32("job_id"), U16("job_state"),
            Str("name"), Str("nodes"), Str("partition"), U32("priority"), U32("req_cpus"),
            Time("start_time"), Time("submit_time"), U32("uid")>>)

\* In versions 3 and 4 the name of a job has its wckey behind a quotation mark.
slurmdbd_unpack_job_start_msg(v) ==
    CASE v >= 5 ->
          <<Str("account"), U32("alloc_cpus"), U32("alloc_nodes"), U32("assoc_id"),
            Str("block_id"), Str("cluster"), U32("db_index"), Time("eligible_time"), U32("gid"),
            U32("job_id"), U16("job_state"), Str("name"), Str("nodes"), Str("node_inx"),
            Str("partition"), U32("priority"), U32("req_cpus"), U32("resv_id"),
            Time("start_time"), Time("submit_time"), U32("timelimit"), U32("uid"), Str("wckey")>>
      [] v >= 3 ->
          <<Str("account"), U32("alloc_cpus"), U32("assoc_id"), Str("block_id"), Str("cluster"),
            U32("db_index"), Time("eligible_time"), U32("gid"), U32("job_id"), U16("job_state"),
            Str("name"), Str("nodes"), Str("partition"), U32("priority"), U32("req_cpus"),
            Time("start_time"), Time("submit_time"), U32("uid"), Split("name", "wckey")>>
      [] OTHER ->
          <<Str("account"), U32("alloc_cpus"), U32("assoc_id"), Str("block_id"), U32("db_index"),
            Time("eligible_time"), U32("gid"), U32("job_id"), U16("job_state"), Str("name"),
            Str("nodes"), Str("partition"), U32("priority"), U32("req_cpus"), Time("start_time"),
            Time("submit_time"), U32("uid")>>

slurmdbd_pack_id_rc_msg(v) ==
    Always(<<U32("id"), U32("return_code")>>)

slurmdbd_unpack_id_rc_msg(v) ==
    <<U32("id"), U32("return_code")>>

slurmdbd_pack_job_suspend_msg(v) ==
    Always(<<U32("assoc_id"), U32("db_index"), U32("job_id"), U16("job_state"),
      Time("submit_time"), Time("suspend_time")>>)

slurmdbd_unpack_job_suspend_msg(v) ==
    <<U32("assoc_id"), U32("db_index"), U32("job_id"), U16("job_state"), Time("submit_time"),
      Time("suspend_time")>>

slurmdbd_pack_node_state_msg(v) ==
    CASE v >= 5 ->
          Always(<<Str("cluster_name"), U32("cpu_count"), Str("hostlist"), Str("reason"),
            U16("new_state"), Time("event_time"), U16("state")>>)
      [] OTHER ->
          Always(<<Str("cluster_name"), U32("cpu_count"), Str("hostlist"), Str("reason"),
            U16("new_state"), Time("event_time")>>)

slurmdbd_unpack_node_state_msg_NoState(v) ==
    <<Str("cluster_name"), U32("cpu_count"), Str("hostlist"), Str("reason"), U16("new_state"),
      Time("event_time")>>

slurmdbd_unpack_node_state_msg(v) ==
    CASE v >= 5 ->
          <<Str("cluster_name"), U32("cpu_count"), Str("hostlist"), Str("reason"),
            U16("new_state"), Time("event_time"), U16("state")>>
      [] OTHER ->
          <<Str("cluster_name"), U32("cpu_count"), Str("hostlist"), Str("reason"),
            U16("new_state"), Time("event_time")>>

slurmdbd_pack_rc_msg(v) ==
    Always(<<Str("comment"), U32("return_code"), U16("sent_type")>>)

slurmdbd_unpack_rc_msg_Unchecked(v) ==
    <<Str("comment"), U32("return_code"), Unchecked("", <<U16("sent_type")>>)>>

slurmdbd_unpack_rc_msg(v) ==
    <<Str("comment"), U32("return_code"), U16("sent_type")>>

slurmdbd_pack_register_ctld_msg(v) ==
    Always(<<Str("cluster_name"), U16("port")>>)

slurmdbd_unpack_register_ctld_msg(v) ==
    <<Str("cluster_name"), U16("port")>>

slurmdbd_pack_roll_usage_msg(v) ==
    CASE v >= 5 ->
          Always(<<U16("archive_data"), Time("end"), Time("start")>>)
      [] OTHER ->
          Always(<<Time("start")>>)

slurmdbd_unpack_roll_usage_msg(v) ==
    CASE v >= 5 ->
          <<U16("archive_data"), Time("end"), Time("start")>>
      [] OTHER ->
          <<Time("start")>>

slurmdbd_pack_step_complete_msg(v) ==
    Always(<<U32("assoc_id"), U32("db_index"), Time("end_time"), U32("exit_code"),
      Rec("jobacct", jobacct_common_pack(v)), U32("job_id"), U32("req_uid"), Time("start_time"),
      Time("job_submit_time"), U32("step_id"), U32("total_procs")>>)

slurmdbd_unpack_step_complete_msg(v) ==
    <<U32("assoc_id"), U32("db_index"), Time("end_time"), U32("exit_code"),
      Unchecked("jobacct", jobacct_common_unpack(v)), U32("job_id"), U32("req_uid"),
      Time("start_time"), Time("job_submit_time"), U32("step_id"), U32("total_procs")>>

slurmdbd_pack_step_start_msg(v) ==
    CASE v >= 5 ->
          Always(<<U32("assoc_id"), U32("db_index"), U32("job_id"), Str("name"), Str("nodes"),
            Str("node_inx"), U32("node_cnt"), Time("start_time"), Time("job_submit_time"),
            U32("step_id"), U16("task_dist"), U32("total_procs"), U32("total_tasks")>>)
      [] OTHER ->
          Always(<<U32("assoc_id"), U32("db_index"), U32("job_id"), Str("name"), Str("nodes"),
            Time("start_time"), Time("job_submit_time"), U32("step_id"), U32("total_procs")>>)

slurmdbd_unpack_step_start_msg(v) ==
    CASE v >= 5 ->
          <<U32("assoc_id"), U32("db_index"), U32("job_id"), Str("name"), Str("nodes"),
            Str("node_inx"), U32("node_cnt"), Time("start_time"), Time("job_submit_time"),
            U32("step_id"), U16("task_dist"), U32("total_procs"), U32("total_tasks")>>
      [] OTHER ->
          <<U32("assoc_id"), U32("db_index"), U32("job_id"), Str("name"), Str("nodes"),
            Time("start_time"), Time("job_submit_time"), U32("step_id"), U32("total_procs")>>

slurmdbd_pack_rec_msg(v, type) ==
    Always(<<Rec("rec", pack_acct_reservation_rec(v))>>)

slurmdbd_unpack_rec_msg(v, type) ==
    <<Call("rec", unpack_acct_reservation_rec(v))>>

PackCond(v, type) ==
    CASE type \in {"DBD_GET_ACCOUNTS", "DBD_REMOVE_ACCOUNTS"} -> pack_acct_account_cond(v)
      [] type \in {"DBD_GET_ASSOCS", "DBD_REMOVE_ASSOCS"}     -> pack_acct_association_cond(v)
      [] type \in {"DBD_GET_CLUSTERS", "DBD_REMOVE_CLUSTERS"} -> pack_acct_cluster_cond(v)
      [] type = "DBD_GET_JOBS_COND"                           -> pack_acct_job_cond(v)
      [] type \in {"DBD_GET_QOS", "DBD_REMOVE_QOS"}           -> pack_acct_qos_cond(v)
      [] type \in {"DBD_GET_WCKEYS", "DBD_REMOVE_WCKEYS"}     -> pack_acct_wckey_cond(v)
      [] type \in {"DBD_GET_USERS", "DBD_REMOVE_USERS"}       -> pack_acct_user_cond(v)
      [] type = "DBD_GET_TXN"                                 -> pack_acct_txn_cond(v)
      [] type = "DBD_ARCHIVE_DUMP"                            -> pack_acct_archive_cond(v)
      [] type = "DBD_GET_RESVS"                               -> pack_acct_reservation_cond(v)

UnpackCond(v, type) ==
    CASE type \in {"DBD_GET_ACCOUNTS", "DBD_REMOVE_ACCOUNTS"} -> unpack_acct_account_cond(v)
      [] type \in {"DBD_GET_ASSOCS", "DBD_REMOVE_ASSOCS"}     -> unpack_acct_association_cond(v)
      [] type \in {"DBD_GET_CLUSTERS", "DBD_REMOVE_CLUSTERS"} -> unpack_acct_cluster_cond(v)
      [] type = "DBD_GET_JOBS_COND"                           -> unpack_acct_job_cond(v)
      [] type \in {"DBD_GET_QOS", "DBD_REMOVE_QOS"}           -> unpack_acct_qos_cond(v)
      [] type \in {"DBD_GET_WCKEYS", "DBD_REMOVE_WCKEYS"}     -> unpack_acct_wckey_cond(v)
      [] type \in {"DBD_GET_USERS", "DBD_REMOVE_USERS"}       -> unpack_acct_user_cond(v)
      [] type = "DBD_GET_TXN"                                 -> unpack_acct_txn_cond(v)
      [] type = "DBD_ARCHIVE_DUMP"                            -> unpack_acct_archive_cond(v)
      [] type = "DBD_GET_RESVS"                               -> unpack_acct_reservation_cond(v)

slurmdbd_pack_cond_msg(v, type) ==
    Always(<<Rec("cond", PackCond(v, type))>>)

slurmdbd_unpack_cond_msg(v, type) ==
    <<Call("cond", UnpackCond(v, type))>>

slurmdbd_pack_get_jobs_msg(v) ==
    Always(<<Str("cluster_name"), U16("completion"), U32("gid"), Time("last_update"),
      List("selected_steps", {Zero}, pack_jobacct_selected_step(v).full),
      List("selected_parts", {Zero}, <<Str("")>>), Str("user")>>)

slurmdbd_unpack_get_jobs_msg(v) ==
    <<Str("cluster_name"), U16("completion"), U32("gid"), Time("last_update"),
      List("selected_steps", {Zero}, <<Unchecked("", unpack_jobacct_selected_step(v))>>),
      List("selected_parts", {Zero}, <<Str("")>>), Str("user")>>

\* The credential is packed by the authentication plugin, here as one string.
slurmdbd_pack_init_msg(v) ==
    Always(<<U16("rollback"), U16("version"), Checked("auth_cred")>>)

slurmdbd_unpack_init_msg(v) ==
    <<U16("rollback"), U16("version"), Checked("auth_cred")>>

pack_config_key_pair(v) ==
    Always(<<Str("name"), Str("value")>>)

unpack_config_key_pair(v) ==
    <<Str("name"), Str("value")>>

PackElement(v, type) ==
    CASE type \in {"DBD_ADD_ACCOUNTS", "DBD_GOT_ACCOUNTS"} -> pack_acct_account_rec(v)
      [] type \in {"DBD_ADD_ASSOCS", "DBD_GOT_ASSOCS"}     -> pack_acct_association_rec(v)
      [] type \in {"DBD_ADD_CLUSTERS", "DBD_GOT_CLUSTERS"} -> pack_acct_cluster_rec(v)
      [] type = "DBD_GOT_CONFIG"                           -> pack_config_key_pair(v)
      [] type = "DBD_GOT_JOBS"                             -> pack_jobacct_job_rec(v)
      [] type = "DBD_GOT_LIST"                             -> Always(<<Str("")>>)
      [] type \in {"DBD_ADD_QOS", "DBD_GOT_QOS"}           -> pack_acct_qos_rec(v)
      [] type = "DBD_GOT_RESVS"                            -> pack_acct_reservation_rec(v)
      [] type \in {"DBD_ADD_WCKEYS", "DBD_GOT_WCKEYS"}     -> pack_acct_wckey_rec(v)
      [] type \in {"DBD_ADD_USERS", "DBD_GOT_USERS"}       -> pack_acct_user_rec(v)
      [] type = "DBD_GOT_TXN"                              -> pack_acct_txn_rec(v)

UnpackElement(v, type) ==
    CASE type \in {"DBD_ADD_ACCOUNTS", "DBD_GOT_ACCOUNTS"} -> unpack_acct_account_rec(v)
      [] type \in {"DBD_ADD_ASSOCS", "DBD_GOT_ASSOCS"}     -> unpack_acct_association_rec(v)
      [] type \in {"DBD_ADD_CLUSTERS", "DBD_GOT_CLUSTERS"} -> unpack_acct_cluster_rec(v)
      [] type = "DBD_GOT_CONFIG"                           -> unpack_config_key_pair(v)
      [] type = "DBD_GOT_JOBS"                             -> unpack_jobacct_job_rec(v)
      [] type = "DBD_GOT_LIST"                             -> <<Str("")>>
      [] type \in {"DBD_ADD_QOS", "DBD_GOT_QOS"}           -> unpack_acct_qos_rec(v)
      [] type = "DBD_GOT_RESVS"                            -> unpack_acct_reservation_rec(v)
      [] type \in {"DBD_ADD_WCKEYS", "DBD_GOT_WCKEYS"}     -> unpack_acct_wckey_rec(v)
      [] type \in {"DBD_ADD_USERS", "DBD_GOT_USERS"}       -> unpack_acct_user_rec(v)
      [] type = "DBD_GOT_TXN"                              -> unpack_acct_txn_rec(v)

\* The count -1 tells the receiver that there is no list, which is an error
\* and not an empty answer; the receiver takes any negative count for it.
slurmdbd_pack_list_msg(v, type) ==
    Always(<<List("my_list", {Minus1}, PackElement(v, type).full)>>)

slurmdbd_unpack_list_msg(v, type) ==
    <<List("my_list", {Minus1, NO_VAL}, <<Call("", UnpackElement(v, type))>>)>>

slurmdbd_pack_modify_msg(v, type) ==
    Always(CASE type = "DBD_MODIFY_ACCOUNTS" ->
                  <<Rec("cond", pack_acct_account_cond(v)), Rec("rec", pack_acct_account_rec(v))>>
             [] type = "DBD_MODIFY_ASSOCS" ->
                  <<Rec("cond", pack_acct_association_cond(v)),
                    Rec("rec", pack_acct_association_rec(v))>>
             [] type = "DBD_MODIFY_CLUSTERS" ->
                  <<Rec("cond", pack_acct_cluster_cond(v)), Rec("rec", pack_acct_cluster_rec(v))>>
             [] type = "DBD_MODIFY_USERS" ->
                  <<Rec("cond", pack_acct_user_cond(v)), Rec("rec", pack_acct_user_rec(v))>>)

slurmdbd_unpack_modify_msg(v, type) ==
    CASE type = "DBD_MODIFY_ACCOUNTS" ->
           <<Call("cond", unpack_acct_account_cond(v)), Call("rec", unpack_acct_account_rec(v))>>
      [] type = "DBD_MODIFY_ASSOCS" ->
           <<Call("cond", unpack_acct_association_cond(v)),
             Call("rec", unpack_acct_association_rec(v))>>
      [] type = "DBD_MODIFY_CLUSTERS" ->
           <<Call("cond", unpack_acct_cluster_cond(v)), Call("rec", unpack_acct_cluster_rec(v))>>
      [] type = "DBD_MODIFY_USERS" ->
           <<Call("cond", unpack_acct_user_cond(v)), Call("rec", unpack_acct_user_rec(v))>>

\* The two times are read with unpack_time, whose result is not looked at.
slurmdbd_pack_usage_msg(v, type) ==
    Always(<<Rec("rec", CASE type \in {"DBD_GET_ASSOC_USAGE", "DBD_GOT_ASSOC_USAGE"} ->
                               pack_acct_association_rec(v)
                          [] type \in {"DBD_GET_CLUSTER_USAGE", "DBD_GOT_CLUSTER_USAGE"} ->
                               pack_acct_cluster_rec(v)
                          [] type \in {"DBD_GET_WCKEY_USAGE", "DBD_GOT_WCKEY_USAGE"} ->
                               pack_acct_wckey_rec(v)),
             Time("start"), Time("end")>>)

slurmdbd_unpack_usage_msg(v, type) ==
    <<Call("rec", CASE type \in {"DBD_GET_ASSOC_USAGE", "DBD_GOT_ASSOC_USAGE"} ->
                         unpack_acct_association_rec(v)
                    [] type \in {"DBD_GET_CLUSTER_USAGE", "DBD_GOT_CLUSTER_USAGE"} ->
                         unpack_acct_cluster_rec(v)
                    [] type \in {"DBD_GET_WCKEY_USAGE", "DBD_GOT_WCKEY_USAGE"} ->
                         unpack_acct_wckey_rec(v)),
      Unchecked("", <<Time("start")>>), Unchecked("", <<Time("end")>>)>>

-----------------------------------------------------------------------------
(* The message types, by the function that packs them.                      *)

ListTypes   == {"DBD_ADD_ACCOUNTS", "DBD_ADD_ASSOCS", "DBD_ADD_CLUSTERS", "DBD_ADD_USERS",
                "DBD_GOT_ACCOUNTS", "DBD_GOT_ASSOCS", "DBD_GOT_CLUSTERS", "DBD_GOT_JOBS",
                "DBD_GOT_LIST", "DBD_ADD_QOS", "DBD_GOT_QOS", "DBD_GOT_RESVS", "DBD_ADD_WCKEYS",
                "DBD_GOT_WCKEYS", "DBD_GOT_TXN", "DBD_GOT_USERS", "DBD_GOT_CONFIG"}
CoordTypes  == {"DBD_ADD_ACCOUNT_COORDS", "DBD_REMOVE_ACCOUNT_COORDS"}
CondTypes   == {"DBD_GET_ACCOUNTS", "DBD_GET_ASSOCS", "DBD_GET_CLUSTERS", "DBD_GET_JOBS_COND",
                "DBD_GET_QOS", "DBD_GET_RESVS", "DBD_GET_WCKEYS", "DBD_GET_TXN", "DBD_GET_USERS",
                "DBD_REMOVE_ACCOUNTS", "DBD_REMOVE_ASSOCS", "DBD_REMOVE_CLUSTERS",
                "DBD_REMOVE_QOS", "DBD_REMOVE_WCKEYS", "DBD_REMOVE_USERS", "DBD_ARCHIVE_DUMP"}
UsageTypes  == {"DBD_GET_ASSOC_USAGE", "DBD_GOT_ASSOC_USAGE", "DBD_GET_CLUSTER_USAGE",
                "DBD_GOT_CLUSTER_USAGE", "DBD_GET_WCKEY_USAGE", "DBD_GOT_WCKEY_USAGE"}
ModifyTypes == {"DBD_MODIFY_ACCOUNTS", "DBD_MODIFY_ASSOCS", "DBD_MODIFY_CLUSTERS",
                "DBD_MODIFY_USERS"}
ResvTypes   == {"DBD_ADD_RESV", "DBD_REMOVE_RESV", "DBD_MODIFY_RESV"}
PlainTypes  == {"DBD_ARCHIVE_LOAD", "DBD_CLUSTER_PROCS", "DBD_FLUSH_JOBS", "DBD_GET_JOBS",
                "DBD_INIT", "DBD_FINI", "DBD_JOB_COMPLETE", "DBD_JOB_START", "DBD_ID_RC",
                "DBD_JOB_SUSPEND", "DBD_NODE_STATE", "DBD_RC", "DBD_STEP_COMPLETE",
                "DBD_STEP_START", "DBD_REGISTER_CTLD", "DBD_ROLL_USAGE", "DBD_GET_CONFIG"}
MsgTypes == ListTypes \cup CoordTypes \cup CondTypes \cup UsageTypes \cup ModifyTypes
              \cup ResvTypes \cup PlainTypes

pack_slurmdbd_msg(v, type) ==
    CASE type \in ListTypes   -> slurmdbd_pack_list_msg(v, type)
      [] type \in CoordTypes  -> slurmdbd_pack_acct_coord_msg(v)
      [] type = "DBD_ARCHIVE_LOAD" -> pack_acct_archive_rec(v)
      [] type \in {"DBD_CLUSTER_PROCS", "DBD_FLUSH_JOBS"} -> slurmdbd_pack_cluster_procs_msg(v)
      [] type \in CondTypes   -> slurmdbd_pack_cond_msg(v, type)
      [] type \in UsageTypes  -> slurmdbd_pack_usage_msg(v, type)
      [] type = "DBD_GET_JOBS" -> slurmdbd_pack_get_jobs_msg(v)
      [] type = "DBD_INIT"     -> slurmdbd_pack_init_msg(v)
      [] type = "DBD_FINI"     -> slurmdbd_pack_fini_msg(v)
      [] type = "DBD_JOB_COMPLETE" -> slurmdbd_pack_job_complete_msg(v)
      [] type = "DBD_JOB_START" -> slurmdbd_pack_job_start_msg(v)
      [] type = "DBD_ID_RC"    -> slurmdbd_pack_id_rc_msg(v)
      [] type = "DBD_JOB_SUSPEND" -> slurmdbd_pack_job_suspend_msg(v)
      [] type \in ModifyTypes -> slurmdbd_pack_modify_msg(v, type)
      [] type = "DBD_NODE_STATE" -> slurmdbd_pack_node_state_msg(v)
      [] type = "DBD_RC"       -> slurmdbd_pack_rc_msg(v)
      [] type = "DBD_STEP_COMPLETE" -> slurmdbd_pack_step_complete_msg(v)
      [] type = "DBD_STEP_START" -> slurmdbd_pack_step_start_msg(v)
      [] type = "DBD_REGISTER_CTLD" -> slurmdbd_pack_register_ctld_msg(v)
      [] type = "DBD_ROLL_USAGE" -> slurmdbd_pack_roll_usage_msg(v)
      [] type \in ResvTypes   -> slurmdbd_pack_rec_msg(v, type)
      [] type = "DBD_GET_CONFIG" -> Always(<<>>)

unpack_slurmdbd_msg(v, type) ==
    CASE type \in ListTypes   -> slurmdbd_unpack_list_msg(v, type)
      [] type \in CoordTypes  -> slurmdbd_unpack_acct_coord_msg(v)
      [] type = "DBD_ARCHIVE_LOAD" -> unpack_acct_archive_rec(v)
      [] type \in {"DBD_CLUSTER_PROCS", "DBD_FLUSH_JOBS"} -> slurmdbd_unpack_cluster_procs_msg(v)
      [] type \in CondTypes   -> slurmdbd_unpack_cond_msg(v, type)
      [] type \in UsageTypes  -> slurmdbd_unpack_usage_msg(v, type)
      [] type = "DBD_GET_JOBS" -> slurmdbd_unpack_get_jobs_msg(v)
      [] type = "DBD_INIT"     -> slurmdbd_unpack_init_msg(v)
      [] type = "DBD_FINI"     -> slurmdbd_unpack_fini_msg(v)
      [] type = "DBD_JOB_COMPLETE" -> slurmdbd_unpack_job_complete_msg(v)
      [] type = "DBD_JOB_START" -> slurmdbd_unpack_job_start_msg(v)
      [] type = "DBD_ID_RC"    -> slurmdbd_unpack_id_rc_msg(v)
      [] type = "DBD_JOB_SUSPEND" -> slurmdbd_unpack_job_suspend_msg(v)
      [] type \in ModifyTypes -> slurmdbd_unpack_modify_msg(v, type)
      [] type = "DBD_NODE_STATE" -> slurmdbd_unpack_node_state_msg(v)
      [] type = "DBD_RC"       -> slurmdbd_unpack_rc_msg(v)
      [] type = "DBD_STEP_COMPLETE" -> slurmdbd_unpack_step_complete_msg(v)
      [] type = "DBD_STEP_START" -> slurmdbd_unpack_step_start_msg(v)
      [] type = "DBD_REGISTER_CTLD" -> slurmdbd_unpack_register_ctld_msg(v)
      [] type = "DBD_ROLL_USAGE" -> slurmdbd_unpack_roll_usage_msg(v)
      [] type \in ResvTypes   -> slurmdbd_unpack_rec_msg(v, type)
      [] type = "DBD_GET_CONFIG" -> <<>>

=============================================================================
