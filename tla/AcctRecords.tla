---------------------------- MODULE AcctRecords ----------------------------
(***************************************************************************)
(* What the pack and unpack functions of the accounting objects pack and   *)
(* unpack, in order, for the RPC version v of the peer: users, accounts,   *)
(* associations, QOS, wckeys, reservations, transactions and the           *)
(* conditions of queries (common/slurm_accounting_storage.c), jobs, steps  *)
(* and their statistics (common/jobacct_common.c).  Wire says what the     *)
(* items mean.                                                             *)
(***************************************************************************)
EXTENDS Wire

pack_jobacct_id(v) ==
    Always(<<U32("nodeid"), U16("taskid")>>)

unpack_jobacct_id(v) ==
    <<U32("nodeid"), U16("taskid")>>

pack_sacct(v) ==
    Always(<<U32("max_vsize"), U32("ave_vsize"), U32("max_rss"), U32("ave_rss"), U32("max_pages"),
      U32("ave_pages"), U32("min_cpu"), U32("ave_cpu"), Part("max_vsize_id", pack_jobacct_id(v)),
      Part("max_rss_id", pack_jobacct_id(v)), Part("max_pages_id", pack_jobacct_id(v)),
      Part("min_cpu_id", pack_jobacct_id(v))>>)

unpack_sacct(v) ==
    <<U32("max_vsize"), U32("ave_vsize"), U32("max_rss"), U32("ave_rss"), U32("max_pages"),
      U32("ave_pages"), U32("min_cpu"), U32("ave_cpu"), Call("max_vsize_id", unpack_jobacct_id(v)),
      Call("max_rss_id", unpack_jobacct_id(v)), Call("max_pages_id", unpack_jobacct_id(v)),
      Call("min_cpu_id", unpack_jobacct_id(v))>>

pack_jobacct_step_rec(v) ==
    CASE v >= 5 ->
          Always(<<U32("elapsed"), Time("end"), U32("exitcode"), U32("ncpus"), U32("nnodes"),
            Str("nodes"), U32("ntasks"), U32("requid"), Part("sacct", pack_sacct(v)),
            Time("start"), U16("state"), U32("stepid"), Str("stepname"), U32("suspended"),
            U32("sys_cpu_sec"), U32("sys_cpu_usec"), U16("task_dist"), U32("tot_cpu_sec"),
            U32("tot_cpu_usec"), U32("user_cpu_sec"), U32("user_cpu_usec")>>)
      [] OTHER ->
          Always(<<U32("elapsed"), Time("end"), U32("exitcode"), NV, U32("ncpus"),
            Str("nodes"), U32("requid"), Part("sacct", pack_sacct(v)), Time("start"),
            U16("state"), U32("stepid"), Str("stepname"), U32("suspended"), U32("sys_cpu_sec"),
            U32("sys_cpu_usec"), U32("tot_cpu_sec"), U32("tot_cpu_usec"), U32("user_cpu_sec"),
            U32("user_cpu_usec")>>)

pack_jobacct_job_rec_v5(v) ==
    Always(<<U32("alloc_cpus"), U32("alloc_nodes"), U32("associd"), Str("account"),
      Str("blockid"), Str("cluster"), U32("elapsed"), Time("eligible"), Time("end"),
      U32("exitcode"), U32("gid"), U32("jobid"), Str("jobname"), U32("lft"), Str("partition"),
      Str("nodes"), U32("priority"), U16("qos"), U32("resvid"), U32("req_cpus"), U32("requid"),
      Part("sacct", pack_sacct(v)), U32("show_full"), Time("start"), U16("state"),
      List("steps", {Zero}, pack_jobacct_step_rec(v).full), Time("submit"), U32("suspended"),
      U32("sys_cpu_sec"), U32("sys_cpu_usec"), U32("timelimit"), U32("tot_cpu_sec"),
      U32("tot_cpu_usec"), U16("track_steps"), U32("uid"), Str("user"), U32("user_cpu_sec"),
      U32("user_cpu_usec"), Str("wckey"), U32("wckeyid")>>)

pack_jobacct_job_rec_v4(v) ==
    Always(<<U32("alloc_cpus"), U32("associd"), Str("account"), Str("blockid"), Str("cluster"),
      U32("elapsed"), Time("eligible"), Time("end"), U32("exitcode"), U32("gid"), U32("jobid"),
      Str("jobname"), U32("lft"), Str("partition"), Str("nodes"), U32("priority"), U16("qos"),
      U32("req_cpus"), U32("requid"), Part("sacct", pack_sacct(v)), U32("show_full"),
      Time("start"), U16("state"), List("steps", {Zero}, pack_jobacct_step_rec(v).full),
      Time("submit"), U32("suspended"), U32("sys_cpu_sec"), U32("sys_cpu_usec"),
      U32("tot_cpu_sec"), U32("tot_cpu_usec"), U16("track_steps"), U32("uid"), Str("user"),
      U32("user_cpu_sec"), U32("user_cpu_usec"), Str("wckey"), U32("wckeyid")>>)

pack_jobacct_job_rec_older(v) ==
    Always(<<U32("alloc_cpus"), U32("associd"), Str("account"), Str("blockid"), Str("cluster"),
      U32("elapsed"), Time("eligible"), Time("end"), U32("exitcode"), U32("gid"), U32("jobid"),
      Str("jobname"), U32("lft"), Str("partition"), Str("nodes"), U32("priority"), U16("qos"),
      U32("req_cpus"), U32("requid"), Part("sacct", pack_sacct(v)), U32("show_full"),
      Time("start"), U16("state"), List("steps", {Zero}, pack_jobacct_step_rec(v).full),
      Time("submit"), U32("suspended"), U32("sys_cpu_sec"), U32("sys_cpu_usec"),
      U32("tot_cpu_sec"), U32("tot_cpu_usec"), U16("track_steps"), U32("uid"), Str("user"),
      U32("user_cpu_sec"), U32("user_cpu_usec")>>)

pack_jobacct_job_rec(v) ==
    CASE v >= 5 -> pack_jobacct_job_rec_v5(v)
      [] v >= 4 -> pack_jobacct_job_rec_v4(v)
      [] OTHER -> pack_jobacct_job_rec_older(v)

unpack_jobacct_step_rec(v) ==
    CASE v >= 5 ->
          <<U32("elapsed"), Time("end"), U32("exitcode"), U32("ncpus"), U32("nnodes"),
            Str("nodes"), U32("ntasks"), U32("requid"), Unchecked("sacct", unpack_sacct(v)),
            Time("start"), U16("state"), U32("stepid"), Str("stepname"), U32("suspended"),
            U32("sys_cpu_sec"), U32("sys_cpu_usec"), U16("task_dist"), U32("tot_cpu_sec"),
            U32("tot_cpu_usec"), U32("user_cpu_sec"), U32("user_cpu_usec")>>
      [] OTHER ->
          <<U32("elapsed"), Time("end"), U32("exitcode"), Skip32, U32("ncpus"), Str("nodes"),
            U32("requid"), Unchecked("sacct", unpack_sacct(v)), Time("start"), U16("state"),
            U32("stepid"), Str("stepname"), U32("suspended"), U32("sys_cpu_sec"),
            U32("sys_cpu_usec"), U32("tot_cpu_sec"), U32("tot_cpu_usec"), U32("user_cpu_sec"),
            U32("user_cpu_usec")>>

unpack_jobacct_job_rec_v5(v) ==
    <<U32("alloc_cpus"), U32("alloc_nodes"), U32("associd"), Str("account"), Str("blockid"),
      Str("cluster"), U32("elapsed"), Time("eligible"), Time("end"), U32("exitcode"), U32("gid"),
      U32("jobid"), Str("jobname"), U32("lft"), Str("partition"), Str("nodes"), U32("priority"),
      U16("qos"), U32("resvid"), U32("req_cpus"), U32("requid"),
      Overwritten("sacct", pack_sacct(v)), U32("show_full"), Time("start"), U16("state"),
      List("steps", {}, <<Unchecked("", unpack_jobacct_step_rec(v))>>), Time("submit"),
      U32("suspended"), U32("sys_cpu_sec"), U32("sys_cpu_usec"), U32("timelimit"),
      U32("tot_cpu_sec"), U32("tot_cpu_usec"), U16("track_steps"), U32("uid"), Str("user"),
      U32("user_cpu_sec"), U32("user_cpu_usec"), Str("wckey"), U32("wckeyid")>>

unpack_jobacct_job_rec_v4(v) ==
    <<U32("alloc_cpus"), U32("associd"), Str("account"), Str("blockid"), Str("cluster"),
      U32("elapsed"), Time("eligible"), Time("end"), U32("exitcode"), U32("gid"), U32("jobid"),
      Str("jobname"), U32("lft"), Str("partition"), Str("nodes"), U32("priority"), U16("qos"),
      U32("req_cpus"), U32("requid"), Overwritten("sacct", pack_sacct(v)), U32("show_full"),
      Time("start"), U16("state"),
      List("steps", {}, <<Unchecked("", unpack_jobacct_step_rec(v))>>), Time("submit"),
      U32("suspended"), U32("sys_cpu_sec"), U32("sys_cpu_usec"), U32("tot_cpu_sec"),
      U32("tot_cpu_usec"), U16("track_steps"), U32("uid"), Str("user"), U32("user_cpu_sec"),
      U32("user_cpu_usec"), Str("wckey"), U32("wckeyid")>>

unpack_jobacct_job_rec_older(v) ==
    <<U32("alloc_cpus"), U32("associd"), Str("account"), Str("blockid"), Str("cluster"),
      U32("elapsed"), Time("eligible"), Time("end"), U32("exitcode"), U32("gid"), U32("jobid"),
      Str("jobname"), U32("lft"), Str("partition"), Str("nodes"), U32("priority"), U16("qos"),
      U32("req_cpus"), U32("requid"), Overwritten("sacct", pack_sacct(v)), U32("show_full"),
      Time("start"), U16("state"),
      List("steps", {}, <<Unchecked("", unpack_jobacct_step_rec(v))>>), Time("submit"),
      U32("suspended"), U32("sys_cpu_sec"), U32("sys_cpu_usec"), U32("tot_cpu_sec"),
      U32("tot_cpu_usec"), U16("track_steps"), U32("uid"), Str("user"), U32("user_cpu_sec"),
      U32("user_cpu_usec")>>

unpack_jobacct_job_rec(v) ==
    CASE v >= 5 -> unpack_jobacct_job_rec_v5(v)
      [] v >= 4 -> unpack_jobacct_job_rec_v4(v)
      [] OTHER -> unpack_jobacct_job_rec_older(v)

pack_jobacct_selected_step(v) ==
    Always(<<U32("jobid"), U32("stepid")>>)

unpack_jobacct_selected_step(v) ==
    <<U32("jobid"), U32("stepid")>>

jobacct_common_pack(v) ==
    Object(<<U32("user_cpu_sec"), U32("user_cpu_usec"), U32("sys_cpu_sec"), U32("sys_cpu_usec"),
      U32("max_vsize"), U32("tot_vsize"), U32("max_rss"), U32("tot_rss"), U32("max_pages"),
      U32("tot_pages"), U32("min_cpu"), U32("tot_cpu"), Part("max_vsize_id", pack_jobacct_id(v)),
      Part("max_rss_id", pack_jobacct_id(v)), Part("max_pages_id", pack_jobacct_id(v)),
      Part("min_cpu_id", pack_jobacct_id(v))>>,
           Rep(16, Z32) \o Rep(4, Z16))

jobacct_common_unpack(v) ==
    <<U32("user_cpu_sec"), U32("user_cpu_usec"), U32("sys_cpu_sec"), U32("sys_cpu_usec"),
      U32("max_vsize"), U32("tot_vsize"), U32("max_rss"), U32("tot_rss"), U32("max_pages"),
      U32("tot_pages"), U32("min_cpu"), U32("tot_cpu"), Call("max_vsize_id", unpack_jobacct_id(v)),
      Call("max_rss_id", unpack_jobacct_id(v)), Call("max_pages_id", unpack_jobacct_id(v)),
      Call("min_cpu_id", unpack_jobacct_id(v))>>

pack_acct_coord_rec(v) ==
    Object(<<Str("name"), U16("direct")>>,
           <<Null, Z16>>)

pack_acct_accounting_rec(v) ==
    Object(<<U64("alloc_secs"), U32("id"), Time("period_start")>>,
           <<Z64, Z32, ZT>>)

pack_acct_association_rec_v4(v) ==
    Object(<<Recs("accounting_list", pack_acct_accounting_rec(v)), Str("acct"), Str("cluster"),
      U32("shares_raw"), U64("grp_cpu_mins"), U32("grp_cpus"), U32("grp_jobs"), U32("grp_nodes"),
      U32("grp_submit_jobs"), U32("grp_wall"), U32("id"), U32("lft"), U64("max_cpu_mins_pj"),
      U32("max_cpus_pj"), U32("max_jobs"), U32("max_nodes_pj"), U32("max_submit_jobs"),
      U32("max_wall_pj"), Str("parent_acct"), U32("parent_id"), Str("partition"),
      Strs("qos_list"), U32("rgt"), U32("uid"), Str("user")>>,
           <<NV, Null, Null, NV, NV64>> \o Rep(5, NV) \o <<Z32, Z32, NV64>> \o Rep(5, NV) \o
      <<Null, Z32, Null, NV, Z32, Z32, Null>>)

pack_acct_association_rec_v3(v) ==
    Object(<<Recs("accounting_list", pack_acct_accounting_rec(v)), Str("acct"), Str("cluster"),
      U32("shares_raw"), U64("grp_cpu_mins"), U32("grp_cpus"), U32("grp_jobs"), U32("grp_nodes"),
      U32("grp_submit_jobs"), U32("grp_wall"), U32("id"), U32("lft"), U64("max_cpu_mins_pj"),
      U32("max_cpus_pj"), U32("max_jobs"), U32("max_nodes_pj"), U32("max_submit_jobs"),
      U32("max_wall_pj"), Str("parent_acct"), U32("parent_id"), Str("partition"),
      Strs("qos_list"), U32("rgt"), U32("uid"), Z32, Str("user")>>,
           <<NV, Null, Null, NV, NV64>> \o Rep(5, NV) \o <<Z32, Z32, NV64>> \o Rep(5, NV) \o
      <<Null, Z32, Null, NV, Z32, Z32, Z32, Null>>)

pack_acct_association_rec_older(v) ==
    Object(<<Recs("accounting_list", pack_acct_accounting_rec(v)), Str("acct"), Str("cluster"),
      U32("shares_raw"), U32("id"), U32("lft"), U32("max_cpu_mins_pj"), U32("max_jobs"),
      U32("max_nodes_pj"), U32("max_wall_pj"), Str("parent_acct"), U32("parent_id"),
      Str("partition"), U32("rgt"), U32("uid"), Z32, Str("user")>>,
           <<NV, Null, Null, NV, Z32, Z32>> \o Rep(4, NV) \o <<Null, Z32, Null, Z32, Z32, Z32,
      Null>>)

pack_acct_association_rec(v) ==
    CASE v >= 4 -> pack_acct_association_rec_v4(v)
      [] v = 3 -> pack_acct_association_rec_v3(v)
      [] OTHER -> pack_acct_association_rec_older(v)

pack_acct_wckey_rec(v) ==
    Object(<<Recs("accounting_list", pack_acct_accounting_rec(v)), Str("cluster"), U32("id"),
      Str("name"), U32("uid"), Str("user")>>,
           <<NV, Null, NV, Null, NV, Null>>)

pack_acct_user_rec_v4(v) ==
    Object(<<U16("admin_level"), Recs("assoc_list", pack_acct_association_rec(v)),
      Recs("coord_accts", pack_acct_coord_rec(v)), Str("default_acct"), Str("default_wckey"),
      Str("name"), U32("uid"), Recs("wckey_list", pack_acct_wckey_rec(v))>>,
           <<Z16, NV, NV, Null, Null, Null, Z32, NV>>)

pack_acct_user_rec_v3(v) ==
    Object(<<U16("admin_level"), Recs("assoc_list", pack_acct_association_rec(v)),
      Recs("coord_accts", pack_acct_coord_rec(v)), Str("default_acct"), Str("name"), U32("uid")>>,
           <<Z16, NV, NV, Null, Null, Z32>>)

pack_acct_user_rec_older(v) ==
    Object(<<U16("admin_level"), Recs("assoc_list", pack_acct_association_rec(v)),
      Recs("coord_accts", pack_acct_coord_rec(v)), Str("default_acct"), Str("name"), NV,
      U32("uid")>>,
           <<Z16, NV, NV, Null, Null, NV, Z32>>)

pack_acct_user_rec(v) ==
    CASE v >= 4 -> pack_acct_user_rec_v4(v)
      [] v >= 3 -> pack_acct_user_rec_v3(v)
      [] OTHER -> pack_acct_user_rec_older(v)

unpack_acct_coord_rec(v) ==
    <<Str("name"), U16("direct")>>

unpack_acct_accounting_rec(v) ==
    <<U64("alloc_secs"), U32("id"), Time("period_start")>>

unpack_acct_association_rec_v4(v) ==
    <<RecsOf("accounting_list", unpack_acct_accounting_rec(v)), Str("acct"), Str("cluster"),
      U32("shares_raw"), U64("grp_cpu_mins"), U32("grp_cpus"), U32("grp_jobs"), U32("grp_nodes"),
      U32("grp_submit_jobs"), U32("grp_wall"), U32("id"), U32("lft"), U64("max_cpu_mins_pj"),
      U32("max_cpus_pj"), U32("max_jobs"), U32("max_nodes_pj"), U32("max_submit_jobs"),
      U32("max_wall_pj"), Str("parent_acct"), U32("parent_id"), Str("partition"),
      Strs("qos_list"), U32("rgt"), U32("uid"), Str("user")>>

unpack_acct_association_rec_v3(v) ==
    <<RecsOf("accounting_list", unpack_acct_accounting_rec(v)), Str("acct"), Str("cluster"),
      U32("shares_raw"), U64("grp_cpu_mins"), U32("grp_cpus"), U32("grp_jobs"), U32("grp_nodes"),
      U32("grp_submit_jobs"), U32("grp_wall"), U32("id"), U32("lft"), U64("max_cpu_mins_pj"),
      U32("max_cpus_pj"), U32("max_jobs"), U32("max_nodes_pj"), U32("max_submit_jobs"),
      U32("max_wall_pj"), Str("parent_acct"), U32("parent_id"), Str("partition"),
      Strs("qos_list"), U32("rgt"), U32("uid"), Skip32, Str("user")>>

unpack_acct_association_rec_older(v) ==
    <<RecsOf("accounting_list", unpack_acct_accounting_rec(v)), Str("acct"), Str("cluster"),
      U32("shares_raw"), U32("id"), U32("lft"), U32("max_cpu_mins_pj"), U32("max_jobs"),
      U32("max_nodes_pj"), U32("max_wall_pj"), Str("parent_acct"), U32("parent_id"),
      Str("partition"), U32("rgt"), U32("uid"), Skip32, Str("user")>>

unpack_acct_association_rec(v) ==
    CASE v >= 4 -> unpack_acct_association_rec_v4(v)
      [] v >= 3 -> unpack_acct_association_rec_v3(v)
      [] OTHER -> unpack_acct_association_rec_older(v)

unpack_acct_wckey_rec(v) ==
    <<RecsOf("accounting_list", unpack_acct_accounting_rec(v)), Str("cluster"), U32("id"),
      Str("name"), U32("uid"), Str("user")>>

unpack_acct_user_rec(v) ==
    CASE v >= 4 ->
          <<U16("admin_level"), RecsOf("assoc_list", unpack_acct_association_rec(v)),
            RecsOf("coord_accts", unpack_acct_coord_rec(v)), Str("default_acct"),
            Str("default_wckey"), Str("name"), U32("uid"),
            RecsOf("wckey_list", unpack_acct_wckey_rec(v))>>
      [] v >= 3 ->
          <<U16("admin_level"), RecsOf("assoc_list", unpack_acct_association_rec(v)),
            RecsOf("coord_accts", unpack_acct_coord_rec(v)), Str("default_acct"), Str("name"),
            U32("uid")>>
      [] OTHER ->
          <<U16("admin_level"), RecsOf("assoc_list", unpack_acct_association_rec(v)),
            RecsOf("coord_accts", unpack_acct_coord_rec(v)), Str("default_acct"), Str("name"),
            Strs(""), U32("uid")>>

pack_acct_used_limits(v) ==
    Object(<<U64("cpu_mins"), U32("cpus"), U32("jobs"), U32("nodes"), U32("submit_jobs"),
      U32("wall"), U32("uid")>>,
           <<Z64>> \o Rep(6, Z32))

unpack_acct_used_limits(v) ==
    <<U64("cpu_mins"), U32("cpus"), U32("jobs"), U32("nodes"), U32("submit_jobs"), U32("wall"),
      U32("uid")>>

pack_acct_account_rec(v) ==
    CASE v >= 3 ->
          Object(<<Recs("assoc_list", pack_acct_association_rec(v)),
            Recs("coordinators", pack_acct_coord_rec(v)), Str("description"), Str("name"),
            Str("organization")>>,
                 <<NV, NV, Null, Null, Null>>)
      [] OTHER ->
          Object(<<Recs("assoc_list", pack_acct_association_rec(v)),
            Recs("coordinators", pack_acct_coord_rec(v)), Str("description"), Str("name"),
            Str("organization"), NV>>,
                 <<NV, NV, Null, Null, Null, NV>>)

unpack_acct_account_rec(v) ==
    CASE v >= 3 ->
          <<RecsOf("assoc_list", unpack_acct_association_rec(v)),
            RecsOf("coordinators", unpack_acct_coord_rec(v)), Str("description"), Str("name"),
            Str("organization")>>
      [] OTHER ->
          <<RecsOf("assoc_list", unpack_acct_association_rec(v)),
            RecsOf("coordinators", unpack_acct_coord_rec(v)), Str("description"), Str("name"),
            Str("organization"), Strs("")>>

pack_cluster_accounting_rec(v) ==
    CASE v >= 5 ->
          Object(<<U64("alloc_secs"), U32("cpu_count"), U64("down_secs"), U64("idle_secs"),
            U64("over_secs"), U64("pdown_secs"), Time("period_start"), U64("resv_secs")>>,
                 <<Z64, Z32>> \o Rep(4, Z64) \o <<ZT, Z64>>)
      [] OTHER ->
          Object(<<U64("alloc_secs"), U32("cpu_count"), U64("down_secs"), U64("idle_secs"),
            U64("over_secs"), Time("period_start"), U64("resv_secs")>>,
                 <<Z64, Z32, Z64, Z64, Z64, ZT, Z64>>)

unpack_cluster_accounting_rec(v) ==
    CASE v >= 5 ->
          <<U64("alloc_secs"), U32("cpu_count"), U64("down_secs"), U64("idle_secs"),
            U64("over_secs"), U64("pdown_secs"), Time("period_start"), U64("resv_secs")>>
      [] OTHER ->
          <<U64("alloc_secs"), U32("cpu_count"), U64("down_secs"), U64("idle_secs"),
            U64("over_secs"), Time("period_start"), U64("resv_secs")>>

\* The limits of the root association, all that version 2 knows of it.
RootLimits ==
    Object(<<U32("shares_raw"), U32("max_cpu_mins_pj"), U32("max_jobs"), U32("max_nodes_pj"),
             U32("max_wall_pj")>>, Rep(5, NV))

pack_acct_cluster_rec(v) ==
    CASE v >= 5 ->
          Object(<<Recs("accounting_list", pack_cluster_accounting_rec(v)), U16("classification"),
            Str("control_host"), U32("control_port"), U32("cpu_count"), Str("name"), Str("nodes"),
            Rec("root_assoc", pack_acct_association_rec(v)), U16("rpc_version")>>,
                 <<NV, Z16, Null, Z32, Z32, Null, Null>> \o pack_acct_association_rec(v).null \o
            <<Z16>>)
      [] v >= 3 ->
          Object(<<Recs("accounting_list", pack_cluster_accounting_rec(v)), Str("control_host"),
            U32("control_port"), Str("name"), NV, Rec("root_assoc", pack_acct_association_rec(v)),
            U16("rpc_version")>>,
                 <<NV, Null, Z32, Null, NV>> \o pack_acct_association_rec(v).null \o <<Z16>>)
      [] OTHER ->
          Object(<<Recs("accounting_list", pack_cluster_accounting_rec(v)), Str("control_host"),
            U32("control_port"), Rec("root_assoc", RootLimits), Str("name")>>,
                 <<NV, Null, Z32>> \o Rep(5, NV) \o <<Null, Z16>>)

unpack_acct_cluster_rec(v) ==
    CASE v >= 5 ->
          <<List("accounting_list", {NO_VAL}, <<Unchecked("", unpack_cluster_accounting_rec(v))>>),
            U16("classification"), Str("control_host"), U32("control_port"), U32("cpu_count"),
            Str("name"), Str("nodes"), Call("root_assoc", unpack_acct_association_rec(v)),
            U16("rpc_version")>>
      [] v >= 3 ->
          <<List("accounting_list", {NO_VAL}, <<Unchecked("", unpack_cluster_accounting_rec(v))>>),
            Str("control_host"), U32("control_port"), Str("name"), Skip32,
            Call("root_assoc", unpack_acct_association_rec(v)), U16("rpc_version")>>
      [] OTHER ->
          <<List("accounting_list", {NO_VAL}, <<Unchecked("", unpack_cluster_accounting_rec(v))>>),
            Str("control_host"), U32("control_port"), Call("root_assoc", RootLimits.full),
            Str("name")>>

pack_acct_qos_rec_v5(v) ==
    Object(<<Str("description"), U32("id"), U64("grp_cpu_mins"), U32("grp_cpus"), U32("grp_jobs"),
      U32("grp_nodes"), U32("grp_submit_jobs"), U32("grp_wall"), U64("max_cpu_mins_pu"),
      U32("max_cpus_pu"), U32("max_jobs_pu"), U32("max_nodes_pu"), U32("max_submit_jobs_pu"),
      U32("max_wall_pu"), Str("name"), Strs("preemptee_list"), Strs("preemptor_list"),
      U32("priority"), Dbl("usage_factor"), Recs("user_limit_list", pack_acct_used_limits(v))>>,
           <<Null, Z32, Null, NV64>> \o Rep(5, NV) \o <<NV64>> \o Rep(5, NV) \o <<Null, NV, NV,
      Z32, NV64, NV>>)

pack_acct_qos_rec_v3(v) ==
    Object(<<Str("description"), U32("id"), U64("grp_cpu_mins"), U32("grp_cpus"), U32("grp_jobs"),
      U32("grp_nodes"), U32("grp_submit_jobs"), U32("grp_wall"), U64("max_cpu_mins_pu"),
      U32("max_cpus_pu"), U32("max_jobs_pu"), U32("max_nodes_pu"), U32("max_submit_jobs_pu"),
      U32("max_wall_pu"), Str("name"), Strs("preemptee_list"), Strs("preemptor_list"),
      U32("priority"), Recs("user_limit_list", pack_acct_used_limits(v))>>,
           <<Null, Z32, Null, NV64>> \o Rep(5, NV) \o <<NV64>> \o Rep(5, NV) \o <<Null, NV, NV,
      Z32, NV>>)

pack_acct_qos_rec_older(v) ==
    Object(<<Str("description"), U32("id"), Str("name")>>,
           <<Null, Z32, Null>>)

pack_acct_qos_rec(v) ==
    CASE v >= 5 -> pack_acct_qos_rec_v5(v)
      [] v >= 3 -> pack_acct_qos_rec_v3(v)
      [] OTHER -> pack_acct_qos_rec_older(v)

unpack_acct_qos_rec(v) ==
    CASE v >= 5 ->
          <<Str("description"), U32("id"), U64("grp_cpu_mins"), U32("grp_cpus"), U32("grp_jobs"),
            U32("grp_nodes"), U32("grp_submit_jobs"), U32("grp_wall"), U64("max_cpu_mins_pu"),
            U32("max_cpus_pu"), U32("max_jobs_pu"), U32("max_nodes_pu"),
            U32("max_submit_jobs_pu"), U32("max_wall_pu"), Str("name"), Strs("preemptee_list"),
            Strs("preemptor_list"), U32("priority"), Dbl("usage_factor"),
            List("user_limit_list", {NO_VAL}, <<Unchecked("", unpack_acct_used_limits(v))>>)>>
      [] v >= 3 ->
          <<Str("description"), U32("id"), U64("grp_cpu_mins"), U32("grp_cpus"), U32("grp_jobs"),
            U32("grp_nodes"), U32("grp_submit_jobs"), U32("grp_wall"), U64("max_cpu_mins_pu"),
            U32("max_cpus_pu"), U32("max_jobs_pu"), U32("max_nodes_pu"),
            U32("max_submit_jobs_pu"), U32("max_wall_pu"), Str("name"), Strs("preemptee_list"),
            Strs("preemptor_list"), U32("priority"),
            List("user_limit_list", {NO_VAL}, <<Unchecked("", unpack_acct_used_limits(v))>>)>>
      [] OTHER ->
          <<Str("description"), U32("id"), Str("name")>>

pack_acct_reservation_rec(v) ==
    Object(<<U64("alloc_secs"), Str("assocs"), Str("cluster"), U32("cpus"), U64("down_secs"),
      U16("flags"), U32("id"), Str("name"), Str("nodes"), Str("node_inx"), Time("time_end"),
      Time("time_start"), Time("time_start_prev")>>,
           <<Z64, Null, Null, NV, Z64, NV16, Z32, Null, Null, Null, ZT, ZT, ZT>>)

unpack_acct_reservation_rec(v) ==
    <<U64("alloc_secs"), Str("assocs"), Str("cluster"), U32("cpus"), U64("down_secs"),
      U16("flags"), U32("id"), Str("name"), Str("nodes"), Str("node_inx"), Time("time_end"),
      Time("time_start"), Time("time_start_prev")>>

pack_acct_txn_rec(v) ==
    CASE v >= 3 ->
          Object(<<Str("accts"), U16("action"), Str("actor_name"), Str("clusters"), U32("id"),
            Str("set_info"), Time("timestamp"), Str("users"), Str("where_query")>>,
                 <<Null, Z16, Null, Null, Z32, Null, ZT, Null, Null>>)
      [] OTHER ->
          Object(<<U16("action"), Str("actor_name"), U32("id"), Str("set_info"),
            Time("timestamp"), Str("where_query")>>,
                 <<Z16, Null, Z32, Null, ZT, Null>>)

unpack_acct_txn_rec(v) ==
    CASE v >= 3 ->
          <<Str("accts"), U16("action"), Str("actor_name"), Str("clusters"), U32("id"),
            Str("set_info"), Time("timestamp"), Str("users"), Str("where_query")>>
      [] OTHER ->
          <<U16("action"), Str("actor_name"), U32("id"), Str("set_info"), Time("timestamp"),
            Str("where_query")>>

pack_acct_archive_rec(v) ==
    Object(<<Str("archive_file"), Str("insert")>>,
           <<Null, Null>>)

unpack_acct_archive_rec(v) ==
    <<Str("archive_file"), Str("insert")>>

pack_acct_association_cond_v5_rest ==
    <<Strs("id_list"), Strs("max_cpu_mins_pj_list"), Strs("max_cpus_pj_list"),
      Strs("max_jobs_list"), Strs("max_nodes_pj_list"), Strs("max_submit_jobs_list"),
      Strs("max_wall_pj_list"), Strs("partition_list"), Strs("parent_acct_list"),
      Strs("qos_list"), Time("usage_end"), Time("usage_start"), Strs("user_list"),
      U16("with_usage"), U16("with_deleted"), U16("with_raw_qos"), U16("with_sub_accts"),
      U16("without_parent_info"), U16("without_parent_limits")>>

pack_acct_association_cond_v5(v) ==
    Object(<<Strs("acct_list"), Strs("cluster_list"), Strs("fairshare_list"),
      Strs("grp_cpu_mins_list"), Strs("grp_cpus_list"), Strs("grp_jobs_list"),
      Strs("grp_nodes_list"), Strs("grp_submit_jobs_list"), Strs("grp_wall_list")>>
        \o pack_acct_association_cond_v5_rest,
           Rep(19, NV) \o <<ZT, ZT, NV>> \o Rep(6, Z16))

pack_acct_association_cond_v3_rest ==
    <<Strs("id_list"), Strs("max_cpu_mins_pj_list"), Strs("max_cpus_pj_list"),
      Strs("max_jobs_list"), Strs("max_nodes_pj_list"), Strs("max_submit_jobs_list"),
      Strs("max_wall_pj_list"), Strs("partition_list"), Strs("parent_acct_list"),
      Strs("qos_list"), U32("usage_end"), U32("usage_start"), Strs("user_list"),
      U16("with_usage"), U16("with_deleted"), U16("with_raw_qos"), U16("with_sub_accts"),
      U16("without_parent_info"), U16("without_parent_limits")>>

pack_acct_association_cond_v3(v) ==
    Object(<<Strs("acct_list"), Strs("cluster_list"), Strs("fairshare_list"),
      Strs("grp_cpu_mins_list"), Strs("grp_cpus_list"), Strs("grp_jobs_list"),
      Strs("grp_nodes_list"), Strs("grp_submit_jobs_list"), Strs("grp_wall_list")>>
        \o pack_acct_association_cond_v3_rest,
           Rep(19, NV) \o <<Z32, Z32, NV>> \o Rep(6, Z16))

pack_acct_association_cond_older(v) ==
    Object(<<Strs("acct_list"), Strs("cluster_list"), First32("fairshare_list"), Strs("id_list"),
      First32("max_cpu_mins_pj_list"), First32("max_jobs_list"), First32("max_nodes_pj_list"),
      First32("max_wall_pj_list"), Strs("partition_list"), FirstStr("parent_acct_list"),
      U32("usage_end"), U32("usage_start"), Strs("user_list"), U16("with_usage"),
      U16("with_deleted"), U16("without_parent_info"), U16("without_parent_limits")>>,
           Rep(9, NV) \o <<Null, Z32, Z32, NV>> \o Rep(4, Z16))

pack_acct_association_cond(v) ==
    CASE v >= 5 -> pack_acct_association_cond_v5(v)
      [] v >= 3 -> pack_acct_association_cond_v3(v)
      [] OTHER -> pack_acct_association_cond_older(v)

pack_acct_user_cond(v) ==
    CASE v >= 4 ->
          Object(<<U16("admin_level"), Rec("assoc_cond", pack_acct_association_cond(v)),
            Strs("def_acct_list"), Strs("def_wckey_list"), U16("with_assocs"), U16("with_coords"),
            U16("with_deleted"), U16("with_wckeys")>>,
                 <<Z16>> \o pack_acct_association_cond(v).null \o <<NV, NV>> \o Rep(4, Z16))
      [] v >= 3 ->
          Object(<<U16("admin_level"), Rec("assoc_cond", pack_acct_association_cond(v)),
            Strs("def_acct_list"), U16("with_assocs"), U16("with_coords"), U16("with_deleted")>>,
                 <<Z16>> \o pack_acct_association_cond(v).null \o <<NV, Z16, Z16, Z16>>)
      [] OTHER ->
          Object(<<U16("admin_level"), Rec("assoc_cond", pack_acct_association_cond(v)),
            Strs("def_acct_list"), NV, U16("with_assocs"), U16("with_coords"),
            U16("with_deleted")>>,
                 <<Z16>> \o pack_acct_association_cond(v).null \o <<NV, NV, Z16, Z16, Z16>>)

unpack_acct_association_cond_v5_rest ==
    <<Strs("id_list"),
      Strs("max_cpu_mins_pj_list"), Strs("max_cpus_pj_list"), Strs("max_jobs_list"),
      Strs("max_nodes_pj_list"), Strs("max_submit_jobs_list"), Strs("max_wall_pj_list"),
      Strs("partition_list"), Strs("parent_acct_list"), Strs("qos_list"), Time("usage_end"),
      Time("usage_start"), Strs("user_list"), U16("with_usage"), U16("with_deleted"),
      U16("with_raw_qos"), U16("with_sub_accts"), U16("without_parent_info"),
      U16("without_parent_limits")>>

unpack_acct_association_cond_v5(v) ==
    <<Strs("acct_list"), Strs("cluster_list"), Strs("fairshare_list"), Strs("grp_cpu_mins_list"),
      Strs("grp_cpus_list"), Strs("grp_jobs_list"), Strs("grp_nodes_list"),
      Strs("grp_submit_jobs_list"), Strs("grp_wall_list")>> \o unpack_acct_association_cond_v5_rest

unpack_acct_association_cond_v3_rest ==
    <<Strs("id_list"),
      Strs("max_cpu_mins_pj_list"), Strs("max_cpus_pj_list"), Strs("max_jobs_list"),
      Strs("max_nodes_pj_list"), Strs("max_submit_jobs_list"), Strs("max_wall_pj_list"),
      Strs("partition_list"), Strs("parent_acct_list"), Strs("qos_list"), U32("usage_end"),
      U32("usage_start"), Strs("user_list"), U16("with_usage"), U16("with_deleted"),
      U16("with_raw_qos"), U16("with_sub_accts"), U16("without_parent_info"),
      U16("without_parent_limits")>>

unpack_acct_association_cond_v3(v) ==
    <<Strs("acct_list"), Strs("cluster_list"), Strs("fairshare_list"), Strs("grp_cpu_mins_list"),
      Strs("grp_cpus_list"), Strs("grp_jobs_list"), Strs("grp_nodes_list"),
      Strs("grp_submit_jobs_list"), Strs("grp_wall_list")>> \o unpack_acct_association_cond_v3_rest

unpack_acct_association_cond_older(v) ==
    <<Strs("acct_list"), Strs("cluster_list"), First32("fairshare_list"),
      List("id_list", {Zero, NO_VAL}, <<Str("")>>), First32("max_cpu_mins_pj_list"),
      First32("max_jobs_list"), First32("max_nodes_pj_list"), First32("max_wall_pj_list"),
      Strs("partition_list"), FirstStr("parent_acct_list"), U32("usage_end"), U32("usage_start"),
      Strs("user_list"), U16("with_usage"), U16("with_deleted"), U16("without_parent_info"),
      U16("without_parent_limits")>>

unpack_acct_association_cond(v) ==
    CASE v >= 5 -> unpack_acct_association_cond_v5(v)
      [] v >= 3 -> unpack_acct_association_cond_v3(v)
      [] OTHER -> unpack_acct_association_cond_older(v)

unpack_acct_user_cond(v) ==
    CASE v >= 4 ->
          <<U16("admin_level"), Call("assoc_cond", unpack_acct_association_cond(v)),
            Strs("def_acct_list"), Strs("def_wckey_list"), U16("with_assocs"), U16("with_coords"),
            U16("with_deleted"), U16("with_wckeys")>>
      [] v >= 3 ->
          <<U16("admin_level"), Call("assoc_cond", unpack_acct_association_cond(v)),
            Strs("def_acct_list"), U16("with_assocs"), U16("with_coords"), U16("with_deleted")>>
      [] OTHER ->
          <<U16("admin_level"), Call("assoc_cond", unpack_acct_association_cond(v)),
            Strs("def_acct_list"), Skip32, U16("with_assocs"), U16("with_coords"),
            U16("with_deleted")>>

pack_acct_account_cond(v) ==
    CASE v >= 3 ->
          Object(<<Rec("assoc_cond", pack_acct_association_cond(v)), Strs("description_list"),
            Strs("organization_list"), U16("with_assocs"), U16("with_coords"),
            U16("with_deleted")>>,
                 pack_acct_association_cond(v).null \o <<NV, NV, Z16, Z16, Z16>>)
      [] OTHER ->
          Object(<<Rec("assoc_cond", pack_acct_association_cond(v)), Strs("description_list"),
            Strs("organization_list"), NV, U16("with_assocs"), U16("with_coords"),
            U16("with_deleted")>>,
                 pack_acct_association_cond(v).null \o <<NV, NV, NV, Z16, Z16, Z16>>)

unpack_acct_account_cond(v) ==
    CASE v >= 3 ->
          <<Call("assoc_cond", unpack_acct_association_cond(v)), Strs("description_list"),
            Strs("organization_list"), U16("with_assocs"), U16("with_coords"),
            U16("with_deleted")>>
      [] OTHER ->
          <<Call("assoc_cond", unpack_acct_association_cond(v)), Strs("description_list"),
            Strs("organization_list"), Skip32, U16("with_assocs"), U16("with_coords"),
            U16("with_deleted")>>

pack_acct_cluster_cond(v) ==
    CASE v >= 5 ->
          Object(<<U16("classification"), Strs("cluster_list"), Time("usage_end"),
            Time("usage_start"), U16("with_usage"), U16("with_deleted")>>,
                 <<Z16, NV, ZT, ZT, Z16, Z16>>)
      [] OTHER ->
          Object(<<Strs("cluster_list"), U32("usage_end"), U32("usage_start"), U16("with_usage"),
            U16("with_deleted")>>,
                 <<NV, Z32, Z32, Z16, Z16>>)

unpack_acct_cluster_cond(v) ==
    CASE v >= 5 ->
          <<U16("classification"), List("cluster_list", {Zero, NO_VAL}, <<Str("")>>),
            Time("usage_end"), Time("usage_start"), U16("with_usage"), U16("with_deleted")>>
      [] OTHER ->
          <<List("cluster_list", {Zero, NO_VAL}, <<Str("")>>), U32("usage_end"),
            U32("usage_start"), U16("with_usage"), U16("with_deleted")>>

pack_acct_job_cond_v5(v) ==
    Object(<<Strs("acct_list"), Strs("associd_list"), Strs("cluster_list"), U16("duplicates"),
      Strs("groupid_list"), Strs("partition_list"), Strs("resv_list"), Strs("resvid_list"),
      Recs("step_list", pack_jobacct_selected_step(v)), Strs("state_list"), Time("usage_end"),
      Time("usage_start"), Str("used_nodes"), Strs("userid_list"), NV, U16("without_steps"),
      U16("without_usage_truncation")>>,
           <<NV, NV, NV, Z16>> \o Rep(5, NV) \o <<ZT, ZT, Null, NV, NV, Z16, Z16>>)

pack_acct_job_cond_v4(v) ==
    Object(<<Strs("acct_list"), Strs("associd_list"), Strs("cluster_list"), U16("duplicates"),
      Strs("groupid_list"), Strs("partition_list"),
      Recs("step_list", pack_jobacct_selected_step(v)), Strs("state_list"), U32("usage_end"),
      U32("usage_start"), Strs("userid_list"), NV, U16("without_steps")>>,
           <<NV, NV, NV, Z16>> \o Rep(4, NV) \o <<Z32, Z32, NV, NV, Z16>>)

pack_acct_job_cond_older(v) ==
    Object(<<Strs("acct_list"), Strs("associd_list"), Strs("cluster_list"), U16("duplicates"),
      Strs("groupid_list"), Strs("partition_list"),
      Recs("step_list", pack_jobacct_selected_step(v)), Strs("state_list"), U32("usage_end"),
      U32("usage_start"), Strs("userid_list"), U16("without_steps")>>,
           <<NV, NV, NV, Z16>> \o Rep(4, NV) \o <<Z32, Z32, NV, Z16>>)

pack_acct_job_cond(v) ==
    CASE v >= 5 -> pack_acct_job_cond_v5(v)
      [] v >= 4 -> pack_acct_job_cond_v4(v)
      [] OTHER -> pack_acct_job_cond_older(v)

unpack_acct_job_cond_v5(v) ==
    <<Strs("acct_list"), Strs("associd_list"), Strs("cluster_list"), U16("duplicates"),
      Strs("groupid_list"), Strs("partition_list"), Strs("resv_list"), Strs("resvid_list"),
      List("step_list", {NO_VAL}, <<Unchecked("", unpack_jobacct_selected_step(v))>>),
      Strs("state_list"), Time("usage_end"), Time("usage_start"), Str("used_nodes"),
      Strs("userid_list"), Strs("wckey_list"), U16("without_steps"),
      U16("without_usage_truncation")>>

unpack_acct_job_cond_v4(v) ==
    <<Strs("acct_list"), Strs("associd_list"), Strs("cluster_list"), U16("duplicates"),
      Strs("groupid_list"), Strs("partition_list"),
      List("step_list", {NO_VAL}, <<Unchecked("", unpack_jobacct_selected_step(v))>>),
      Strs("state_list"), U32("usage_end"), U32("usage_start"), Strs("userid_list"),
      Strs("wckey_list"), U16("without_steps")>>

unpack_acct_job_cond_older(v) ==
    <<Strs("acct_list"), Strs("associd_list"), Strs("cluster_list"), U16("duplicates"),
      Strs("groupid_list"), Strs("partition_list"),
      List("step_list", {NO_VAL}, <<Unchecked("", unpack_jobacct_selected_step(v))>>),
      Strs("state_list"), U32("usage_end"), U32("usage_start"), Strs("userid_list"),
      U16("without_steps")>>

unpack_acct_job_cond(v) ==
    CASE v >= 5 -> unpack_acct_job_cond_v5(v)
      [] v >= 4 -> unpack_acct_job_cond_v4(v)
      [] OTHER -> unpack_acct_job_cond_older(v)

pack_acct_qos_cond_NoIds(v) ==
    Object(<<Strs("description_list"), NV, Strs("name_list"), U16("with_deleted")>>,
           <<NV, NV, NV, Z16>>)

pack_acct_qos_cond(v) ==
    Object(<<Strs("description_list"), Strs("id_list"), Strs("name_list"), U16("with_deleted")>>,
           <<NV, NV, NV, Z16>>)

unpack_acct_qos_cond(v) ==
    <<Strs("description_list"), Strs("id_list"), Strs("name_list"), U16("with_deleted")>>

pack_acct_reservation_cond(v) ==
    Object(<<Strs("cluster_list"), U16("flags"), Strs("id_list"), Strs("name_list"), Str("nodes"),
      Time("time_end"), Time("time_start"), U16("with_usage")>>,
           <<NV, Z16, NV, NV, Null, ZT, ZT, Z16>>)

unpack_acct_reservation_cond(v) ==
    <<Strs("cluster_list"), U16("flags"), Strs("id_list"), Strs("name_list"), Str("nodes"),
      Time("time_end"), Time("time_start"), U16("with_usage")>>

pack_acct_txn_cond_v5(v) ==
    Object(<<Strs("acct_list"), Strs("action_list"), Strs("actor_list"), Strs("cluster_list"),
      Strs("id_list"), Strs("info_list"), Strs("name_list"), Time("time_end"), Time("time_start"),
      Strs("user_list"), U16("with_assoc_info")>>,
           Rep(6, NV) \o <<ZT, ZT, NV, Z16>>)

pack_acct_txn_cond_v3(v) ==
    Object(<<Strs("acct_list"), Strs("action_list"), Strs("actor_list"), Strs("cluster_list"),
      Strs("id_list"), Strs("info_list"), Strs("name_list"), U32("time_end"), U32("time_start"),
      Strs("user_list"), U16("with_assoc_info")>>,
           Rep(6, NV) \o <<Z32, Z32, NV, Z16>>)

pack_acct_txn_cond_older(v) ==
    Object(<<Strs("action_list"), Strs("actor_list"), Strs("id_list"), U32("time_end"),
      U32("time_start")>>,
           <<NV, NV, NV, Z32, Z32>>)

pack_acct_txn_cond(v) ==
    CASE v >= 5 -> pack_acct_txn_cond_v5(v)
      [] v >= 3 -> pack_acct_txn_cond_v3(v)
      [] OTHER -> pack_acct_txn_cond_older(v)

unpack_acct_txn_cond_v5(v) ==
    <<Strs("acct_list"), Strs("action_list"), Strs("actor_list"), Strs("cluster_list"),
      Strs("id_list"), Strs("info_list"), Strs("name_list"), Time("time_end"), Time("time_start"),
      Strs("user_list"), U16("with_assoc_info")>>

unpack_acct_txn_cond_v3(v) ==
    <<Strs("acct_list"), Strs("action_list"), Strs("actor_list"), Strs("cluster_list"),
      Strs("id_list"), Strs("info_list"), Strs("name_list"), U32("time_end"), U32("time_start"),
      Strs("user_list"), U16("with_assoc_info")>>

unpack_acct_txn_cond_older(v) ==
    <<Strs("action_list"), Strs("actor_list"), Strs("id_list"), U32("time_end"),
      U32("time_start")>>

unpack_acct_txn_cond(v) ==
    CASE v >= 5 -> unpack_acct_txn_cond_v5(v)
      [] v >= 3 -> unpack_acct_txn_cond_v3(v)
      [] OTHER -> unpack_acct_txn_cond_older(v)

pack_acct_wckey_cond_v5(v) ==
    Object(<<Strs("cluster_list"), Strs("id_list"), Strs("name_list"), Time("usage_end"),
      Time("usage_start"), Strs("user_list"), U16("with_usage"), U16("with_deleted")>>,
           <<NV, NV, NV, ZT, ZT, NV, Z16, Z16>>)

pack_acct_wckey_cond_older(v) ==
    Object(<<Strs("cluster_list"), Strs("id_list"), Strs("name_list"), U32("usage_end"),
      U32("usage_start"), Strs("user_list"), U16("with_usage"), U16("with_deleted")>>,
           <<NV, NV, NV, Z32, Z32, NV, Z16, Z16>>)

pack_acct_wckey_cond(v) ==
    CASE v >= 5 -> pack_acct_wckey_cond_v5(v)
      [] OTHER -> pack_acct_wckey_cond_older(v)

unpack_acct_wckey_cond(v) ==
    CASE v >= 5 ->
          <<Strs("cluster_list"), Strs("id_list"), Strs("name_list"), Time("usage_end"),
            Time("usage_start"), Strs("user_list"), U16("with_usage"), U16("with_deleted")>>
      [] OTHER ->
          <<Strs("cluster_list"), Strs("id_list"), Strs("name_list"), U32("usage_end"),
            U32("usage_start"), Strs("user_list"), U16("with_usage"), U16("with_deleted")>>

pack_acct_archive_cond(v) ==
    Object(<<Str("archive_dir"), U16("archive_events"), U16("archive_jobs"),
      Str("archive_script"), U16("archive_steps"), U16("archive_suspend"),
      Rec("job_cond", pack_acct_job_cond(v)), U16("purge_event"), U16("purge_job"),
      U16("purge_step"), U16("purge_suspend")>>,
           <<Null, NV16, NV16, Null, NV16, NV16>> \o pack_acct_job_cond(v).null \o Rep(4, NV16))

unpack_acct_archive_cond(v) ==
    <<Str("archive_dir"), U16("archive_events"), U16("archive_jobs"), Str("archive_script"),
      U16("archive_steps"), U16("archive_suspend"), Call("job_cond", unpack_acct_job_cond(v)),
      U16("purge_event"), U16("purge_job"), U16("purge_step"), U16("purge_suspend")>>

\* The kinds of object an update message carries.
UserTypes  == {"ACCT_MODIFY_USER", "ACCT_ADD_USER", "ACCT_REMOVE_USER", "ACCT_ADD_COORD",
               "ACCT_REMOVE_COORD"}
AssocTypes == {"ACCT_ADD_ASSOC", "ACCT_MODIFY_ASSOC", "ACCT_REMOVE_ASSOC"}
QosTypes   == {"ACCT_ADD_QOS", "ACCT_MODIFY_QOS", "ACCT_REMOVE_QOS"}
WckeyTypes == {"ACCT_ADD_WCKEY", "ACCT_MODIFY_WCKEY", "ACCT_REMOVE_WCKEY"}
UpdateTypes == UserTypes \cup AssocTypes \cup QosTypes \cup WckeyTypes

\* The type that is packed: wckeys are newer than version 3, which is sent a
\* type it knows and no list.
PackedType(v, type) == IF type \in WckeyTypes /\ v <= 3 THEN "ACCT_MODIFY_USER" ELSE type

pack_acct_update_object(v, type) ==
    CASE type \in WckeyTypes /\ v <= 3 -> Always(<<U16("type"), NV>>)
      [] type \in WckeyTypes -> Always(<<U16("type"), Recs("objects", pack_acct_wckey_rec(v))>>)
      [] type \in UserTypes  -> Always(<<U16("type"), Recs("objects", pack_acct_user_rec(v))>>)
      [] type \in AssocTypes ->
             Always(<<U16("type"), Recs("objects", pack_acct_association_rec(v))>>)
      [] type \in QosTypes   -> Always(<<U16("type"), Recs("objects", pack_acct_qos_rec(v))>>)

unpack_acct_update_object(v, type) ==
    <<U16("type"),
      CASE type \in UserTypes  -> RecsOf("objects", unpack_acct_user_rec(v))
        [] type \in AssocTypes -> RecsOf("objects", unpack_acct_association_rec(v))
        [] type \in QosTypes   -> RecsOf("objects", unpack_acct_qos_rec(v))
        [] type \in WckeyTypes -> RecsOf("objects", unpack_acct_wckey_rec(v))>>

=============================================================================
