------------------------------ MODULE Messages ------------------------------
(***************************************************************************)
(* The way of one message from the code that packs it to the code that     *)
(* unpacks it (common/slurmdbd_defs.c, common/slurm_protocol_pack.c).      *)
(*                                                                         *)
(* Usually the message is packed for the RPC version of the peer and read  *)
(* with that version.  A message in the queue of the SlurmDBD agent may    *)
(* also be written to the file dbd.messages when slurmctld ends, be read   *)
(* from it by the slurmctld that is started next, perhaps of a newer       *)
(* version, and be sent as it is over a connection of that version.        *)
(***************************************************************************)
EXTENDS SlurmMessages, Release, Functions

CONSTANT Versions       \* RPC versions, SLURMDBD_VERSION_MIN .. SLURMDBD_VERSION
ASSUME VersionsAssumption == Versions \subseteq 2..5

VARIABLES
    pc,         \* where the message is
    m,          \* the message: its type, the version it is packed for, its shape
    buf,        \* its bytes
    sent,       \* the fields in it and their values
    file,       \* the bytes of dbd.messages
    saved,      \* the buffers _save_dbd_state counts as written
    loaded,     \* the buffers _load_dbd_state put into the queue
    short,      \* the results of the write calls that did not write all
    lost,       \* how many of its bytes did not arrive
    conn,       \* the version the reader goes by
    out,        \* what unpacking gave
    kept        \* the fields whose memory was not freed
vars == <<pc, m, buf, sent, file, saved, loaded, short, lost, conn, out, kept>>

-----------------------------------------------------------------------------
(* Packing and unpacking a message.                                         *)

\* An update message for the slurmctld of a cluster: here all its objects are
\* of one type.
pack_accounting_update_msg(v, type) ==
    Always(<<List("update_list", {Zero}, pack_acct_update_object(v, type).full)>>)

unpack_accounting_update_msg(v, type) ==
    <<List("update_list", {}, <<Call("", unpack_acct_update_object(v, PackedType(v, type)))>>)>>

\* The messages of slurmctld and slurmd have the format of their version only.
Types(v) == MsgTypes \cup UpdateTypes \cup IF v = SLURMDBD_VERSION THEN SlurmTypes ELSE {}

\* The message type, then the message (of slurmctld's and slurmd's messages,
\* the type is taken out of the header, and "HEADER" is the header itself).
Items(v, type, sh) ==
    <<Const(<<type>>, 2)>> \o
    (CASE type \in UpdateTypes -> pack_accounting_update_msg(v, type)
       [] type \in SlurmTypes  -> pack_msg(type)
       [] type \in MsgTypes    -> pack_slurmdbd_msg(v, type))[IF sh.top THEN "full" ELSE "null"]

\* unpack_slurmdbd_msg reads the type and goes by it, unpack_msg by the header's.
Body(type, b, v, r) ==
    CASE type \in UpdateTypes  -> Unpack(unpack_accounting_update_msg(v, type), b, <<>>, r)
      [] type \in SlurmTypes   -> Unpack(unpack_msg(type), b, <<>>, r)
      [] type \in MsgTypes     -> Unpack(unpack_slurmdbd_msg(v, type), b, <<>>, r)
      [] OTHER                 -> [r EXCEPT !.rc = "lost"]

Read(b, v) ==
    LET t == Take(Start, 2, b)
    IN  IF t.r.rc # "ok" THEN t.r ELSE Body(t.x[1], b, v, t.r)

\* The structure a message is unpacked to.
Structure(type) ==
    CASE type \in UpdateTypes ->
           Fields({"update_list"})
             \cup Within("update_list", UpdateRecs.acct_update_object_t)
             \cup Within("update_list", Within("objects", UpdatedRecord(type)))
      [] type \in EmptyTypes  -> {}
      [] type = "HEADER"      -> Headers.header_t
      [] type \in BodyTypes   -> SlurmStructure(type)
      [] type \in ListTypes   -> Fields({"my_list"}) \cup Within("my_list", ElementStructure(type))
      [] type \in CoordTypes  -> DbdClusterMessages.dbd_acct_coord_msg_t
      [] type \in CondTypes   -> Within("cond", CondStructure(type))
      [] type \in UsageTypes  -> UsageStructure(type)
      [] type \in ModifyTypes -> ModifyStructure(type)
      [] type \in ResvTypes   -> Within("rec", AcctRecs.acct_reservation_rec_t)
      [] type \in PlainTypes  -> PlainStructure(type)

\* What its receiver frees when it is done with it.
Freed(type) ==
    CASE type \in UpdateTypes -> slurm_free_accounting_update_msg(type)
      [] type \in SlurmTypes  -> slurm_free_msg_data(type) \cup FreedByCaller(type)
      [] type \in ListTypes   -> slurmdbd_free_list_msg(type)
      [] type \in CoordTypes  -> FreedDbdClusters.slurmdbd_free_acct_coord_msg
      [] type \in CondTypes   -> slurmdbd_free_cond_msg(type)
      [] type \in UsageTypes  -> slurmdbd_free_usage_msg(type)
      [] type \in ModifyTypes -> slurmdbd_free_modify_msg(type)
      [] type \in ResvTypes   -> slurmdbd_free_rec_msg(type)
      [] type \in PlainTypes  -> slurmdbd_free_plain_msg(type)

-----------------------------------------------------------------------------
(* The file of unsent messages.                                             *)

\* The messages slurmctld leaves to the agent (a bound: without the objects of
\* reservations, which are sent at once); a registration is not written.
QueuedTypes == {"DBD_JOB_START", "DBD_JOB_COMPLETE", "DBD_JOB_SUSPEND", "DBD_STEP_START",
                "DBD_STEP_COMPLETE", "DBD_NODE_STATE", "DBD_CLUSTER_PROCS", "DBD_FLUSH_JOBS"}

\* The message behind the one that is followed.
Next2(v) == Pack(<<Const(<<"DBD_JOB_SUSPEND">>, 2)>> \o slurmdbd_pack_job_suspend_msg(v).full,
                 [top |-> TRUE, sub |-> TRUE, list |-> "0", str |-> "text"], <<>>).wire

\* The loop of _save_dbd_rec: ws are the results of the calls of write (0
\* stands for an error), after them a call writes all it is given.  left is
\* what remains of the message, last what the call before wrote.
RECURSIVE WriteLoop(_, _, _)
WriteLoop_Once(left, last, ws) ==
    IF ws = <<>> THEN [left |-> 0, rc |-> "SLURM_SUCCESS"]
    ELSE IF Head(ws) = 0 THEN [left |-> left, rc |-> "SLURM_ERROR"]
    ELSE [left |-> left - Head(ws), rc |-> "SLURM_SUCCESS"]
WriteLoop(left, last, ws) ==
    CASE last >= left           -> [left |-> left, rc |-> "SLURM_SUCCESS"]
      [] last < left /\ ws = <<>> -> [left |-> 0, rc |-> "SLURM_SUCCESS"]
      [] last < left /\ ws # <<>> /\ Head(ws) = 0 -> [left |-> left, rc |-> "SLURM_ERROR"]
      [] last < left /\ ws # <<>> /\ Head(ws) > 0 ->
             WriteLoop(left - Head(ws), Head(ws), Tail(ws))

Magic == <<"DBD_MAGIC">>

save_dbd_rec(b, ws) ==
    LET w    == WriteLoop(Len(b), 0, ws)
        body == SubSeq(b, 1, Len(b) - w.left)
    IN  [rc   |-> w.rc,
         file |-> Bytes(<<"msg_size", Len(b)>>, 4) \o body
                    \o IF w.rc = "SLURM_SUCCESS" THEN Bytes(Magic, 4) ELSE <<>>]

\* The buffers that are read from the file.  The first error ends it.
RECURSIVE load_dbd_rec(_)
load_dbd_rec(f) ==
    IF Len(f) < 4 \/ Value(SubSeq(f, 1, 4))[1] # "msg_size" THEN <<>>
    ELSE LET n == Value(SubSeq(f, 1, 4))[2]
         IN  IF Len(f) < n + 8 \/ Value(SubSeq(f, n + 5, n + 8)) # Magic THEN <<>>
             ELSE <<SubSeq(f, 5, n + 4)>> \o load_dbd_rec(SubSeq(f, n + 9, Len(f)))

\* The results of write that are tried: one byte, just less and just more than
\* half, what makes the loss as long as the message behind, all but one byte.
Shorts(b, v) ==
    {0, 1, (Len(b) - 1) \div 2, (Len(b) + 1) \div 2, Len(b) - Len(Next2(v)) - 8, Len(b) - 1}
      \cap (0..Len(b) - 1)
WriteResults(b, v) ==
    LET s == Shorts(b, v)
        t == {w \in s : 2 * w < Len(b)}
    IN  {<<>>} \cup {<<w>> : w \in s} \cup {<<w1, w2>> : w1 \in t \ {0}, w2 \in t}

-----------------------------------------------------------------------------
Nothing == [type |-> "", v |-> 0,
            sh |-> [top |-> TRUE, sub |-> TRUE, list |-> "0", str |-> "text"]]

Init ==
    /\ pc = "idle" /\ m = Nothing /\ conn = 0 /\ out = Start
    /\ buf = <<>> /\ sent = <<>> /\ file = <<>> /\ saved = <<>> /\ loaded = <<>> /\ short = <<>> /\ lost = 0
    /\ kept = {}

\* The shapes that make a difference: without lists all of them are alike, and
\* quotation marks matter in the name of a job only.
ShapesOf(type) ==
    {sh \in Shapes : /\ type \in PlainTypes \ {"DBD_GET_JOBS"} => sh.sub /\ sh.list = "1"
                     /\ type # "DBD_JOB_START" => sh.str \in {"NULL", "text"}}

\* pack_slurmdbd_msg: a message is packed for a peer of version v.
PackMsg(type, v, sh) ==
    /\ pc = "idle"
    /\ pc' = "packed"
    /\ m' = [type |-> type, v |-> v, sh |-> sh]
    /\ \E p \in {Pack(Items(v, type, sh), sh, <<>>)} : buf' = p.wire /\ sent' = p.sent
    /\ conn' = v
    /\ UNCHANGED <<file, saved, loaded, short, lost, out, kept>>

\* The message arrives, or only some of its bytes do.
Arrives == pc = "packed" /\ lost' = 0
ArrivesCut ==
    /\ pc = "packed" /\ m.v = SLURMDBD_VERSION
    /\ m.sh = [top |-> TRUE, sub |-> TRUE, list |-> "1", str |-> "text"]
    /\ lost' \in 1..Len(buf)

\* The agent sends the first message of the file.
Resend == pc = "loaded" /\ loaded # <<>> /\ lost' = 0

\* The peer unpacks what arrived.
UnpackMsg ==
    /\ Arrives \/ ArrivesCut \/ Resend
    /\ pc' = "read"
    /\ out' = Read(IF pc = "loaded" THEN Head(loaded) ELSE SubSeq(buf, 1, Len(buf) - lost'), conn)
    /\ UNCHANGED <<m, buf, sent, file, saved, loaded, short, conn, kept>>

\* _save_dbd_state: the message and the one behind it are still in the queue
\* when the agent ends.
SaveState ==
    /\ pc = "packed" /\ m.type \in QueuedTypes
    /\ pc' = "saved"
    /\ \E ws \in WriteResults(buf, m.v) :
         LET first == save_dbd_rec(buf, ws)
             next  == save_dbd_rec(Next2(m.v), <<>>)
         IN  /\ IF first.rc = "SLURM_SUCCESS"
                THEN file' = first.file \o next.file /\ saved' = <<buf, Next2(m.v)>>
                ELSE file' = first.file /\ saved' = <<>>
             /\ short' = ws
    /\ UNCHANGED <<m, buf, sent, loaded, lost, conn, out, kept>>

\* _load_dbd_state, in a slurmctld of version v.
LoadState(v) ==
    /\ pc = "saved" /\ v >= m.v
    /\ pc' = "loaded"
    /\ loaded' = load_dbd_rec(file)
    /\ file' = <<>>
    /\ conn' = v
    /\ UNCHANGED <<m, buf, sent, saved, short, lost, out, kept>>

\* The receiver frees a message that it could unpack, when it has dealt with
\* it; what an unpack function frees when it gives up is left out.
FreeMsg ==
    /\ pc = "read" /\ out.rc = "ok"
    /\ pc' = "freed"
    /\ kept' = out.mem \ Freed(m.type)
    /\ UNCHANGED <<m, buf, sent, file, saved, loaded, short, lost, conn, out>>

Done ==
    /\ pc = "freed" \/ (pc = "read" /\ out.rc # "ok") \/ (pc = "loaded" /\ loaded = <<>>)
    /\ pc' = "idle" /\ m' = Nothing /\ conn' = 0 /\ out' = Start
    /\ buf' = <<>> /\ sent' = <<>> /\ file' = <<>> /\ saved' = <<>> /\ loaded' = <<>>
    /\ short' = <<>> /\ lost' = 0 /\ kept' = {}

Next ==
    \/ \E v \in Versions : \E type \in Types(v) : \E sh \in ShapesOf(type) : PackMsg(type, v, sh)
    \/ UnpackMsg
    \/ FreeMsg
    \/ SaveState
    \/ \E v \in Versions : LoadState(v)
    \/ Done

Spec == Init /\ [][Next]_vars
-----------------------------------------------------------------------------
(* Properties.                                                              *)


Fresh == pc = "read" /\ saved = <<>> /\ lost = 0

\* The messages that are packed without the object they should carry, where
\* the branch for NULL packs something else than the reader expects:
\* pack_acct_cluster_rec, pack_acct_job_cond, pack_acct_txn_cond.
NullGap ==
    \/ m.v = 2 /\ ~m.sh.top
       /\ m.type \in {"DBD_MODIFY_CLUSTERS", "DBD_GET_CLUSTER_USAGE", "DBD_GOT_CLUSTER_USAGE"}
    \/ m.v >= 3 /\ ~m.sh.top /\ m.type = "DBD_GET_TXN"
    \/ m.v = 5 /\ ~m.sh.top /\ m.type = "DBD_GET_JOBS_COND"
    \/ m.v = 5 /\ ~(m.sh.top /\ m.sh.sub) /\ m.type = "DBD_ARCHIVE_DUMP"

\* The readers of a job's start that take its name apart.  A name with several
\* quotation marks is lost, and the reader does not survive a job without a name.
NameSplit == m.type = "DBD_JOB_START" /\ m.v \in {3, 4}
NameGap   == NameSplit /\ m.sh.str \in {"NULL", "quotes"}

\* unpack_jobacct_job_rec calls _pack_sacct where it means _unpack_sacct: the
\* statistics of a job (not those of its steps) never arrive.  The wckey arrives
\* that was sent as part of the name.
Arriving(fields) ==
    LET Lost(f) == m.type = "DBD_GOT_JOBS" /\ Len(f[1]) > 2 /\ f[1][2] = "sacct"
        name    == <<"name">>
        Cut(f)  == IF f[1] = name THEN <<name, Before(name)>> ELSE f
    IN  IF NameSplit /\ m.sh.str = "one quote"
        THEN [k \in DOMAIN fields |-> Cut(fields[k])] \o <<<<<<"wckey">>, Behind(name)>>>>
        ELSE SelectSeq(fields, LAMBDA f : ~Lost(f))

\* The reader got every field of the message with its value, and read it to
\* the end.
Understood == out.rc = "ok" /\ out.pos = Len(buf) /\ out.got = Arriving(sent)

\* The functions that ignore an error at the end of what they unpack: both
\* times of a usage message, the limits used by the users of a QOS, and the
\* address of the sender in the header.
UncheckedTail ==
    CASE m.type \in UsageTypes -> 16
      [] m.type = "HEADER" -> 6
      [] m.type \in QosTypes \cup {"DBD_ADD_QOS", "DBD_GOT_QOS"} -> 32
      [] OTHER -> 0
ClusterTypes == {"DBD_ADD_CLUSTERS", "DBD_GOT_CLUSTERS", "DBD_MODIFY_CLUSTERS",
                 "DBD_GET_CLUSTER_USAGE", "DBD_GOT_CLUSTER_USAGE"}

\* A message that lost its end is refused, wherever it was cut, although many
\* functions ignore the errors of those they call: what follows fails as well.
\* It is not refused when an unchecked tail is cut, and after a cut in the
\* usage of a cluster the reader takes other bytes for the length of a string.
CutRefused ==
    \/ out.rc = "short"
    \/ out.rc = "lost" /\ m.type \in ClusterTypes
    \/ out.rc = "ok" /\ lost <= UncheckedTail

\* Every message that pack_slurmdbd_msg, pack_msg and the update messages can
\* hold is unpacked, by a peer of the version it was packed for, to the fields
\* it was packed from, whatever pointers are NULL, strings are NULL and lists are
\* empty, with the exceptions above and no others; one that lost its end is refused.
ReadDirectly ==
    /\ Fresh => (Understood <=> ~(NullGap \/ NameGap))
    /\ pc = "read" /\ saved = <<>> /\ lost > 0 => CutRefused

\* Members that no message carries: what the caches of the association manager
\* and of slurmctld compute, pointers into other structures, the sizes of
\* arrays that are sent with their size, and what is set from the connection.
Local(type) ==
    (CASE type \in UpdateTypes \cup MsgTypes ->
            {"childern_list", "grp_used_cpus", "grp_used_nodes", "grp_used_wall",
             "grp_used_jobs", "grp_used_submit_jobs", "level_shares", "parent_assoc_ptr",
             "shares_norm", "usage_efctv", "usage_norm", "usage_raw", "used_jobs",
             "used_submit_jobs", "job_flags", "job_list", "norm_priority", "first_step_ptr",
             "job_ptr"}
       [] type \in SlurmTypes ->
            {"argc", "envc", "env_size", "iterator", "magic", "mutex", "siglen",
             "select_jobinfo"})
      \cup
    (CASE type = "DBD_INIT" -> {"uid"}
       [] type = "HEADER" -> {"init", "type", "ret_list", "data"}
       [] type = "RESPONSE_LAUNCH_TASKS" -> {"srun_node_id"}
       [] type \in {"RESPONSE_JOB_STEP_CREATE", "RESPONSE_STEP_LAYOUT"} -> {"plane_size", "tasks"}
       [] type \in {"DBD_STEP_COMPLETE", "REQUEST_STEP_COMPLETE", "MESSAGE_STAT_JOBACCT"} -> {"pid"}
       [] type \in {"REQUEST_CREATE_PARTITION", "REQUEST_UPDATE_PARTITION"} ->
            {"node_inx", "total_cpus", "total_nodes"}
       [] OTHER -> {})

\* Values in a message that are no members of the structure it is read to.
NoMember(type) ==
    {"tot_core_cnt"} \cup
    CASE type = "DBD_INIT" -> {"auth_cred"}
      [] type = "HEADER" -> {"return_code"}
      [] type = "RESPONSE_JOB_INFO" -> {"flag", "plane_size"}
      [] type = "REQUEST_LAUNCH_TASKS" -> {"tag"}
      [] type \in {"RESPONSE_JOB_STEP_CREATE", "RESPONSE_STEP_LAYOUT"} -> {"layout"}
      [] OTHER -> {}

\* Members that the receiver could use and that are not sent:
\* pack_acct_job_cond leaves out the wckeys, slurmdbd_pack_step_complete_msg
\* the number of tasks, pack_slurm_ctl_conf_msg three parameters,
\* pack_update_partition_msg two, pack_job_desc_msg the address of the
\* allocation's owner and what is sent as part of select_jobinfo, and
\* slurmctld the tasks per node of a job.  user_managed_io is 0 here.
Forgotten(type) ==
    CASE type \in {"DBD_GET_JOBS_COND", "DBD_ARCHIVE_DUMP"} -> {"wckey_list"}
      [] type = "DBD_STEP_COMPLETE" -> {"total_tasks"}
      [] type = "RESPONSE_BUILD_INFO" ->
           {"enforce_part_limits", "slurm_kill_on_bad_exit", "slurmd_port"}
      [] type \in {"REQUEST_CREATE_PARTITION", "REQUEST_UPDATE_PARTITION"} ->
           {"disable_root_jobs", "node_scaling"}
      [] type \in {"REQUEST_RESOURCE_ALLOCATION", "REQUEST_JOB_WILL_RUN",
                   "REQUEST_SUBMIT_BATCH_JOB", "REQUEST_UPDATE_JOB"} ->
           {"resp_host", "blrtsimage", "conn_type", "geometry", "linuximage", "mloaderimage",
            "ramdiskimage", "reboot", "rotate"}
      [] type = "RESPONSE_JOB_INFO" -> {"ntasks_per_node"}
      [] type = "REQUEST_LAUNCH_TASKS" -> {"user_managed_io"}
      [] OTHER -> {}

\* A full message of the current version gives every member of the structure
\* it is unpacked to, except the local ones, and those that are forgotten at
\* both ends: a member that is added to a structure, and not to the functions,
\* does not disturb the reader and is silently 0 at the other side.
FieldsArrive ==
    Fresh /\ m.v = SLURMDBD_VERSION
    /\ m.sh = [top |-> TRUE, sub |-> TRUE, list |-> "1", str |-> "text"]
      => {p \in {f[1] : f \in Range(out.got)} :
              p[Len(p)] \notin NoMember(m.type) \cup Local(m.type)}
         = {p \in Structure(m.type) :
              /\ p[Len(p)] \notin Local(m.type) \cup Forgotten(m.type)
              /\ ~(m.type = "DBD_GOT_JOBS" /\ Len(p) > 2 /\ p[2] = "sacct")}

\* The strings, lists and arrays the free functions have no xfree or
\* list_destroy for: destroy_acct_qos_cond forgets the list of descriptions,
\* slurm_free_ctl_conf some of the strings added to the structure last.
Leaks(type) ==
    CASE type \in {"DBD_GET_QOS", "DBD_REMOVE_QOS"} -> {<<"cond", "description_list">>}
      [] type = "RESPONSE_BUILD_INFO" ->
           Fields({"accounting_storage_backup_host", "event_handler_logfile", "priority_type",
                   "slurm_event_handler", "slurmd_user_name"})
      [] OTHER -> {}

\* The memory that unpacking a message took is given back by the function its
\* receiver frees it with, for every version and shape, except the leaks above
\* (a slurmctld frees a message per request, for months).
FreedAfterUse == pc = "freed" => kept = out.mem \cap Leaks(m.type)

\* A call of write that wrote at least as much as it left.
Left(k) == Len(buf) - (IF k = 1 THEN short[1] ELSE short[1] + short[2])
EndsEarly == \E k \in DOMAIN short : short[k] > 0 /\ Left(k) > 0 /\ short[k] >= Left(k)

\* The format of a message for version v is that for version w.
SameFormat(type, v, w) ==
    CASE type = "DBD_JOB_START" -> v = w \/ {v, w} = {3, 4}
      [] type \in {"DBD_STEP_START", "DBD_NODE_STATE", "DBD_CLUSTER_PROCS", "DBD_FLUSH_JOBS"} ->
             v = w \/ 5 \notin {v, w}
      [] OTHER -> TRUE

\* What _save_dbd_state says it saved is what _load_dbd_state finds, also
\* after short writes and errors, unless a write stopped past the middle: the
\* loop compares what was written with what remains and ends too early, and
\* the messages behind are lost with it, or become part of it.  A message from
\* the file that a slurmctld of a newer version sends is understood exactly when
\* its format did not change, but for the names above, and otherwise refused, never
\* taken for another: nothing packs it again for the new version.  (A refused message stays at the
\* head of the agent's queue.)
Recovered ==
  /\ pc = "loaded" /\ ~EndsEarly => loaded = saved
  /\ pc = "read" /\ saved # <<>> /\ loaded = saved
       => IF SameFormat(m.type, m.v, conn) THEN Understood <=> ~NameGap ELSE out.rc # "ok"

\* A message arrives as it was packed: over a connection, and through dbd.messages
\* by a slurmctld of the same or of a newer version.
ReadBack == ReadDirectly /\ Recovered
=============================================================================
