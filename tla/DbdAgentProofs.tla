--------------------------- MODULE DbdAgentProofs ---------------------------
(***************************************************************************)
(* Theorems about DbdAgent, for every value of its constants.  First its   *)
(* threads: the types, the bound on the queue, the exclusive use of the    *)
(* socket and the absence of a lost wakeup on slurmdbd_cond.  Then its     *)
(* messages: SlurmDBD sees them in the order they were accepted, and, as   *)
(* long as the threads stop queueing when the connection is closed and     *)
(* SlurmDBD answers in time, every reply goes to the request it answers,   *)
(* no message is lost and the agent implements Delivery.                   *)
(***************************************************************************)
EXTENDS DbdAgent, SetInduction, SequenceTheorems, TLAPS

-----------------------------------------------------------------------------
(* What Without (_purge_job_start_req, _save_dbd_state) returns.           *)

\* The function that defines Without, as a fact: tlapm has no rule for a
\* recursive function, so that one exists is proved by induction on its length.
LEMMA WithoutRecursion ==
  ASSUME NEW S, NEW s \in Seq(S), NEW D
  PROVE  \E f : /\ f[0] = <<>>
                /\ \A i \in 1..Len(s) :
                     f[i] = IF s[i] \in D THEN f[i-1] ELSE Append(f[i-1], s[i])
                /\ Without(s, D) = f[Len(s)]
<1> DEFINE Step(g, i) == IF i = 0 THEN <<>>
                         ELSE IF s[i] \in D THEN g[i-1] ELSE Append(g[i-1], s[i])
           IsFilter(g, n) == g = [i \in 0..n |-> Step(g, i)]
           T == {n \in Nat : \E g : IsFilter(g, n)}
<1>0. ASSUME NEW g, NEW n \in Nat, IsFilter(g, n), NEW i \in 0..n PROVE g[i] = Step(g, i)
  <2> HIDE DEF Step
  <2> QED BY <1>0
<1>1. T = Nat
  <2>1. 0 \in T
    <3>1. IsFilter([i \in 0..0 |-> <<>>], 0)
      OBVIOUS
    <3> QED BY <3>1
  <2>2. ASSUME NEW n \in Nat, n \in T PROVE n + 1 \in T
    <3>1. PICK g : IsFilter(g, n)
      BY <2>2
    <3> DEFINE h == [i \in 0..(n+1) |-> IF i <= n THEN g[i] ELSE Step(g, n+1)]
    <3>2. \A i \in 0..(n+1) : h[i] = Step(h, i)
      <4> SUFFICES ASSUME NEW i \in 0..(n+1) PROVE h[i] = Step(h, i)
        OBVIOUS
      <4>1. CASE i = 0
        BY <3>1, <4>1
      <4>2. CASE i # 0 /\ i <= n
        <5>1. g[i] = Step(g, i)
          <6>1. i \in 0..n
            BY <4>2
          <6> HIDE DEF IsFilter, Step
          <6> QED BY <3>1, <6>1, <1>0
        <5>2. h[i] = g[i] /\ h[i-1] = g[i-1]
          BY <4>2
        <5> QED BY <5>1, <5>2, <4>2
      <4>3. CASE i = n + 1
        <5>1. h[i] = Step(g, n+1) /\ h[i-1] = g[i-1]
          BY <4>3
        <5> QED BY <5>1, <4>3
      <4> QED BY <4>1, <4>2, <4>3
    <3>3. IsFilter(h, n+1)
      BY <3>2
    <3>4. n + 1 \in Nat /\ \E k : IsFilter(k, n+1)
      <4> HIDE DEF IsFilter
      <4> QED BY <3>3
    <3> HIDE DEF IsFilter
    <3> QED BY <3>4
  <2> HIDE DEF T
  <2>3. T \subseteq Nat
    BY DEF T
  <2> QED BY <2>1, <2>2, <2>3, NatBySets
<1> DEFINE f == CHOOSE g : IsFilter(g, Len(s))
<1>2. IsFilter(f, Len(s))
  <2>1. Len(s) \in T
    <3> Len(s) \in Nat
      OBVIOUS
    <3> HIDE DEF T
    <3> QED BY <1>1
  <2> QED BY <2>1
<1>3. Without(s, D) = f[Len(s)]
  BY DEF Without
<1> HIDE DEF f
<1>4. f[0] = <<>> /\ \A i \in 1..Len(s) : f[i] = Step(f, i)
  <2>1. ASSUME NEW i \in 0..Len(s) PROVE f[i] = Step(f, i)
    <3> Len(s) \in Nat OBVIOUS
    <3> HIDE DEF IsFilter, Step
    <3> QED BY <1>2, <1>0
  <2>2. f[0] = Step(f, 0)
    <3> HIDE DEF Step
    <3> QED BY <2>1
  <2> QED BY <2>1, <2>2
<1>5. \A i \in 1..Len(s) : f[i] = IF s[i] \in D THEN f[i-1] ELSE Append(f[i-1], s[i])
  BY <1>4
<1> QED BY <1>3, <1>4, <1>5

LEMMA AppendElems ==
  ASSUME NEW S, NEW s \in Seq(S), NEW x \in S
  PROVE  /\ Append(s, x) \in Seq(S) /\ Len(Append(s, x)) = Len(s) + 1
         /\ Elems(Append(s, x)) = Elems(s) \cup {x}
BY DEF Elems

\* Without returns a queue of the same records, no longer than it was, with
\* exactly the members of D gone.
LEMMA WithoutProperties ==
  ASSUME NEW S, NEW s \in Seq(S), NEW D
  PROVE  /\ Without(s, D) \in Seq(S)
         /\ Len(Without(s, D)) <= Len(s)
         /\ Elems(Without(s, D)) = Elems(s) \ D
<1>1. PICK f : /\ f[0] = <<>>
               /\ \A i \in 1..Len(s) :
                    f[i] = IF s[i] \in D THEN f[i-1] ELSE Append(f[i-1], s[i])
               /\ Without(s, D) = f[Len(s)]
  BY WithoutRecursion
<1> DEFINE Good(n) == /\ f[n] \in Seq(S) /\ Len(f[n]) <= n
                      /\ Elems(f[n]) = {s[i] : i \in 1..n} \ D
           U == {n \in Nat : n <= Len(s) => Good(n)}
<1>2. U = Nat
  <2>1. 0 \in U
    <3>1. f[0] \in Seq(S) /\ Len(f[0]) = 0
      BY <1>1
    <3>2. Elems(f[0]) = {} /\ {s[i] : i \in 1..0} = {}
      BY <3>1 DEF Elems
    <3> QED BY <3>1, <3>2
  <2>2. ASSUME NEW n \in Nat, n \in U PROVE n + 1 \in U
    <3> SUFFICES ASSUME n + 1 <= Len(s) PROVE Good(n+1)
      OBVIOUS
    <3>1. Good(n)
      BY <2>2
    <3>2. s[n+1] \in S /\ f[n+1] = IF s[n+1] \in D THEN f[n] ELSE Append(f[n], s[n+1])
      BY <1>1
    <3>3. {s[i] : i \in 1..(n+1)} = {s[i] : i \in 1..n} \cup {s[n+1]}
      OBVIOUS
    <3>4. CASE s[n+1] \in D
      BY <3>1, <3>2, <3>3, <3>4
    <3>5. CASE s[n+1] \notin D
      <4>1. /\ f[n+1] \in Seq(S) /\ Len(f[n+1]) = Len(f[n]) + 1
            /\ Elems(f[n+1]) = Elems(f[n]) \cup {s[n+1]}
        BY <3>1, <3>2, <3>5, AppendElems
      <4> QED BY <3>1, <3>2, <3>3, <3>5, <4>1
    <3> QED BY <3>4, <3>5
  <2> HIDE DEF U
  <2>3. U \subseteq Nat
    BY DEF U
  <2> QED BY <2>1, <2>2, <2>3, NatBySets
<1>3. Good(Len(s))
  <2>1. Len(s) \in Nat
    OBVIOUS
  <2> HIDE DEF Good
  <2> QED BY <1>2, <2>1
<1> QED BY <1>1, <1>3 DEF Elems

-----------------------------------------------------------------------------
(* Types.  The flags and the other variables are proved apart: the first   *)
(* are a matter for Zenon, the others for the SMT solver.                  *)

NetOK ==
  /\ conn \in {"none", "up", "hup"} /\ wire \in Seq(Requests) /\ back \in Seq(Replies)
  /\ faults \in 0..MaxFaults

\* What _open_slurmdbd_fd, a failed _send_msg and _recv_msg leave of the socket.
LEMMA NetStep ==
  ASSUME NetOK, OpenOk \/ OpenFail \/ SendFail \/ RecvOk \/ RecvFail
  PROVE  NetOK'
<1>1. ASSUME Fault PROVE faults' \in 0..MaxFaults
  BY <1>1, ConstantsAssumption DEF Fault, NetOK
<1>2. <<>> \in Seq(Requests) /\ <<>> \in Seq(Replies)
  OBVIOUS
<1>3. CASE OpenOk
  BY <1>2, <1>3 DEF OpenOk, NewConn, NetOK
<1>4. CASE OpenFail
  BY <1>1, <1>2, <1>4 DEF OpenFail, NoConn, NetOK
<1>5. CASE SendFail
  BY <1>1, <1>2, <1>5 DEF SendFail, NoConn, net, NetOK
<1>6. CASE RecvOk
  BY <1>6 DEF RecvOk, NetOK
<1>7. CASE RecvFail
  BY <1>1, <1>2, <1>7 DEF RecvFail, net, NetOK
<1> QED BY <1>3, <1>4, <1>5, <1>6, <1>7

\* ... and a _send_msg that succeeded.
LEMMA SendStep ==
  ASSUME NetOK, NEW q \in Requests, SendOk(q)
  PROVE  NetOK'
<1>1. <<>> \in Seq(Replies) /\ <<q>> \in Seq(Requests)
  OBVIOUS
<1>2. Append(wire, q) \in Seq(Requests)
  BY DEF NetOK
<1> QED BY <1>1, <1>2 DEF SendOk, NewConn, NetOK

LEMMA FlagsStep ==
  ASSUME TypeOK, [Next]_vars
  PROVE  FlagsOK'
<1>1. TypeOK /\ SendSlurmdbdMsg => FlagsOK'
  BY Zenon DEF SendSlurmdbdMsg, CreateAgent, TypeOK, FlagsOK, lock, net
<1>2. TypeOK /\ AgentLoop => FlagsOK'
  BY Zenon DEF AgentLoop, TypeOK, FlagsOK, queue, ctl, lock, net
<1>3. TypeOK /\ AgentLock => FlagsOK'
  BY Zenon DEF AgentLock, TypeOK, FlagsOK, queue, ctl, net
<1>4. TypeOK /\ AgentRelock => FlagsOK'
  BY Zenon DEF AgentRelock, TypeOK, FlagsOK, queue, ctl, net
<1>5. TypeOK /\ AgentOpen => FlagsOK'
  BY Zenon DEF AgentOpen, TypeOK, FlagsOK, OpenOk, OpenFail, NewConn, NoConn, queue, ctl, lock, net
<1>6. TypeOK /\ AgentPick => FlagsOK'
  BY Zenon DEF AgentPick, TypeOK, FlagsOK, queue, ctl, net
<1>7. TypeOK /\ AgentWake => FlagsOK'
  BY Zenon DEF AgentWake, TypeOK, FlagsOK, queue, ctl, lock, net
<1>8. TypeOK /\ AgentSend => FlagsOK'
  BY Zenon DEF AgentSend, TypeOK, FlagsOK, SendOk, SendFail, NewConn, NoConn, queue, ctl, net
<1>9. TypeOK /\ AgentRecv => FlagsOK'
  <2>1. TypeOK /\ RecvOk => Head(back).rc \in BOOLEAN
    <3>1. TypeOK /\ RecvOk => Head(back) \in Replies
      BY DEF TypeOK, DataOK, RecvOk
    <3> QED BY <3>1 DEF Replies
  <2> QED BY <2>1, Zenon DEF AgentRecv, RecvOk, RecvFail, TypeOK, FlagsOK, queue, ctl, net
<1>10. TypeOK /\ AgentDone => FlagsOK'
  BY Zenon DEF AgentDone, TypeOK, FlagsOK, ctl, lock, net
<1>11. TypeOK /\ AgentExit => FlagsOK'
  BY Zenon DEF AgentExit, TypeOK, FlagsOK, ctl, lock, net
<1>12. TypeOK /\ AgentDies => FlagsOK'
  BY Zenon DEF AgentDies, TypeOK, FlagsOK, queue, net
<1>13. TypeOK /\ RetryTimePasses => FlagsOK'
  BY Zenon DEF RetryTimePasses, TypeOK, FlagsOK, queue, ctl, lock, net
<1>14. ASSUME TypeOK, NEW c \in Callers, RpcBegin(c) PROVE FlagsOK'
  BY <1>14, Zenon DEF RpcBegin, TypeOK, FlagsOK, queue, ctl, agent, net
<1>15. ASSUME TypeOK, NEW c \in Callers, RpcLock(c) PROVE FlagsOK'
  BY <1>15, Zenon DEF RpcLock, TypeOK, FlagsOK, queue, ctl, agent, net
<1>16. ASSUME TypeOK, NEW c \in Callers, RpcSend(c) PROVE FlagsOK'
  BY <1>16, Zenon DEF RpcSend, TypeOK, FlagsOK, RpcEnd, OpenOk, OpenFail, SendOk, SendFail, NewConn, NoConn, queue, ctl, net
<1>17. ASSUME TypeOK, NEW c \in Callers, RpcRecv(c) PROVE FlagsOK'
  BY <1>17, Zenon DEF RpcRecv, TypeOK, FlagsOK, RecvOk, RecvFail, queue, ctl, net
<1>18. TypeOK /\ OpenConnFd => FlagsOK'
  BY Zenon DEF OpenConnFd, TypeOK, FlagsOK, OpenOk, OpenFail, NewConn, NoConn, queue, ctl, agent, lock, net
<1>19. TypeOK /\ OpenConnAgent => FlagsOK'
  BY Zenon DEF OpenConnAgent, TypeOK, FlagsOK, CreateAgent, lock, net
<1>20. TypeOK /\ CloseBegin => FlagsOK'
  BY Zenon DEF CloseBegin, TypeOK, FlagsOK, queue, agent, lock, net
<1>21. TypeOK /\ CloseCancel => FlagsOK'
  BY Zenon DEF CloseCancel, TypeOK, FlagsOK, queue, agent, lock, net
<1>22. TypeOK /\ CloseJoin => FlagsOK'
  BY Zenon DEF CloseJoin, TypeOK, FlagsOK, queue, agent, lock, net
<1>23. TypeOK /\ CloseFd => FlagsOK'
  BY Zenon DEF CloseFd, TypeOK, FlagsOK, NoConn, queue, ctl, agent, lock
<1>24. TypeOK /\ Reopen => FlagsOK'
  BY Zenon DEF Reopen, TypeOK, FlagsOK, queue, ctl, agent, lock, net
<1>25. TypeOK /\ (Restart \/ Crash) => FlagsOK'
  BY Zenon DEF TypeOK, FlagsOK, Restart, Crash, ProcessDies, NoConn
<1>26. TypeOK /\ ServerStep => FlagsOK'
  BY Zenon DEF ServerStep, TypeOK, FlagsOK, queue, ctl, agent, lock
<1>27. TypeOK /\ HangUp => FlagsOK'
  BY Zenon DEF HangUp, TypeOK, FlagsOK, queue, ctl, agent, lock
<1>28. TypeOK /\ UNCHANGED vars => FlagsOK'
  BY Zenon DEF TypeOK, FlagsOK, vars, queue, ctl, agent, lock, net
<1> QED
  BY <1>1, <1>2, <1>3, <1>4, <1>5, <1>6, <1>7, <1>8, <1>9, <1>10, <1>11, <1>12, <1>13, <1>14, <1>15, <1>16, <1>17, <1>18, <1>19, <1>20, <1>21, <1>22, <1>23, <1>24, <1>25, <1>26, <1>27, <1>28
     DEF Next, AgentStep, RpcStep, MainStep

LEMMA DataStep ==
  ASSUME TypeOK, [Next]_vars
  PROVE  DataOK'
<1>0. TypeOK => NetOK /\ (MaxMsgs \in Nat)
  BY ConstantsAssumption DEF TypeOK, DataOK, NetOK
<1>1. TypeOK /\ SendSlurmdbdMsg => DataOK'
  <2> SUFFICES ASSUME TypeOK, SendSlurmdbdMsg PROVE DataOK'
    OBVIOUS
  <2>1. Loaded \in Seq(Msgs)
    BY DEF Loaded, TypeOK, DataOK
  <2> DEFINE kept == IF Len(Loaded) = MaxQueue - 1
                       THEN Without(Loaded, Starts) ELSE Loaded
  <2>2. kept \in Seq(Msgs)
    BY <2>1, WithoutProperties
  <2>3. Elems(Loaded) \subseteq Msgs
    BY <2>1 DEF Elems
  <2>4. sent + 1 \in Msgs /\ sent' \in 0..MaxMsgs
    BY ConstantsAssumption DEF SendSlurmdbdMsg, TypeOK, DataOK, Msgs
  <2>5. agent_list' \in Seq(Msgs) /\ dropped' \subseteq Msgs
    <3> HIDE DEF kept
    <3>1. /\ agent_list' = (IF Room(kept) THEN Append(kept, sent + 1) ELSE kept)
          /\ dropped' = dropped \cup (Elems(Loaded) \ Elems(kept))
                                 \cup (IF Room(kept) THEN {} ELSE {sent + 1})
      BY DEF SendSlurmdbdMsg, kept
    <3> QED BY <3>1, <2>2, <2>3, <2>4 DEF TypeOK, DataOK
  <2>6. /\ UNCHANGED <<agent_lock, abuf, slurmdbd_lock, conn, wire, back, cpc, mpc, faults, rpcs, applied>>
        /\ file' \in {file, <<>>} /\ apc' \in {apc, "loop"}
    BY DEF SendSlurmdbdMsg, CreateAgent, FileAfterLoad, lock, net
  <2>7. file' \in Seq(Msgs)
    <3>1. <<>> \in Seq(Msgs)
      OBVIOUS
    <3> QED BY <2>6, <3>1 DEF TypeOK, DataOK
  <2> QED BY <2>4, <2>5, <2>6, <2>7 DEF TypeOK, DataOK, AgentPCs
<1>2. TypeOK /\ AgentLoop => DataOK'
  BY SMT DEF AgentLoop, TypeOK, DataOK, AgentPCs, queue, ctl, lock, net, hist
<1>3. TypeOK /\ AgentLock => DataOK'
  BY SMT DEF AgentLock, TypeOK, DataOK, AgentPCs, queue, ctl, net, hist
<1>4. TypeOK /\ AgentRelock => DataOK'
  BY SMT DEF AgentRelock, TypeOK, DataOK, AgentPCs, queue, ctl, net, hist
<1>5. TypeOK /\ AgentOpen => DataOK'
  <2>1. TypeOK /\ AgentOpen => NetOK'
    BY <1>0, NetStep DEF AgentOpen, NetOK, net
  <2> QED BY <2>1 DEF AgentOpen, NetOK, TypeOK, DataOK, AgentPCs, queue, ctl, lock, net, hist
<1>6. TypeOK /\ AgentPick => DataOK'
  BY SMT DEF AgentPick, TypeOK, DataOK, AgentPCs, queue, ctl, net, hist
<1>7. TypeOK /\ AgentWake => DataOK'
  BY SMT DEF AgentWake, TypeOK, DataOK, AgentPCs, queue, ctl, lock, net, hist
<1>8. TypeOK /\ AgentSend => DataOK'
  <2> SUFFICES ASSUME TypeOK, AgentSend PROVE DataOK'
    OBVIOUS
  <2>1. NetOK'
    <3>1. abuf \in Requests
      BY DEF AgentSend, TypeOK, DataOK, Requests
    <3> QED BY <1>0, <3>1, NetStep, SendStep DEF AgentSend
  <2>2. /\ apc' \in {"recv", "done", "exit"} /\ slurmdbd_lock' \in {slurmdbd_lock, "free"}
        /\ UNCHANGED <<agent_list, file, agent_lock, abuf, cpc, mpc, rpcs, sent, applied, dropped>>
        /\ apc = "send"
    BY DEF AgentSend, queue, ctl, hist
  <2> QED BY <2>1, <2>2 DEF NetOK, TypeOK, DataOK, AgentPCs
<1>9. TypeOK /\ AgentRecv => DataOK'
  <2>1. TypeOK /\ AgentRecv => NetOK'
    BY <1>0, NetStep DEF AgentRecv, NetOK, net
  <2> QED BY <2>1 DEF AgentRecv, NetOK, TypeOK, DataOK, AgentPCs, queue, ctl, hist
<1>10. TypeOK /\ AgentDone => DataOK'
  BY SMT DEF AgentDone, TypeOK, DataOK, Dequeued, AgentPCs, ctl, lock, net, hist
<1>11. TypeOK /\ AgentExit => DataOK'
  <2> SUFFICES ASSUME TypeOK, AgentExit PROVE DataOK'
    OBVIOUS
  <2> DEFINE recs == Without(agent_list, Registers)
  <2>1. recs \in Seq(Msgs) /\ Elems(agent_list) \subseteq Msgs
    BY WithoutProperties DEF TypeOK, DataOK, Elems
  <2>2. file' \in Seq(Msgs) /\ faults' \in 0..MaxFaults
    <3> HIDE DEF recs
    <3>1. \/ file' = recs /\ UNCHANGED faults
          \/ Fault /\ \E k \in 0..Len(recs) : file' = SubSeq(recs, 1, k)
          \/ Fault /\ UNCHANGED file
      BY DEF AgentExit, recs
    <3>2. ASSUME NEW k \in 0..Len(recs) PROVE SubSeq(recs, 1, k) \in Seq(Msgs)
      BY <2>1, <3>2
    <3>3. Fault => faults' \in 0..MaxFaults
      BY ConstantsAssumption DEF Fault, TypeOK, DataOK
    <3> QED BY <2>1, <3>1, <3>2, <3>3 DEF TypeOK, DataOK
  <2>3. /\ agent_list' = <<>> /\ apc' = "gone" /\ abuf' = 0
        /\ dropped' = dropped \cup (Elems(agent_list) \ Elems(file'))
        /\ UNCHANGED <<agent_lock, slurmdbd_lock, conn, wire, back, cpc, mpc, rpcs, sent, applied>>
    BY DEF AgentExit, ctl, lock, net
  <2> QED BY <2>1, <2>2, <2>3 DEF TypeOK, DataOK, AgentPCs
<1>12. TypeOK /\ AgentDies => DataOK'
  BY SMT DEF AgentDies, TypeOK, DataOK, AgentPCs, queue, net, hist
<1>13. TypeOK /\ RetryTimePasses => DataOK'
  BY SMT DEF RetryTimePasses, TypeOK, DataOK, queue, ctl, lock, net, hist
<1>14. ASSUME TypeOK, NEW c \in Callers, RpcBegin(c) PROVE DataOK'
  BY <1>14, ConstantsAssumption, SMT DEF RpcBegin, TypeOK, DataOK, CallerPCs, queue, ctl, agent, net, hist
<1>15. ASSUME TypeOK, NEW c \in Callers, RpcLock(c) PROVE DataOK'
  BY <1>15, ConstantsAssumption, SMT DEF RpcLock, TypeOK, DataOK, CallerPCs, queue, ctl, agent, net, hist
<1>16. ASSUME TypeOK, NEW c \in Callers, RpcSend(c) PROVE DataOK'
  <2>1. NetOK'
    <3>1. c \in Requests
      BY DEF Requests
    <3> QED BY <1>0, <1>16, <3>1, NetStep, SendStep DEF RpcSend
  <2>2. /\ apc' \in {apc, "relock"} /\ slurmdbd_lock' \in {slurmdbd_lock, "free"}
        /\ cpc' \in {cpc, [cpc EXCEPT ![c] = "recv"], [cpc EXCEPT ![c] = "idle"]}
        /\ UNCHANGED <<agent_list, file, agent_lock, abuf, mpc, rpcs, sent, applied, dropped>>
    BY <1>16 DEF RpcSend, RpcEnd, queue, ctl, hist
  <2> QED BY <1>16, <2>1, <2>2 DEF NetOK, TypeOK, DataOK, AgentPCs, CallerPCs
<1>17. ASSUME TypeOK, NEW c \in Callers, RpcRecv(c) PROVE DataOK'
  <2>1. NetOK'
    <3>1. c \in Requests
      BY DEF Requests
    <3> QED BY <1>0, <1>17, <3>1, NetStep, SendStep DEF RpcRecv
  <2>2. /\ apc' \in {apc, "relock"} /\ slurmdbd_lock' \in {slurmdbd_lock, "free"}
        /\ cpc' \in {cpc, [cpc EXCEPT ![c] = "recv"], [cpc EXCEPT ![c] = "idle"]}
        /\ UNCHANGED <<agent_list, file, agent_lock, abuf, mpc, rpcs, sent, applied, dropped>>
    BY <1>17 DEF RpcRecv, RpcEnd, queue, ctl, hist
  <2> QED BY <1>17, <2>1, <2>2 DEF NetOK, TypeOK, DataOK, AgentPCs, CallerPCs
<1>18. TypeOK /\ OpenConnFd => DataOK'
  <2>1. TypeOK /\ OpenConnFd => NetOK'
    BY <1>0, NetStep DEF OpenConnFd, NetOK, net
  <2> QED BY <2>1 DEF OpenConnFd, NetOK, TypeOK, DataOK, MainPCs, queue, ctl, agent, lock, net, hist
<1>19. TypeOK /\ OpenConnAgent => DataOK'
  <2> SUFFICES ASSUME TypeOK, OpenConnAgent PROVE DataOK'
    OBVIOUS
  <2>1. /\ agent_list' \in {Loaded, agent_list \o file}
        /\ file' \in {file, <<>>}
    BY DEF OpenConnAgent, CreateAgent, FileAfterLoad
  <2>2. agent_list' \in Seq(Msgs) /\ file' \in Seq(Msgs)
    <3>1. Loaded \in Seq(Msgs) /\ agent_list \o file \in Seq(Msgs) /\ <<>> \in Seq(Msgs)
      BY DEF Loaded, TypeOK, DataOK
    <3> QED BY <2>1, <3>1 DEF TypeOK, DataOK
  <2>3. /\ apc' \in {apc, "loop"} /\ mpc' = "run"
        /\ UNCHANGED <<agent_lock, abuf, slurmdbd_lock, conn, wire, back, cpc, faults, rpcs, sent, applied, dropped>>
    BY DEF OpenConnAgent, CreateAgent, lock, net, hist
  <2> QED BY <2>2, <2>3 DEF TypeOK, DataOK, AgentPCs, MainPCs
<1>20. TypeOK /\ CloseBegin => DataOK'
  BY SMT DEF CloseBegin, TypeOK, DataOK, MainPCs, queue, agent, lock, net, hist
<1>21. TypeOK /\ CloseCancel => DataOK'
  BY SMT DEF CloseCancel, TypeOK, DataOK, queue, agent, lock, net, hist
<1>22. TypeOK /\ CloseJoin => DataOK'
  BY SMT DEF CloseJoin, TypeOK, DataOK, MainPCs, queue, agent, lock, net, hist
<1>23. TypeOK /\ CloseFd => DataOK'
  BY SMT DEF CloseFd, TypeOK, DataOK, NoConn, MainPCs, queue, ctl, agent, lock, hist
<1>24. TypeOK /\ Reopen => DataOK'
  BY SMT DEF Reopen, TypeOK, DataOK, MainPCs, queue, ctl, agent, lock, net, hist
<1>25. TypeOK /\ (Restart \/ Crash) => DataOK'
  <2> SUFFICES ASSUME TypeOK, Restart \/ Crash PROVE DataOK'
    OBVIOUS
  <2>1. ProcessDies /\ faults' \in 0..MaxFaults
    BY ConstantsAssumption DEF Restart, Crash, Fault, TypeOK, DataOK
  <2>2. Elems(agent_list) \subseteq Msgs
    BY DEF TypeOK, DataOK, Elems
  <2> QED BY <2>1, <2>2 DEF ProcessDies, NoConn, TypeOK, DataOK, AgentPCs, CallerPCs, MainPCs
<1>26. TypeOK /\ ServerStep => DataOK'
  BY ConstantsAssumption, SMT DEF ServerStep, TypeOK, DataOK, Fault, Requests, Replies, queue, ctl, agent, lock
<1>27. TypeOK /\ HangUp => DataOK'
  <2> SUFFICES ASSUME TypeOK, HangUp PROVE DataOK'
    OBVIOUS
  <2>1. faults' \in 0..MaxFaults
    BY ConstantsAssumption DEF HangUp, Fault, TypeOK, DataOK
  <2>2. <<>> \in Seq(Replies) /\ wire' = <<>>
    BY DEF HangUp
  <2>3. back' \in Seq(Replies)
    BY <2>2 DEF HangUp, TypeOK, DataOK
  <2> QED BY <2>1, <2>2, <2>3 DEF HangUp, TypeOK, DataOK, queue, ctl, agent, lock, hist
<1>28. TypeOK /\ UNCHANGED vars => DataOK'
  BY SMT DEF TypeOK, DataOK, vars, queue, ctl, agent, lock, net, hist
<1> QED
  BY <1>1, <1>2, <1>3, <1>4, <1>5, <1>6, <1>7, <1>8, <1>9, <1>10, <1>11, <1>12, <1>13, <1>14, <1>15, <1>16, <1>17, <1>18, <1>19, <1>20, <1>21, <1>22, <1>23, <1>24, <1>25, <1>26, <1>27, <1>28
     DEF Next, AgentStep, RpcStep, MainStep

LEMMA TypeInit == Init => TypeOK
<1>1. Init => FlagsOK
  BY Zenon DEF Init, FlagsOK
<1>2. Init => DataOK
  BY ConstantsAssumption DEF Init, DataOK, AgentPCs, CallerPCs, MainPCs
<1> QED BY <1>1, <1>2 DEF TypeOK

LEMMA TypeStep == TypeOK /\ [Next]_vars => TypeOK'
BY FlagsStep, DataStep DEF TypeOK

\* Every variable has its type in every reachable state.
THEOREM TypeCorrect == Spec => []TypeOK
BY TypeInit, TypeStep, PTL DEF Spec

-----------------------------------------------------------------------------
(* The queue and dbd.messages.  QueueBounded is not inductive by itself:   *)
(* _create_agent moves the file into the list, which keeps to the limit    *)
(* only because one of the two is always empty.                            *)

QueueInv ==
  /\ QueueBounded
  /\ ListOrFile
  /\ ~list_made => agent_list = <<>>

\* The steps that touch the queue.
LEMMA QueueActions ==
  ASSUME [Next]_vars
  PROVE  \/ SendSlurmdbdMsg \/ OpenConnAgent \/ AgentExit \/ AgentDone \/ Restart \/ Crash
         \/ UNCHANGED queue
<1>1. \A c \in Callers : RpcBegin(c) \/ RpcStep(c) => UNCHANGED queue
  BY DEF RpcBegin, RpcStep, RpcLock, RpcSend, RpcRecv
<1>2. AgentLoop \/ AgentLock \/ AgentRelock \/ AgentOpen \/ AgentPick \/ AgentWake \/ AgentSend
      \/ AgentRecv \/ AgentDies \/ RetryTimePasses => UNCHANGED queue
  BY DEF AgentLoop, AgentLock, AgentRelock, AgentOpen, AgentPick, AgentWake, AgentSend,
         AgentRecv, AgentDies, RetryTimePasses
<1>3. OpenConnFd \/ CloseJoin \/ CloseFd \/ CloseBegin \/ CloseCancel \/ Reopen
      \/ ServerStep \/ HangUp => UNCHANGED queue
  BY DEF OpenConnFd, CloseJoin, CloseFd, CloseBegin, CloseCancel, Reopen, ServerStep, HangUp
<1> QED BY <1>1, <1>2, <1>3 DEF Next, AgentStep, MainStep, vars

LEMMA QueueStep ==
  ASSUME TypeOK, QueueInv, [Next]_vars
  PROVE  QueueInv'
<1> USE DEF QueueInv, QueueBounded, ListOrFile
<1>0. /\ agent_list \in Seq(Msgs) /\ file \in Seq(Msgs)
      /\ Len(<<>>) = 0 /\ MaxQueue \in Nat \ {0}
  BY ConstantsAssumption DEF TypeOK, DataOK
<1>1. Loaded \in Seq(Msgs) /\ Len(Loaded) <= MaxQueue
  BY <1>0 DEF Loaded
<1>2. ASSUME SendSlurmdbdMsg PROVE QueueInv'
  <2> DEFINE kept == IF Len(Loaded) = MaxQueue - 1
                       THEN Without(Loaded, Starts) ELSE Loaded
  <2>1. kept \in Seq(Msgs) /\ Len(kept) <= MaxQueue
    BY <1>0, <1>1, WithoutProperties
  <2>2. agent_list' = IF Room(kept) THEN Append(kept, sent + 1) ELSE kept
    BY <1>2 DEF SendSlurmdbdMsg
  <2>3. Len(agent_list') <= MaxQueue
    <3> HIDE DEF kept
    <3>1. CASE Room(kept)
      <4>1. Len(agent_list') = Len(kept) + 1
        BY <2>1, <2>2, <3>1
      <4> QED BY <4>1, <2>1, <3>1, <1>0 DEF Room
    <3>2. CASE ~Room(kept)
      BY <2>1, <2>2, <3>2
    <3> QED BY <3>1, <3>2
  <2>4. list_made' = TRUE /\ file' = <<>>
    <3>1. CASE NeedAgent
      BY <1>2, <3>1 DEF SendSlurmdbdMsg, CreateAgent, FileAfterLoad
    <3>2. CASE ~NeedAgent
      BY <1>2, <3>2, Zenon DEF SendSlurmdbdMsg, NeedAgent, TypeOK, FlagsOK
    <3> QED BY <3>1, <3>2
  <2>5. Len(agent_list') \in Nat
    <3> HIDE DEF kept
    <3> QED BY <2>1, <2>2
  <2> QED BY <2>3, <2>4, <2>5, <1>0
<1>3. ASSUME OpenConnAgent PROVE QueueInv'
  <2>1. CASE NeedAgent
    <3>1. agent_list' = Loaded /\ file' = <<>>
      BY <1>3, <2>1 DEF OpenConnAgent, CreateAgent, FileAfterLoad
    <3>2. list_made' = TRUE
      BY <1>3, <2>1, Zenon DEF OpenConnAgent, CreateAgent
    <3> QED BY <3>1, <3>2, <1>0, <1>1
  <2>2. CASE ~NeedAgent
    <3>1. /\ agent_list' = agent_list \o file /\ file' = <<>>
          /\ list_made' = list_made /\ list_made
      BY <1>3, <2>2 DEF OpenConnAgent, NeedAgent
    <3>2. Len(agent_list \o file) = Len(agent_list) + Len(file)
      BY <1>0
    <3> QED BY <3>1, <3>2, <1>0
  <2> QED BY <2>1, <2>2
<1>4. ASSUME AgentExit PROVE QueueInv'
  <2> DEFINE recs == Without(agent_list, Registers)
  <2>1. recs \in Seq(Msgs) /\ Len(recs) <= Len(agent_list)
    BY <1>0, WithoutProperties
  <2>2. agent_list' = <<>> /\ ~list_made'
    BY <1>4 DEF AgentExit
  <2>3. Len(file') <= MaxQueue /\ Len(file') \in Nat
    <3>1. \/ file' = recs
          \/ \E k \in 0..Len(recs) : file' = SubSeq(recs, 1, k)
          \/ file' = file
      BY <1>4 DEF AgentExit
    <3> HIDE DEF recs
    <3>2. ASSUME NEW k \in 0..Len(recs) PROVE Len(SubSeq(recs, 1, k)) = k
      BY <2>1, <3>2
    <3> QED BY <2>1, <3>1, <3>2, <1>0
  <2> QED BY <2>2, <2>3, <1>0
<1>5. ASSUME AgentDone PROVE QueueInv'
  <2>1. agent_list' \in {agent_list, Tail(agent_list)} /\ UNCHANGED <<list_made, file>>
        /\ (agent_list = <<>> => agent_list' = <<>>)
    BY <1>5 DEF AgentDone, Dequeued
  <2>2. agent_list # <<>> => Len(Tail(agent_list)) = Len(agent_list) - 1
    BY <1>0
  <2>3. CASE agent_list = <<>>
    BY <2>1, <2>3, <1>0
  <2>4. CASE agent_list # <<>>
    BY <2>1, <2>2, <2>4, <1>0
  <2> QED BY <2>3, <2>4
<1>6. ASSUME Restart \/ Crash PROVE QueueInv'
  <2>1. agent_list' = <<>> /\ ~list_made' /\ file' = file
    BY <1>6 DEF Restart, Crash, ProcessDies
  <2> QED BY <2>1, <1>0
<1>7. ASSUME UNCHANGED queue PROVE QueueInv'
  BY <1>7 DEF queue
<1> QED BY <1>2, <1>3, <1>4, <1>5, <1>6, <1>7, QueueActions

LEMMA QueueInitially == Init => QueueInv
BY ConstantsAssumption DEF Init, QueueInv, QueueBounded, ListOrFile

\* The queue, with what dbd.messages will put back on it, never outgrows
\* MAX_AGENT_QUEUE: through purges, discarded requests, saves, loads by
\* _create_agent and by slurm_open_slurmdbd_conn, crashes and races with close.
THEOREM QueueBoundedAlways == Spec => []QueueBounded
<1>1. QueueInv => QueueBounded
  BY DEF QueueInv
<1>2. TypeOK /\ QueueInv /\ [Next]_vars => QueueInv'
  BY QueueStep
<1> QED BY <1>1, <1>2, QueueInitially, TypeCorrect, PTL DEF Spec

\* Unsent messages are never both in memory and in dbd.messages, so the
\* O_TRUNC of _save_dbd_state destroys nothing.
THEOREM ListOrFileAlways == Spec => []ListOrFile
<1>1. QueueInv => ListOrFile
  BY DEF QueueInv
<1>2. TypeOK /\ QueueInv /\ [Next]_vars => QueueInv'
  BY QueueStep
<1> QED BY <1>1, <1>2, QueueInitially, TypeCorrect, PTL DEF Spec

-----------------------------------------------------------------------------
(* slurmdbd_lock and slurmdbd_cond.                                        *)

LockInv == OneSocketUser /\ AgentWaitHasWaker

\* Steps that touch neither the lock, nor halt_agent, nor a thread's position,
\* except that a new agent thread may start.
LEMMA LockFrame ==
  ASSUME LockInv, UNCHANGED <<slurmdbd_lock, halt_agent, cpc>>,
         apc' = apc \/ apc' \in {"loop", "lock", "idle", "done", "exit", "gone", "relock"}
  PROVE  LockInv'
BY DEF LockInv, OneSocketUser, AgentWaitHasWaker

LEMMA LockStep ==
  ASSUME TypeOK, LockInv, [Next]_vars
  PROVE  LockInv'
<1>0. "free" \notin Callers /\ "agent" \notin Callers /\ cpc \in [Callers -> CallerPCs]
  BY ConstantsAssumption DEF TypeOK, DataOK
<1> USE DEF LockInv, OneSocketUser, AgentWaitHasWaker
<1>1. ASSUME SendSlurmdbdMsg \/ OpenConnAgent PROVE LockInv'
  <2>1. UNCHANGED <<slurmdbd_lock, halt_agent, cpc>> /\ apc' \in {apc, "loop"}
    BY <1>1 DEF SendSlurmdbdMsg, OpenConnAgent, CreateAgent, lock
  <2> QED BY <2>1, LockFrame
<1>2. ASSUME AgentLoop \/ AgentWake \/ AgentDone \/ AgentExit PROVE LockInv'
  <2>1. UNCHANGED <<slurmdbd_lock, halt_agent, cpc>> /\ apc' \in {"loop", "lock", "exit", "gone"}
    BY <1>2 DEF AgentLoop, AgentWake, AgentDone, AgentExit, lock
  <2> QED BY <2>1, LockFrame
<1>3. ASSUME AgentLock PROVE LockInv'
  BY <1>0, <1>3 DEF AgentLock
<1>4. ASSUME AgentRelock PROVE LockInv'
  BY <1>0, <1>4 DEF AgentRelock
<1>5. ASSUME AgentOpen PROVE LockInv'
  BY <1>0, <1>5 DEF AgentOpen, lock
<1>6. ASSUME AgentPick PROVE LockInv'
  BY <1>0, <1>6 DEF AgentPick
<1>7. ASSUME AgentSend \/ AgentRecv PROVE LockInv'
  <2>1. /\ UNCHANGED <<halt_agent, cpc>> /\ slurmdbd_lock = "agent"
        /\ \/ apc' = "recv" /\ slurmdbd_lock' = slurmdbd_lock
           \/ apc' \in {"done", "exit"} /\ slurmdbd_lock' = "free"
    BY <1>7 DEF AgentSend, AgentRecv
  <2> QED BY <1>0, <2>1
<1>8. ASSUME AgentDies PROVE LockInv'
  <2>1. /\ UNCHANGED <<halt_agent, cpc>> /\ apc' = "gone"
        /\ \/ slurmdbd_lock' = slurmdbd_lock
           \/ slurmdbd_lock = "free" /\ slurmdbd_lock' = "agent"
    BY <1>8 DEF AgentDies
  <2> QED BY <1>0, <2>1
<1>9. ASSUME NEW c \in Callers, RpcBegin(c) PROVE LockInv'
  <2>1. /\ cpc[c] = "idle" /\ cpc' = [cpc EXCEPT ![c] = "want"]
        /\ UNCHANGED <<slurmdbd_lock, apc>>
    BY <1>9 DEF RpcBegin, agent
  <2>2. cpc'[c] = "want" /\ \A d \in Callers : d # c => cpc'[d] = cpc[d]
    BY <1>0, <2>1
  <2> QED BY <2>1, <2>2
<1>10. ASSUME NEW c \in Callers, RpcLock(c) PROVE LockInv'
  <2>1. /\ cpc[c] = "want" /\ cpc' = [cpc EXCEPT ![c] = "send"] /\ apc' = apc
        /\ slurmdbd_lock = "free" /\ slurmdbd_lock' = c
    BY <1>10 DEF RpcLock, agent
  <2>2. ~halt_agent'
    BY <1>10 DEF RpcLock
  <2>3. cpc'[c] = "send" /\ \A d \in Callers : d # c => cpc'[d] = cpc[d]
    BY <1>0, <2>1
  <2> QED BY <1>0, <2>1, <2>2, <2>3
<1>11. ASSUME NEW c \in Callers, RpcSend(c) \/ RpcRecv(c) PROVE LockInv'
  <2>1. /\ cpc[c] \in {"send", "recv"} /\ UNCHANGED halt_agent
        /\ \/ UNCHANGED <<cpc, apc, slurmdbd_lock>>
           \/ cpc' = [cpc EXCEPT ![c] = "recv"] /\ UNCHANGED <<apc, slurmdbd_lock>>
           \/ /\ cpc' = [cpc EXCEPT ![c] = "idle"] /\ slurmdbd_lock' = "free"
              /\ apc' = IF apc = "condwait" THEN "relock" ELSE apc
    BY <1>11 DEF RpcSend, RpcRecv, RpcEnd
  <2>2. /\ \A d \in Callers : d # c => cpc'[d] = cpc[d]
        /\ cpc'[c] \in {cpc[c], "recv", "idle"}
    BY <1>0, <2>1
  <2>3. slurmdbd_lock = c /\ apc \notin {"open", "pick", "send", "recv"}
    BY <1>0, <2>1
  <2>4. halt_agent' => \E d \in Callers : cpc'[d] = "want"
    BY <2>1, <2>2
  <2>5. CASE UNCHANGED <<cpc, apc, slurmdbd_lock>>
    BY <2>1, <2>5
  <2>6. CASE cpc' = [cpc EXCEPT ![c] = "recv"] /\ UNCHANGED <<apc, slurmdbd_lock>>
    <3>1. cpc'[c] = "recv"
      BY <1>0, <2>6
    <3> QED BY <2>2, <2>3, <2>4, <2>6, <3>1
  <2>7. CASE /\ cpc' = [cpc EXCEPT ![c] = "idle"] /\ slurmdbd_lock' = "free"
             /\ apc' = IF apc = "condwait" THEN "relock" ELSE apc
    <3>1. cpc'[c] = "idle"
      BY <1>0, <2>7
    <3> QED BY <1>0, <2>2, <2>3, <2>4, <2>7, <3>1
  <2> QED BY <2>1, <2>5, <2>6, <2>7
<1>12. ASSUME Restart \/ Crash PROVE LockInv'
  <2>1. /\ apc' = "gone" /\ slurmdbd_lock' = "free" /\ ~halt_agent'
        /\ cpc' = [c \in Callers |-> "idle"]
    BY <1>12 DEF Restart, Crash, ProcessDies
  <2> QED BY <1>0, <2>1
<1>13. ASSUME \/ OpenConnFd \/ CloseBegin \/ CloseCancel \/ CloseJoin \/ CloseFd \/ Reopen
              \/ ServerStep \/ HangUp \/ RetryTimePasses \/ UNCHANGED vars
       PROVE  LockInv'
  <2>1. UNCHANGED <<slurmdbd_lock, halt_agent, cpc, apc>>
    BY <1>13 DEF OpenConnFd, CloseBegin, CloseCancel, CloseJoin, CloseFd, Reopen, ServerStep, HangUp,
                 RetryTimePasses, vars, agent, lock
  <2> QED BY <2>1, LockFrame
<1> HIDE DEF LockInv, OneSocketUser, AgentWaitHasWaker
<1> QED
  BY <1>1, <1>2, <1>3, <1>4, <1>5, <1>6, <1>7, <1>8, <1>9, <1>10, <1>11, <1>12, <1>13
     DEF Next, AgentStep, RpcStep, MainStep

LEMMA LockInitially == Init => LockInv
BY ConstantsAssumption DEF Init, LockInv, OneSocketUser, AgentWaitHasWaker

\* The agent and the RPC callers never use the socket at the same time, even
\* when the agent is cancelled or a new one is started during a close.
THEOREM OneSocketUserAlways == Spec => []OneSocketUser
<1>1. LockInv => OneSocketUser
  BY DEF LockInv
<1>2. TypeOK /\ LockInv /\ [Next]_vars => LockInv'
  BY LockStep
<1> QED BY <1>1, <1>2, LockInitially, TypeCorrect, PTL DEF Spec

\* No wakeup is lost: while the agent waits on slurmdbd_cond some RPC is under
\* way, and the end of every RPC signals it.
THEOREM AgentWaitHasWakerAlways == Spec => []AgentWaitHasWaker
<1>1. LockInv => AgentWaitHasWaker
  BY DEF LockInv
<1>2. TypeOK /\ LockInv /\ [Next]_vars => LockInv'
  BY LockStep
<1> QED BY <1>1, <1>2, LockInitially, TypeCorrect, PTL DEF Spec

-----------------------------------------------------------------------------
(* Queues in order.                                                        *)

\* Records in the order they were accepted, none of them twice.
Increasing(s) == \A i, j \in 1..Len(s) : i < j => s[i] < s[j]

LEMMA AppendIncreasing ==
  ASSUME NEW s \in Seq(Nat), NEW x \in Nat, Increasing(s), \A y \in Elems(s) : y < x
  PROVE  Increasing(Append(s, x))
BY DEF Increasing, Elems

\* Without keeps the order of what stays.
LEMMA WithoutIncreasing ==
  ASSUME NEW s \in Seq(Nat), NEW D, Increasing(s)
  PROVE  Increasing(Without(s, D))
<1>1. PICK f : /\ f[0] = <<>>
               /\ \A i \in 1..Len(s) :
                    f[i] = IF s[i] \in D THEN f[i-1] ELSE Append(f[i-1], s[i])
               /\ Without(s, D) = f[Len(s)]
  BY WithoutRecursion
<1> DEFINE Good(n) == /\ f[n] \in Seq(Nat) /\ Increasing(f[n])
                      /\ Elems(f[n]) \subseteq {s[i] : i \in 1..n}
           U == {n \in Nat : n <= Len(s) => Good(n)}
<1>2. U = Nat
  <2>1. 0 \in U
    <3>1. f[0] \in Seq(Nat) /\ Len(f[0]) = 0
      BY <1>1
    <3>2. Elems(f[0]) = {} /\ Increasing(f[0])
      BY <3>1 DEF Elems, Increasing
    <3> QED BY <3>1, <3>2
  <2>2. ASSUME NEW n \in Nat, n \in U PROVE n + 1 \in U
    <3> SUFFICES ASSUME n + 1 <= Len(s) PROVE Good(n+1)
      OBVIOUS
    <3>1. Good(n)
      BY <2>2
    <3>2. s[n+1] \in Nat /\ f[n+1] = IF s[n+1] \in D THEN f[n] ELSE Append(f[n], s[n+1])
      BY <1>1
    <3>3. CASE s[n+1] \in D
      BY <3>1, <3>2, <3>3
    <3>4. CASE s[n+1] \notin D
      <4>1. f[n+1] = Append(f[n], s[n+1])
        BY <3>2, <3>4
      <4>2. \A y \in Elems(f[n]) : y < s[n+1]
        <5>1. \A i \in 1..n : s[i] < s[n+1]
          BY DEF Increasing
        <5> QED BY <3>1, <5>1
      <4>3. Elems(Append(f[n], s[n+1])) = Elems(f[n]) \cup {s[n+1]} /\ f[n+1] \in Seq(Nat)
        BY <3>1, <3>2, <4>1, AppendElems
      <4>4. Increasing(f[n+1])
        BY <3>1, <3>2, <4>1, <4>2, AppendIncreasing
      <4> QED BY <3>1, <4>1, <4>3, <4>4
    <3> QED BY <3>3, <3>4
  <2> HIDE DEF U
  <2>3. U \subseteq Nat
    BY DEF U
  <2> QED BY <2>1, <2>2, <2>3, NatBySets
<1>3. Good(Len(s))
  <2>1. Len(s) \in Nat
    OBVIOUS
  <2> HIDE DEF Good
  <2> QED BY <1>2, <2>1
<1> QED BY <1>1, <1>3

\* Of two queues in order that agree before n, the one with the smaller record at n
\* has a record that the other lacks.
LEMMA IncreasingStep ==
  ASSUME NEW u \in Seq(Nat), NEW v \in Seq(Nat), Increasing(u), Increasing(v),
         Elems(u) \subseteq Elems(v), NEW n \in 1..Len(u), n \in 1..Len(v),
         \A k \in 1..(n-1) : u[k] = v[k]
  PROVE  ~(u[n] < v[n])
<1> SUFFICES ASSUME u[n] < v[n] PROVE FALSE
  OBVIOUS
<1>0. v[n] \in Nat /\ u[n] \in Nat
  OBVIOUS
<1>1. PICK k \in 1..Len(v) : v[k] = u[n]
  BY DEF Elems
<1>3. k < n
  BY <1>0, <1>1 DEF Increasing
<1>4. k \in 1..(n-1) /\ k \in 1..Len(u) /\ k \in Nat /\ n \in Nat
  BY <1>3
<1>5. u[k] < u[n]
  BY <1>3, <1>4 DEF Increasing
<1>6. u[k] = v[k]
  BY <1>4
<1> QED BY <1>0, <1>1, <1>5, <1>6

\* A queue in order is determined by the records it holds.
LEMMA IncreasingUnique ==
  ASSUME NEW s \in Seq(Nat), NEW t \in Seq(Nat), Increasing(s), Increasing(t),
         Elems(s) = Elems(t)
  PROVE  s = t
<1>0. Len(s) \in Nat /\ Len(t) \in Nat
  OBVIOUS
<1> DEFINE B == {n \in Nat : n \in 1..Len(s) /\ n \in 1..Len(t) /\ s[n] # t[n]}
<1>2. B = {}
  <2> SUFFICES ASSUME B # {} PROVE FALSE
    OBVIOUS
  <2>1. PICK n \in B : \A m \in B : n <= m
    BY NatMin
  <2>2. n \in 1..Len(s) /\ n \in 1..Len(t) /\ s[n] # t[n]
    BY <2>1
  <2>a. s[n] \in Nat /\ t[n] \in Nat
    <3> HIDE DEF B
    <3> QED BY <2>2
  <2>b. Elems(s) \subseteq Elems(t) /\ Elems(t) \subseteq Elems(s)
    OBVIOUS
  <2>3. \A k \in 1..(n-1) : s[k] = t[k]
    <3> SUFFICES ASSUME NEW k \in 1..(n-1), s[k] # t[k] PROVE FALSE
      OBVIOUS
    <3>0. n \in Nat /\ n <= Len(s) /\ n <= Len(t) /\ k \in Nat /\ 1 <= k /\ k < n
      <4> HIDE DEF B
      <4> QED BY <2>2, <1>0
    <3>1. k \in B
      <4>1. k \in 1..Len(s) /\ k \in 1..Len(t)
        <5> HIDE DEF B
        <5> QED BY <3>0, <1>0
      <4> QED BY <3>0, <4>1
    <3> HIDE DEF B
    <3> QED BY <2>1, <3>0, <3>1
  <2> HIDE DEF B
  <2>4. ~(s[n] < t[n])
    BY <2>2, <2>3, <2>b, IncreasingStep
  <2>5. ~(t[n] < s[n])
    BY <2>2, <2>3, <2>b, IncreasingStep
  <2> QED BY <2>2, <2>a, <2>4, <2>5
<1>3. ASSUME NEW u \in Seq(Nat), NEW v \in Seq(Nat), Increasing(v), Elems(v) \subseteq Elems(u),
             \A k \in 1..Len(u) : k \in 1..Len(v) => u[k] = v[k]
      PROVE  Len(v) <= Len(u)
  <2> SUFFICES ASSUME Len(u) < Len(v) PROVE FALSE
    OBVIOUS
  <2> DEFINE m == Len(u) + 1
  <2>1. m \in 1..Len(v) /\ v[m] \in Nat
    OBVIOUS
  <2>2. PICK k \in 1..Len(u) : u[k] = v[m]
    BY <1>3, <2>1 DEF Elems
  <2>3. k \in 1..Len(v) /\ k < m
    OBVIOUS
  <2>4. v[k] = u[k] /\ v[k] \in Nat
    BY <1>3, <2>3
  <2>5. v[k] < v[m]
    <3> HIDE DEF m
    <3> QED BY <1>3, <2>1, <2>3 DEF Increasing
  <2> QED BY <2>1, <2>2, <2>4, <2>5
<1>4. \A n \in 1..Len(s) : n \in 1..Len(t) => s[n] = t[n]
  BY <1>2
<1>5. Len(t) <= Len(s)
  BY <1>3, <1>4
<1>6. Len(s) <= Len(t)
  BY <1>3, <1>4
<1>7. Len(s) = Len(t)
  BY <1>5, <1>6
<1> QED
  <2> HIDE DEF B
  <2> QED BY <1>4, <1>7, SeqEqual

\* The parts of a queue in order that list_dequeue and a cut file leave.
LEMMA TailIncreasing ==
  ASSUME NEW s \in Seq(Nat), s # <<>>, Increasing(s)
  PROVE  /\ Increasing(Tail(s))
         /\ Head(s) \in Elems(s) /\ Elems(Tail(s)) = Elems(s) \ {Head(s)}
         /\ \A x \in Elems(s) : Head(s) <= x
<1>1. Len(s) \in Nat /\ Len(s) > 0 /\ Len(Tail(s)) = Len(s) - 1
  OBVIOUS
<1>2. /\ \A i \in 1..Len(Tail(s)) : Tail(s)[i] = s[i+1]
      /\ \A i \in 1..Len(s) : s[i] \in Nat
  OBVIOUS
<1>3. Head(s) = s[1] /\ \A i \in 2..Len(s) : s[1] < s[i]
  BY <1>1 DEF Increasing
<1>4. Increasing(Tail(s))
  BY <1>1, <1>2 DEF Increasing
<1>5. Head(s) \in Elems(s) /\ \A x \in Elems(s) : Head(s) <= x
  BY <1>1, <1>2, <1>3 DEF Elems
<1>6. Elems(Tail(s)) \subseteq Elems(s) \ {Head(s)}
  BY <1>1, <1>2, <1>3 DEF Elems
<1>7. ASSUME NEW x \in Elems(s), x # Head(s) PROVE x \in Elems(Tail(s))
  <2>1. PICK i \in 1..Len(s) : x = s[i]
    BY DEF Elems
  <2>2. i - 1 \in 1..Len(Tail(s)) /\ Tail(s)[i-1] = s[i]
    BY <1>1, <1>2, <1>3, <1>7, <2>1
  <2> QED BY <2>1, <2>2 DEF Elems
<1> QED BY <1>4, <1>5, <1>6, <1>7

LEMMA TailElems ==
  ASSUME NEW S, NEW s \in Seq(S), s # <<>>
  PROVE  Elems(s) = Elems(Tail(s)) \cup {Head(s)}
<1>1. /\ Len(s) \in Nat /\ Len(s) > 0 /\ Len(Tail(s)) = Len(s) - 1 /\ Head(s) = s[1]
      /\ \A i \in 1..Len(Tail(s)) : Tail(s)[i] = s[i+1] /\ i + 1 \in 1..Len(s)
  OBVIOUS
<1>2. ASSUME NEW i \in 1..Len(s), i # 1 PROVE i - 1 \in 1..Len(Tail(s)) /\ Tail(s)[i-1] = s[i]
  BY <1>1, <1>2
<1>3. ASSUME NEW x \in Elems(s), x # Head(s) PROVE x \in Elems(Tail(s))
  <2>1. PICK i \in 1..Len(s) : x = s[i]
    BY DEF Elems
  <2> QED BY <1>1, <1>2, <1>3, <2>1 DEF Elems
<1> QED BY <1>1, <1>3 DEF Elems

LEMMA SubSeqIncreasing ==
  ASSUME NEW s \in Seq(Nat), Increasing(s), NEW k \in 0..Len(s)
  PROVE  Increasing(SubSeq(s, 1, k)) /\ Elems(SubSeq(s, 1, k)) \subseteq Elems(s)
<1>1. Len(SubSeq(s, 1, k)) = k /\ \A i \in 1..k : SubSeq(s, 1, k)[i] = s[i]
  OBVIOUS
<1> QED BY <1>1 DEF Increasing, Elems

LEMMA EmptyIncreasing == Increasing(<<>>) /\ Elems(<<>>) = {}
BY DEF Increasing, Elems

-----------------------------------------------------------------------------
(* The order of the messages.  What waits, what the agent holds, what is   *)
(* on its way and what was processed never overtake each other, although   *)
(* the same message may be in all four places after a resend.              *)

Upto(S, T) == \A x \in S, y \in T : x <= y

InLine  == Elems(agent_list) \cup Elems(file)
Held    == {abuf} \ {0}
Carried == Elems(wire) \cap Msgs

QueuesInOrder == Increasing(agent_list) /\ Increasing(file)

NothingOvertakes ==
  /\ InLine \cup Held \cup Carried \cup applied \subseteq 1..sent
  /\ Upto(applied, Carried \cup Held \cup InLine)
  /\ Upto(Carried, Held \cup InLine)
  /\ Upto(Held, InLine)

WireInOrder ==
  \A i, j \in 1..Len(wire) : i < j /\ wire[i] \in Msgs /\ wire[j] \in Msgs => wire[i] <= wire[j]

OrderInv == QueuesInOrder /\ NothingOvertakes /\ WireInOrder

\* Steps in which nothing but a new message enters a queue, and nothing else moves on.
LEMMA OrderFrame ==
  ASSUME TypeOK, OrderInv, QueuesInOrder',
         sent' = sent \/ sent' = sent + 1,
         InLine' \subseteq InLine \cup ({sent'} \ {sent}),
         abuf' \in {abuf, 0}, wire' \in {wire, <<>>}, applied' = applied
  PROVE  OrderInv'
<1>1. sent \in Nat
  BY DEF TypeOK, DataOK
<1>2. Held' \subseteq Held
  BY DEF Held
<1>3. Carried' \subseteq Carried /\ WireInOrder'
  <2>1. CASE wire' = wire
    BY <2>1 DEF Carried, OrderInv, WireInOrder
  <2>2. CASE wire' = <<>>
    BY <2>2 DEF Carried, Elems, WireInOrder
  <2> QED BY <2>1, <2>2
<1>4. \A x \in InLine \cup Held \cup Carried \cup applied : x \in Nat /\ x \in 1..sent /\ x <= sent'
  BY <1>1 DEF OrderInv, NothingOvertakes
<1>5. \A y \in InLine' : y \in InLine \/ y = sent'
  OBVIOUS
<1>6. InLine' \cup Held' \cup Carried' \cup applied' \subseteq 1..sent'
  BY <1>1, <1>2, <1>3, <1>4
<1>7. Upto(applied', Carried' \cup Held' \cup InLine')
  BY <1>2, <1>3, <1>4, <1>5 DEF OrderInv, NothingOvertakes, Upto
<1>8. Upto(Carried', Held' \cup InLine') /\ Upto(Held', InLine')
  BY <1>2, <1>3, <1>4, <1>5 DEF OrderInv, NothingOvertakes, Upto
<1>9. NothingOvertakes'
  BY <1>6, <1>7, <1>8 DEF NothingOvertakes, Upto
<1> QED BY <1>3, <1>9 DEF OrderInv

\* Steps that leave the queues and the agent's message alone.
LEMMA OrderFrameNet ==
  ASSUME TypeOK, OrderInv, UNCHANGED <<agent_list, file, sent, applied>>,
         abuf' \in {abuf, 0}, wire' \in {wire, <<>>}
  PROVE  OrderInv'
<1>1. QueuesInOrder' /\ InLine' = InLine
  BY DEF OrderInv, QueuesInOrder, InLine
<1> QED BY <1>1, OrderFrame

\* _send_msg puts a request behind the others: one of an RPC caller, or the
\* message the agent holds.
LEMMA WireGrows ==
  ASSUME TypeOK, OrderInv, UNCHANGED <<agent_list, file, abuf, sent, applied>>,
         NEW q \in Requests, q \in Msgs => q \in Held,
         wire' \in {wire, <<>>, Append(wire, q), <<q>>}
  PROVE  OrderInv'
<1>0. wire \in Seq(Requests)
  BY DEF TypeOK, DataOK
<1>1. InLine' = InLine /\ Held' = Held /\ QueuesInOrder'
  BY DEF InLine, Held, OrderInv, QueuesInOrder
<1>2. CASE wire' \in {wire, <<>>}
  BY <1>2, OrderFrameNet
<1>3. CASE wire' = Append(wire, q)
  <2>1. Elems(wire') = Elems(wire) \cup {q}
    BY <1>0, <1>3, AppendElems
  <2>2. Carried' \subseteq Carried \cup Held
    BY <2>1 DEF Carried
  <2>3. q \in Msgs => \A x \in Carried : x <= q
    BY DEF OrderInv, NothingOvertakes, Upto
  <2>4. WireInOrder'
    <3>1. Len(wire') = Len(wire) + 1 /\ Len(wire) \in Nat /\ wire'[Len(wire) + 1] = q
          /\ \A i \in 1..Len(wire) : wire'[i] = wire[i]
      BY <1>0, <1>3
    <3>2. \A i \in 1..Len(wire) : wire[i] \in Msgs => wire[i] \in Carried
      BY <1>0 DEF Carried, Elems
    <3> QED BY <2>3, <3>1, <3>2 DEF OrderInv, WireInOrder
  <2>5. \A x, y \in Held : x <= y
    BY ConstantsAssumption DEF Held, TypeOK, DataOK, Msgs
  <2>6. NothingOvertakes'
    BY <1>1, <2>2, <2>5 DEF OrderInv, NothingOvertakes, Upto
  <2> QED BY <1>1, <2>4, <2>6 DEF OrderInv
<1>4. CASE wire' = <<q>>
  <2>1. Carried' \subseteq Held /\ WireInOrder'
    BY <1>4 DEF Carried, Elems, WireInOrder
  <2>2. \A x, y \in Held : x <= y
    BY ConstantsAssumption DEF Held, TypeOK, DataOK, Msgs
  <2>3. NothingOvertakes'
    BY <1>1, <2>1, <2>2 DEF OrderInv, NothingOvertakes, Upto
  <2> QED BY <1>1, <2>1, <2>3 DEF OrderInv
<1> QED BY <1>2, <1>3, <1>4

\* SlurmDBD takes the oldest request: the messages behind it are not older.
LEMMA WireShrinks ==
  ASSUME TypeOK, OrderInv, wire # <<>>, wire' = Tail(wire)
  PROVE  /\ Carried' \subseteq Carried /\ WireInOrder'
         /\ Head(wire) \in Msgs => Head(wire) \in Carried /\ Upto({Head(wire)}, Carried')
<1>1. wire \in Seq(Requests) /\ Len(wire) \in Nat /\ Len(wire) > 0 /\ Head(wire) = wire[1]
  BY DEF TypeOK, DataOK
<1>2. /\ Len(wire') = Len(wire) - 1
      /\ \A i \in 1..Len(wire') : i + 1 \in 1..Len(wire) /\ wire'[i] = wire[i+1]
  BY <1>1
<1>3. WireInOrder'
  BY <1>1, <1>2 DEF OrderInv, WireInOrder
<1>4. Carried' \subseteq Carried
  BY <1>1, <1>2 DEF Carried, Elems
<1>5. ASSUME wire[1] \in Msgs PROVE wire[1] \in Carried /\ Upto({wire[1]}, Carried')
  <2>1. wire[1] \in Carried
    BY <1>1, <1>5 DEF Carried, Elems
  <2>2. ASSUME NEW y \in Carried' PROVE wire[1] <= y
    <3>1. PICK i \in 1..Len(wire') : y = wire'[i]
      BY DEF Carried, Elems
    <3>2. i + 1 \in 1..Len(wire) /\ y = wire[i+1] /\ y \in Msgs /\ 1 < i + 1 /\ 1 \in 1..Len(wire)
      BY <1>1, <1>2, <3>1 DEF Carried, Msgs
    <3> QED BY <1>5, <3>2 DEF OrderInv, WireInOrder
  <2> QED BY <2>1, <2>2 DEF Upto
<1> QED BY <1>1, <1>3, <1>4, <1>5

LEMMA OrderStep ==
  ASSUME TypeOK, QueueInv, OrderInv, [Next]_vars
  PROVE  OrderInv'
<1>0. /\ agent_list \in Seq(Msgs) /\ file \in Seq(Msgs) /\ sent \in Nat
      /\ Increasing(agent_list) /\ Increasing(file)
      /\ Msgs \subseteq Nat /\ agent_list \in Seq(Nat) /\ file \in Seq(Nat)
  BY ConstantsAssumption DEF TypeOK, DataOK, OrderInv, QueuesInOrder, Msgs
<1>1. /\ Loaded \in Seq(Nat) /\ Increasing(Loaded) /\ Elems(Loaded) \subseteq InLine
  BY <1>0 DEF Loaded, InLine
<1>2. ASSUME SendSlurmdbdMsg PROVE OrderInv'
  <2> DEFINE kept == IF Len(Loaded) = MaxQueue - 1
                       THEN Without(Loaded, Starts) ELSE Loaded
  <2>1. /\ kept \in Seq(Nat) /\ Increasing(kept) /\ Elems(kept) \subseteq InLine
    BY <1>1, WithoutProperties, WithoutIncreasing
  <2>2. /\ agent_list' = IF Room(kept) THEN Append(kept, sent + 1) ELSE kept
        /\ file' \in {file, <<>>} /\ sent' = sent + 1
        /\ UNCHANGED <<abuf, wire, applied>>
    BY <1>2 DEF SendSlurmdbdMsg, CreateAgent, FileAfterLoad, net
  <2>3. \A y \in Elems(kept) : y < sent + 1
    <3>1. sent \in Nat /\ InLine \subseteq 1..sent
      BY DEF OrderInv, NothingOvertakes, TypeOK, DataOK
    <3>2. \A y \in InLine : y < sent + 1
      BY <3>1
    <3> HIDE DEF kept
    <3> QED BY <2>1, <3>2
  <2> HIDE DEF kept
  <2>4. /\ Increasing(Append(kept, sent + 1))
        /\ Elems(Append(kept, sent + 1)) = Elems(kept) \cup {sent + 1}
    <3>1. sent + 1 \in Nat
      BY <1>0
    <3>2. Increasing(Append(kept, sent + 1))
      BY <2>1, <2>3, <3>1, AppendIncreasing
    <3>3. Elems(Append(kept, sent + 1)) = Elems(kept) \cup {sent + 1}
      BY <2>1, <3>1, AppendElems
    <3> QED BY <3>2, <3>3
  <2>5. Increasing(agent_list') /\ Elems(agent_list') \subseteq InLine \cup {sent + 1}
    BY <2>1, <2>2, <2>4
  <2>6. Increasing(file') /\ Elems(file') \subseteq InLine
    BY <1>0, <2>2, EmptyIncreasing DEF InLine
  <2>7. InLine' \subseteq InLine \cup ({sent'} \ {sent})
    BY <1>0, <2>2, <2>5, <2>6 DEF InLine
  <2> QED BY <2>2, <2>5, <2>6, <2>7, OrderFrame DEF QueuesInOrder
<1>3. ASSUME OpenConnAgent PROVE OrderInv'
  <2>1. agent_list' = Loaded \/ (agent_list' = agent_list \o file /\ list_made)
    BY <1>3 DEF OpenConnAgent, NeedAgent
  <2>2. list_made => agent_list \o file = agent_list
    BY <1>0 DEF QueueInv, ListOrFile
  <2>3. /\ file' \in {file, <<>>}
        /\ UNCHANGED <<abuf, wire, sent, applied>>
    BY <1>3 DEF OpenConnAgent, CreateAgent, FileAfterLoad, net, hist
  <2>4. Increasing(agent_list') /\ Elems(agent_list') \subseteq InLine
    BY <1>0, <1>1, <2>1, <2>2 DEF InLine
  <2>5. Increasing(file') /\ Elems(file') \subseteq InLine
    BY <1>0, <2>3, EmptyIncreasing DEF InLine
  <2>6. InLine' \subseteq InLine
    BY <2>4, <2>5 DEF InLine
  <2> QED BY <2>3, <2>4, <2>5, <2>6, OrderFrame DEF QueuesInOrder
<1>4. ASSUME AgentExit PROVE OrderInv'
  <2> DEFINE recs == Without(agent_list, Registers)
  <2>1. recs \in Seq(Nat) /\ Increasing(recs) /\ Elems(recs) \subseteq Elems(agent_list)
    BY <1>0, WithoutProperties, WithoutIncreasing
  <2>2. /\ agent_list' = <<>> /\ abuf' = 0
        /\ UNCHANGED <<wire, sent, applied>>
        /\ \/ file' = recs
           \/ \E k \in 0..Len(recs) : file' = SubSeq(recs, 1, k)
           \/ file' = file
    BY <1>4 DEF AgentExit, net
  <2> HIDE DEF recs
  <2>3. Increasing(file') /\ Elems(file') \subseteq InLine
    BY <1>0, <2>1, <2>2, SubSeqIncreasing DEF InLine
  <2>4. Increasing(agent_list') /\ Elems(agent_list') = {}
    BY <2>2, EmptyIncreasing
  <2>5. InLine' \subseteq InLine
    BY <2>3, <2>4 DEF InLine
  <2> QED BY <2>2, <2>3, <2>4, <2>5, OrderFrame DEF QueuesInOrder
<1>5. ASSUME AgentDone PROVE OrderInv'
  <2>1. /\ agent_list' = agent_list \/ (agent_list # <<>> /\ agent_list' = Tail(agent_list))
        /\ abuf' = 0 /\ UNCHANGED <<file, wire, sent, applied>>
    BY <1>5 DEF AgentDone, Dequeued, net, hist
  <2>2. Increasing(agent_list') /\ Elems(agent_list') \subseteq Elems(agent_list)
    BY <1>0, <2>1, TailIncreasing
  <2>3. InLine' \subseteq InLine /\ Increasing(file')
    BY <1>0, <2>1, <2>2 DEF InLine
  <2> QED BY <2>1, <2>2, <2>3, OrderFrame DEF QueuesInOrder
<1>6. ASSUME Restart \/ Crash PROVE OrderInv'
  <2>1. /\ agent_list' = <<>> /\ abuf' = 0 /\ wire' = <<>> /\ UNCHANGED <<file, sent, applied>>
    BY <1>6 DEF Restart, Crash, ProcessDies, NoConn
  <2>2. QueuesInOrder' /\ InLine' \subseteq InLine
    BY <1>0, <2>1, EmptyIncreasing DEF QueuesInOrder, InLine
  <2> QED BY <2>1, <2>2, OrderFrame
<1>7. ASSUME AgentPick PROVE OrderInv'
  <2>1. UNCHANGED <<agent_list, file, wire, sent, applied>>
    BY <1>7 DEF AgentPick, queue, net, hist
  <2>2. CASE abuf' = abuf
    BY <2>1, <2>2, OrderFrameNet
  <2>3. CASE agent_list # <<>> /\ abuf' = Head(agent_list)
    <3>1. abuf' \in InLine /\ \A x \in InLine : abuf' <= x
      <4>1. file = <<>>
        BY <2>3 DEF QueueInv, ListOrFile
      <4> QED BY <1>0, <2>3, <4>1, TailIncreasing, EmptyIncreasing DEF InLine
    <3>2. /\ Held' \subseteq {abuf'} /\ Carried' = Carried /\ InLine' = InLine
      BY <2>1 DEF Held, Carried, InLine
    <3>3. NothingOvertakes'
      BY <2>1, <3>1, <3>2 DEF OrderInv, NothingOvertakes, Upto
    <3> QED BY <2>1, <3>3 DEF OrderInv, QueuesInOrder, WireInOrder
  <2> QED BY <1>7, <2>2, <2>3 DEF AgentPick
<1>8. ASSUME AgentSend PROVE OrderInv'
  <2>1. UNCHANGED <<agent_list, file, abuf, sent, applied>> /\ abuf \in Msgs
    BY <1>8 DEF AgentSend, queue, hist, TypeOK, DataOK
  <2>2. abuf \in Held
    BY <2>1, ConstantsAssumption DEF Held, Msgs
  <2>3. wire' \in {wire, <<>>, Append(wire, abuf), <<abuf>>}
    BY <1>8 DEF AgentSend, SendOk, SendFail, NewConn, NoConn, net
  <2> QED BY <2>1, <2>2, <2>3, WireGrows DEF Requests
<1>9. ASSUME NEW c \in Callers, RpcSend(c) PROVE OrderInv'
  <2>1. UNCHANGED <<agent_list, file, abuf, sent, applied>> /\ c \in Requests /\ c \notin Msgs
    BY <1>9, ConstantsAssumption DEF RpcSend, queue, hist, Requests, Msgs
  <2>2. wire' \in {wire, <<>>, Append(wire, c), <<c>>}
    BY <1>9 DEF RpcSend, OpenOk, OpenFail, SendOk, SendFail, NewConn, NoConn, net
  <2> QED BY <2>1, <2>2, WireGrows
<1>10. ASSUME ServerStep PROVE OrderInv'
  <2>1. /\ UNCHANGED <<agent_list, file, abuf, sent>>
        /\ wire # <<>> /\ wire' = Tail(wire)
        /\ applied' = applied \/ (Head(wire) \in Msgs /\ applied' = applied \cup {Head(wire)})
    BY <1>10 DEF ServerStep, queue, agent
  <2>2. /\ Carried' \subseteq Carried /\ WireInOrder'
        /\ Head(wire) \in Msgs => Head(wire) \in Carried /\ Upto({Head(wire)}, Carried')
    BY <2>1, WireShrinks
  <2>3. InLine' = InLine /\ Held' = Held /\ QueuesInOrder'
    BY <2>1 DEF InLine, Held, OrderInv, QueuesInOrder
  <2>4. applied' \subseteq applied \cup Carried
    BY <2>1, <2>2
  <2>5. InLine' \cup Held' \cup Carried' \cup applied' \subseteq 1..sent'
    BY <2>1, <2>2, <2>3, <2>4 DEF OrderInv, NothingOvertakes
  <2>6. Upto(applied', Carried' \cup Held' \cup InLine')
    BY <2>1, <2>2, <2>3 DEF OrderInv, NothingOvertakes, Upto
  <2>7. Upto(Carried', Held' \cup InLine') /\ Upto(Held', InLine')
    BY <2>2, <2>3 DEF OrderInv, NothingOvertakes, Upto
  <2> QED BY <2>2, <2>3, <2>5, <2>6, <2>7 DEF OrderInv, NothingOvertakes
<1>11. ASSUME AgentLoop \/ AgentLock \/ AgentRelock \/ AgentOpen \/ AgentWake \/ AgentRecv
              \/ AgentDies \/ RetryTimePasses
       PROVE  OrderInv'
  <2>1. /\ UNCHANGED <<agent_list, file, sent, applied>>
        /\ abuf' \in {abuf, 0} /\ wire' \in {wire, <<>>}
    BY <1>11 DEF AgentLoop, AgentLock, AgentRelock, AgentOpen, AgentWake, AgentRecv, AgentDies,
                 RetryTimePasses, OpenOk, OpenFail, NewConn, NoConn, RecvOk, RecvFail,
                 queue, net, hist
  <2> QED BY <2>1, OrderFrameNet
<1>12. ASSUME OpenConnFd \/ CloseBegin \/ CloseCancel \/ CloseJoin \/ CloseFd \/ Reopen
              \/ HangUp \/ UNCHANGED vars
       PROVE  OrderInv'
  <2>1. /\ UNCHANGED <<agent_list, file, sent, applied>>
        /\ abuf' \in {abuf, 0} /\ wire' \in {wire, <<>>}
    BY <1>12 DEF OpenConnFd, CloseBegin, CloseCancel, CloseJoin, CloseFd, Reopen, HangUp, vars,
                 OpenOk, OpenFail, NewConn, NoConn, queue, agent, net, hist
  <2> QED BY <2>1, OrderFrameNet
<1>13. ASSUME NEW c \in Callers, RpcBegin(c) \/ RpcLock(c) \/ RpcRecv(c) PROVE OrderInv'
  <2>1. UNCHANGED <<agent_list, file, sent, applied, abuf, wire>>
    BY <1>13 DEF RpcBegin, RpcLock, RpcRecv, RecvOk, RecvFail, queue, agent, net, hist
  <2> QED BY <2>1, OrderFrameNet
<1> QED
  BY <1>2, <1>3, <1>4, <1>5, <1>6, <1>7, <1>8, <1>9, <1>10, <1>11, <1>12, <1>13
     DEF Next, AgentStep, RpcStep, MainStep

LEMMA OrderInitially == Init => OrderInv
BY EmptyIncreasing
   DEF Init, OrderInv, QueuesInOrder, NothingOvertakes, WireInOrder, InLine, Held, Carried, Upto

\* The steps that touch the history.
LEMMA HistActions ==
  ASSUME [Next]_vars
  PROVE  /\ SendSlurmdbdMsg \/ sent' = sent
         /\ ServerStep \/ applied' = applied
         /\ SendSlurmdbdMsg \/ AgentExit \/ Restart \/ Crash \/ dropped' = dropped
<1>1. /\ OpenConnAgent => UNCHANGED hist
      /\ AgentExit \/ Restart \/ Crash => sent' = sent /\ applied' = applied
      /\ SendSlurmdbdMsg => applied' = applied
      /\ ServerStep => sent' = sent /\ dropped' = dropped
  BY DEF SendSlurmdbdMsg, ServerStep, OpenConnAgent, AgentExit, Restart, Crash, ProcessDies, hist
<1>2. AgentLoop \/ AgentLock \/ AgentRelock \/ AgentOpen \/ AgentPick \/ AgentWake \/ AgentSend
      \/ AgentRecv \/ AgentDone \/ AgentDies \/ RetryTimePasses => UNCHANGED hist
  BY DEF AgentLoop, AgentLock, AgentRelock, AgentOpen, AgentPick, AgentWake, AgentSend,
         AgentRecv, AgentDone, AgentDies, RetryTimePasses, hist
<1>3. \A c \in Callers : RpcBegin(c) \/ RpcStep(c) => UNCHANGED hist
  BY DEF RpcBegin, RpcStep, RpcLock, RpcSend, RpcRecv, hist
<1>4. OpenConnFd \/ CloseJoin \/ CloseFd \/ CloseBegin \/ CloseCancel \/ Reopen \/ HangUp
      => UNCHANGED hist
  BY DEF OpenConnFd, CloseJoin, CloseFd, CloseBegin, CloseCancel, Reopen, HangUp, hist
<1>5. UNCHANGED hist => sent' = sent /\ applied' = applied /\ dropped' = dropped
  BY DEF hist
<1> HIDE DEF hist
<1> QED BY <1>1, <1>2, <1>3, <1>4, <1>5 DEF Next, AgentStep, MainStep, vars

\* SlurmDBD sees messages for the first time in the order they were accepted,
\* whatever is resent, purged, saved, loaded, cancelled or lost in a crash.
THEOREM AppliedInOrderAlways == Spec => AppliedInOrder
<1>1. TypeOK /\ QueueInv /\ OrderInv /\ [Next]_vars
        => [\A m \in applied' \ applied : \A n \in applied : n < m]_vars
  <2> SUFFICES ASSUME TypeOK, OrderInv, Next,
                      NEW m \in applied' \ applied, NEW n \in applied
               PROVE  n < m
    OBVIOUS
  <2>1. ServerStep
    BY HistActions
  <2>2. m = Head(wire) /\ m \in Msgs /\ wire # <<>>
    BY <2>1 DEF ServerStep
  <2>3. m \in Carried
    BY <2>2 DEF Carried, Elems, TypeOK, DataOK
  <2>4. n <= m /\ n # m /\ n \in Nat /\ m \in Nat
    BY <2>3, ConstantsAssumption DEF OrderInv, NothingOvertakes, Upto, Msgs, TypeOK, DataOK
  <2> QED BY <2>4
<1>2. TypeOK /\ QueueInv /\ OrderInv /\ [Next]_vars => OrderInv'
  BY OrderStep
<1>3. TypeOK /\ QueueInv /\ [Next]_vars => QueueInv'
  BY QueueStep
<1> QED BY <1>1, <1>2, <1>3, OrderInitially, QueueInitially, TypeCorrect, PTL DEF Spec, AppliedInOrder

-----------------------------------------------------------------------------
(* Where no thread queues a message while the connection is closed, where  *)
(* SlurmDBD answers in time or not at all, and where no purge takes the    *)
(* message the agent is sending, more holds.  Each condition is needed:    *)
(* without it TLC finds a message lost or a reply read by the wrong thread.*)

Quiet == Env \cap {"race", "late"} = {} /\ (MaxMsgs < MaxQueue \/ Starts = {})

\* A running agent thread is known to agent_tid and has a queue.
ThreadInv == apc # "gone" => agent_tid /\ list_made

\* While agent_shutdown is set the close is under way, or it is over and has
\* left no agent and no connection.
ShutdownInv ==
  agent_shutdown =>
    \/ mpc = "join"
    \/ ~agent_tid /\ (mpc = "closefd" \/ (mpc # "run" /\ conn = "none"))

\* The socket carries the request q, or its reply, or neither, and nothing else.
Exchange(q) ==
  /\ wire \in {<<>>, <<q>>}
  /\ back # <<>> => wire = <<>> /\ \E ok \in BOOLEAN : back = <<[req |-> q, rc |-> ok]>>

NobodyWaits == apc # "recv" /\ \A c \in Callers : cpc[c] # "recv"

WireInv ==
  /\ ~garbled
  /\ conn # "up" => wire = <<>>
  /\ conn = "none" => back = <<>>
  /\ apc = "recv" => Exchange(abuf)
  /\ \A c \in Callers : cpc[c] = "recv" => Exchange(c)
  /\ conn = "up" /\ ~agent_shutdown /\ NobodyWaits => wire = <<>> /\ back = <<>>

SocketInv == ThreadInv /\ ShutdownInv /\ WireInv

LEMMA ThreadStep ==
  ASSUME TypeOK, ThreadInv, [Next]_vars
  PROVE  ThreadInv'
<1> USE DEF ThreadInv
<1>1. SendSlurmdbdMsg => ThreadInv'
  BY Zenon DEF SendSlurmdbdMsg, CreateAgent, NeedAgent
<1>2. OpenConnAgent => ThreadInv'
  BY Zenon DEF OpenConnAgent, CreateAgent, NeedAgent
<1>3. AgentExit \/ AgentDies \/ Restart \/ Crash => ThreadInv'
  BY Zenon DEF AgentExit, AgentDies, Restart, Crash, ProcessDies
<1>4. CloseJoin => ThreadInv'
  BY Zenon DEF CloseJoin, agent
<1>5. AgentLoop \/ AgentLock \/ AgentRelock \/ AgentOpen \/ AgentPick \/ AgentWake => ThreadInv'
  BY DEF AgentLoop, AgentLock, AgentRelock, AgentOpen, AgentPick, AgentWake, queue, ctl
<1>6. AgentSend \/ AgentRecv \/ AgentDone \/ RetryTimePasses => ThreadInv'
  BY DEF AgentSend, AgentRecv, AgentDone, RetryTimePasses, queue, ctl
<1>7. ASSUME NEW c \in Callers, RpcBegin(c) \/ RpcLock(c) PROVE ThreadInv'
  BY <1>7, Zenon DEF RpcBegin, RpcLock, queue, ctl, agent
<1>8. ASSUME NEW c \in Callers, RpcSend(c) \/ RpcRecv(c) PROVE ThreadInv'
  <2>1. UNCHANGED <<agent_tid, list_made>> /\ (apc' = apc \/ apc = "condwait")
    BY <1>8 DEF RpcSend, RpcRecv, RpcEnd, queue, ctl
  <2> QED BY <2>1, Zenon
<1>9. OpenConnFd \/ CloseBegin \/ CloseCancel \/ CloseFd \/ Reopen \/ ServerStep \/ HangUp
      \/ UNCHANGED vars => ThreadInv'
  BY DEF OpenConnFd, CloseBegin, CloseCancel, CloseFd, Reopen, ServerStep, HangUp, vars, queue, ctl, agent
<1> HIDE DEF ThreadInv
<1> QED
  BY <1>1, <1>2, <1>3, <1>4, <1>5, <1>6, <1>7, <1>8, <1>9 DEF Next, AgentStep, RpcStep, MainStep

\* What the steps leave of the four variables of ShutdownInv, where the agent
\* is not to be stopped or is.
LEMMA ShutdownStep ==
  ASSUME Quiet, TypeOK, ShutdownInv, [Next]_vars
  PROVE  ShutdownInv'
<1> USE DEF ShutdownInv
<1>0. "race" \notin Env
  BY DEF Quiet
<1>1. SendSlurmdbdMsg => ShutdownInv'
  BY <1>0, Zenon DEF SendSlurmdbdMsg, CreateAgent, MayQueue
<1>2. OpenConnAgent => ShutdownInv'
  BY Zenon DEF OpenConnAgent, CreateAgent, NeedAgent
<1>3. OpenConnFd => ShutdownInv'
  BY DEF OpenConnFd, OpenOk, OpenFail, NoConn, ctl, net
<1>4. CloseBegin => ShutdownInv'
  BY Zenon DEF CloseBegin
<1>5. CloseJoin => ShutdownInv'
  BY Zenon DEF CloseJoin
<1>6. CloseFd => ShutdownInv'
  BY DEF CloseFd, NoConn, ctl
<1>7. Reopen => ShutdownInv'
  BY DEF Reopen, ctl, net
<1>8. Restart \/ Crash => ShutdownInv'
  BY Zenon DEF Restart, Crash, ProcessDies
<1>9. ASSUME AgentLoop \/ AgentLock \/ AgentRelock \/ AgentPick \/ AgentWake \/ AgentDone \/ AgentExit
             \/ AgentDies \/ RetryTimePasses \/ CloseCancel \/ ServerStep \/ UNCHANGED vars
      PROVE  ShutdownInv'
  <2>1. AgentLoop \/ AgentLock \/ AgentRelock \/ AgentPick \/ AgentWake
        => UNCHANGED <<agent_shutdown, agent_tid, mpc, conn>>
    BY Zenon DEF AgentLoop, AgentLock, AgentRelock, AgentPick, AgentWake, ctl, net
  <2>2. AgentDone \/ AgentExit \/ AgentDies \/ RetryTimePasses
        => UNCHANGED <<agent_shutdown, agent_tid, mpc, conn>>
    BY Zenon DEF AgentDone, AgentExit, AgentDies, RetryTimePasses, ctl, net
  <2>3. CloseCancel \/ ServerStep \/ UNCHANGED vars
        => UNCHANGED <<agent_shutdown, agent_tid, mpc, conn>>
    BY Zenon DEF CloseCancel, ServerStep, vars, ctl, net
  <2> QED BY <1>9, <2>1, <2>2, <2>3, Zenon
<1>10. AgentOpen => ShutdownInv'
  BY DEF AgentOpen, OpenOk, OpenFail, NoConn, ctl, net
<1>11. AgentSend => ShutdownInv'
  BY DEF AgentSend, SendOk, SendFail, NoConn, ctl, net
<1>12. AgentRecv => ShutdownInv'
  BY DEF AgentRecv, RecvOk, RecvFail, ctl, net
<1>13. ASSUME NEW c \in Callers, RpcBegin(c) \/ RpcLock(c) PROVE ShutdownInv'
  BY <1>13, Zenon DEF RpcBegin, RpcLock, ctl, net
<1>14. ASSUME NEW c \in Callers, RpcSend(c) PROVE ShutdownInv'
  BY <1>14, Zenon DEF RpcSend, OpenOk, OpenFail, SendOk, SendFail, NoConn, ctl, net
<1>15. ASSUME NEW c \in Callers, RpcRecv(c) PROVE ShutdownInv'
  BY <1>15, Zenon DEF RpcRecv, RecvOk, RecvFail, ctl, net
<1>16. HangUp => ShutdownInv'
  <2>1. HangUp => conn = "up" /\ UNCHANGED <<agent_shutdown, mpc, agent_tid>>
    BY Zenon DEF HangUp, ctl
  <2>2. conn = "up" => conn # "none"
    OBVIOUS
  <2> QED BY <2>1, <2>2, Zenon
<1> HIDE DEF ShutdownInv
<1> QED
  BY <1>1, <1>2, <1>3, <1>4, <1>5, <1>6, <1>7, <1>8, <1>9, <1>10, <1>11, <1>12, <1>13, <1>14, <1>15, <1>16
     DEF Next, AgentStep, RpcStep, MainStep

\* A step that leaves the socket alone, and after which nobody waits for a reply
\* who did not before.
LEMMA WireFrame ==
  ASSUME WireInv, UNCHANGED net,
         apc' = "recv" => apc = "recv" /\ abuf' = abuf,
         \A c \in Callers : cpc'[c] = "recv" => cpc[c] = "recv",
         conn = "up" /\ ~agent_shutdown' => ~agent_shutdown /\ (NobodyWaits' => NobodyWaits)
  PROVE  WireInv'
<1>1. UNCHANGED <<conn, wire, back>> /\ garbled' = garbled
  BY DEF net
<1>2. apc' = "recv" => Exchange(abuf)'
  BY <1>1 DEF WireInv, Exchange
<1>3. \A c \in Callers : cpc'[c] = "recv" => Exchange(c)'
  BY <1>1 DEF WireInv, Exchange
<1> HIDE DEF Exchange, NobodyWaits
<1> QED BY <1>1, <1>2, <1>3, Zenon DEF WireInv

\* A step that leaves the socket empty and nobody waiting.
LEMMA WireEmptied ==
  ASSUME ~garbled', wire' = <<>>, back' = <<>>, apc' # "recv",
         \A c \in Callers : cpc'[c] # "recv"
  PROVE  WireInv'
BY Zenon DEF WireInv

\* _send_msg finds the socket empty: the request of its thread is alone on it.
LEMMA WireSend ==
  ASSUME WireInv, NobodyWaits, NEW q \in Requests, SendOk(q)
  PROVE  /\ wire' \in {<<>>, <<q>>} /\ back' = <<>> /\ ~garbled' /\ conn' # "none"
         /\ conn' # "up" => wire' = <<>>
<1>1. ~agent_shutdown
  BY Zenon DEF SendOk
<1>2. CASE conn = "up"
  <2>1. wire = <<>> /\ back = <<>>
    BY <1>1, <1>2, Zenon DEF WireInv
  <2>2. wire' = Append(wire, q) /\ conn' = "up" /\ back' = back
    BY <1>2 DEF SendOk
  <2>3. ~garbled'
    BY <1>2, <2>1, Zenon DEF SendOk, WireInv
  <2>4. Append(<<>>, q) = <<q>>
    OBVIOUS
  <2> QED BY <1>2, <2>1, <2>2, <2>3, <2>4
<1>3. CASE conn # "up"
  <2>1. conn = "hup" /\ wire = <<>>
    BY <1>3 DEF SendOk, WireInv
  <2>2. CASE back = <<>>
    <3>1. conn' = "up" /\ wire' = <<q>> /\ back' = <<>>
      BY <2>1, <2>2 DEF SendOk, NewConn
    <3>2. ~garbled'
      BY <1>3, <2>2, Zenon DEF SendOk, NewConn
    <3> QED BY <3>1, <3>2
  <2>3. CASE back # <<>>
    <3>1. back' = <<>> /\ conn' = "hup" /\ wire' = <<>>
      BY <2>1, <2>3 DEF SendOk
    <3>2. ~garbled'
      BY <1>3, <2>3, Zenon DEF SendOk, WireInv
    <3> QED BY <3>1, <3>2
  <2> QED BY <2>2, <2>3
<1> QED BY <1>2, <1>3

\* A reply that is read leaves the socket empty, and was for its reader.
LEMMA WireRecv ==
  ASSUME WireInv, NEW q, Exchange(q), RecvOk
  PROVE  /\ wire' = <<>> /\ back' = <<>> /\ ~garbled' /\ Head(back).req = q
<1>1. PICK ok \in BOOLEAN : back = <<[req |-> q, rc |-> ok]>>
  BY DEF Exchange, RecvOk
<1>2. wire' = <<>> /\ back' = <<>>
  BY <1>1 DEF Exchange, RecvOk
<1>3. Head(back).req = q
  BY <1>1
<1>4. ~garbled'
  BY Zenon DEF RecvOk
<1> QED BY <1>2, <1>3, <1>4

\* Whoever is at the socket holds slurmdbd_lock: nobody else waits.
LEMMA SoleUser ==
  ASSUME LockInv
  PROVE  /\ apc \in {"open", "pick", "send", "recv"} => \A c \in Callers : cpc[c] \notin {"send", "recv"}
         /\ \A c \in Callers : cpc[c] \in {"send", "recv"} =>
              /\ apc \notin {"open", "pick", "send", "recv"}
              /\ \A d \in Callers : d # c => cpc[d] \notin {"send", "recv"}
         /\ slurmdbd_lock = "free" => NobodyWaits
<1>1. "free" \notin Callers /\ "agent" \notin Callers
  BY ConstantsAssumption
<1> QED BY <1>1 DEF LockInv, OneSocketUser, NobodyWaits

LEMMA WireServer ==
  ASSUME TypeOK, LockInv, WireInv, ServerStep
  PROVE  WireInv'
<1>1. /\ conn = "up" /\ conn' = conn /\ wire # <<>>
      /\ UNCHANGED <<apc, abuf, cpc>> /\ wire' = Tail(wire)
      /\ \E ok \in BOOLEAN : back' = Append(back, [req |-> Head(wire), rc |-> ok])
  BY DEF ServerStep, agent
<1>2. ~garbled' /\ (agent_shutdown' => agent_shutdown) /\ (agent_shutdown => agent_shutdown')
  BY Zenon DEF ServerStep, ctl, WireInv
<1>3. ASSUME NEW q, Exchange(q)
      PROVE  wire' = <<>> /\ \E ok \in BOOLEAN : back' = <<[req |-> q, rc |-> ok]>>
  <2>1. wire = <<q>> /\ back = <<>>
    BY <1>1, <1>3 DEF Exchange
  <2>2. Head(wire) = q /\ wire' = <<>>
    BY <1>1, <2>1
  <2>3. PICK ok \in BOOLEAN : back' = Append(<<>>, [req |-> q, rc |-> ok])
    BY <1>1, <2>1, <2>2
  <2>4. back' = <<[req |-> q, rc |-> ok]>>
    BY <2>3
  <2> QED BY <2>2, <2>4
<1>4. apc' = "recv" => Exchange(abuf)'
  <2> SUFFICES ASSUME apc = "recv" PROVE Exchange(abuf)'
    BY <1>1
  <2>1. Exchange(abuf)
    BY DEF WireInv
  <2> QED BY <1>1, <1>3, <2>1 DEF Exchange
<1>5. \A c \in Callers : cpc'[c] = "recv" => Exchange(c)'
  <2> SUFFICES ASSUME NEW c \in Callers, cpc[c] = "recv" PROVE Exchange(c)'
    BY <1>1
  <2>1. Exchange(c)
    BY DEF WireInv
  <2> QED BY <1>3, <2>1 DEF Exchange
<1>6. ~(conn' = "up" /\ ~agent_shutdown' /\ NobodyWaits')
  <2>1. NobodyWaits' => NobodyWaits
    BY <1>1 DEF NobodyWaits
  <2> HIDE DEF NobodyWaits
  <2> QED BY <1>1, <1>2, <2>1, Zenon DEF WireInv
<1>7. conn' = "up" /\ conn' # "none"
  BY <1>1
<1> HIDE DEF NobodyWaits, Exchange
<1> QED BY <1>2, <1>4, <1>5, <1>6, <1>7, Zenon DEF WireInv

LEMMA WireStep ==
  ASSUME Quiet, TypeOK, LockInv, SocketInv, [Next]_vars
  PROVE  WireInv'
<1> USE DEF SocketInv
<1>0. cpc \in [Callers -> CallerPCs] /\ "late" \notin Env /\ "race" \notin Env
  BY DEF TypeOK, DataOK, Quiet
<1>1. ASSUME SendSlurmdbdMsg PROVE WireInv'
  <2>1. UNCHANGED <<net, cpc, abuf>>
    BY <1>1 DEF SendSlurmdbdMsg
  <2>2. ~agent_shutdown
    BY <1>0, <1>1, Zenon DEF SendSlurmdbdMsg, MayQueue, ShutdownInv
  <2>3. apc' = apc \/ (apc = "gone" /\ apc' = "loop")
    BY <1>1, Zenon DEF SendSlurmdbdMsg, CreateAgent, ThreadInv
  <2>4. NobodyWaits' => NobodyWaits
    BY <2>1, <2>3 DEF NobodyWaits
  <2>5. apc' = "recv" => apc = "recv"
    BY <2>3
  <2> QED BY <2>1, <2>2, <2>4, <2>5, WireFrame
<1>2. ASSUME OpenConnAgent PROVE WireInv'
  <2>1. UNCHANGED <<net, cpc, abuf>> /\ mpc = "mkagent"
    BY <1>2 DEF OpenConnAgent
  <2>2. ~agent_shutdown \/ conn # "up"
    <3>1. CASE agent_shutdown
      <4>1. conn = "none"
        BY <2>1, <3>1 DEF ShutdownInv
      <4> QED BY <4>1
    <3> QED BY <3>1
  <2>3. apc' = apc \/ (apc = "gone" /\ apc' = "loop")
    BY <1>2, Zenon DEF OpenConnAgent, CreateAgent, ThreadInv
  <2>4. NobodyWaits' => NobodyWaits
    BY <2>1, <2>3 DEF NobodyWaits
  <2>5. apc' = "recv" => apc = "recv"
    BY <2>3
  <2> QED BY <2>1, <2>2, <2>4, <2>5, WireFrame
<1>3. ASSUME \/ AgentLoop \/ AgentLock \/ AgentRelock \/ AgentPick \/ AgentWake \/ AgentDone
             \/ AgentExit \/ AgentDies \/ RetryTimePasses
      PROVE  WireInv'
  <2>1. UNCHANGED net /\ UNCHANGED cpc
    BY <1>3 DEF AgentLoop, AgentLock, AgentRelock, AgentPick, AgentWake, AgentDone, AgentExit,
                AgentDies, RetryTimePasses
  <2>2. agent_shutdown' = agent_shutdown
    BY <1>3, Zenon DEF AgentLoop, AgentLock, AgentRelock, AgentPick, AgentWake, AgentDone, AgentExit,
                AgentDies, RetryTimePasses, ctl
  <2>3. (apc # "recv" /\ apc' # "recv") \/ UNCHANGED <<apc, abuf>>
    BY <1>3 DEF AgentLoop, AgentLock, AgentRelock, AgentPick, AgentWake, AgentDone, AgentExit,
                AgentDies, RetryTimePasses
  <2>4. NobodyWaits' => NobodyWaits
    BY <2>1, <2>3 DEF NobodyWaits
  <2> QED BY <2>1, <2>2, <2>3, <2>4, WireFrame
<1>4. ASSUME AgentOpen PROVE WireInv'
  <2>1. /\ apc = "open" /\ apc' = "pick" /\ UNCHANGED <<cpc, abuf>>
        /\ \A c \in Callers : cpc[c] # "recv"
    BY <1>4, SoleUser DEF AgentOpen
  <2>2. CASE OpenOk \/ OpenFail
    <3>1. wire' = <<>> /\ back' = <<>>
      BY <2>2 DEF OpenOk, OpenFail, NewConn, NoConn
    <3>2. ~garbled'
      BY <2>2, Zenon DEF OpenOk, OpenFail, NewConn, NoConn
    <3> QED BY <2>1, <3>1, <3>2, WireEmptied
  <2>3. CASE UNCHANGED net
    <3>1. agent_shutdown' = agent_shutdown
      BY <1>4, Zenon DEF AgentOpen, ctl
    <3>2. NobodyWaits
      BY <2>1 DEF NobodyWaits
    <3> QED BY <2>1, <2>3, <3>1, <3>2, WireFrame
  <2> QED BY <1>4, <2>2, <2>3 DEF AgentOpen, net
<1>5. ASSUME AgentSend PROVE WireInv'
  <2>1. /\ apc = "send" /\ UNCHANGED <<cpc, abuf>> /\ abuf \in Requests
        /\ \A c \in Callers : cpc[c] # "recv"
    BY <1>5, SoleUser DEF AgentSend, TypeOK, DataOK, Requests
  <2>2. agent_shutdown' = agent_shutdown
    BY <1>5, Zenon DEF AgentSend, ctl
  <2>3. NobodyWaits
    BY <2>1 DEF NobodyWaits
  <2>4. CASE SendOk(abuf) /\ apc' = "recv"
    <3>1. /\ wire' \in {<<>>, <<abuf>>} /\ back' = <<>> /\ ~garbled' /\ conn' # "none"
          /\ conn' # "up" => wire' = <<>>
      BY <2>1, <2>3, <2>4, WireSend
    <3>2. Exchange(abuf)' /\ ~NobodyWaits'
      BY <2>1, <2>4, <3>1 DEF Exchange, NobodyWaits
    <3> HIDE DEF NobodyWaits, Exchange
    <3> QED BY <2>1, <3>1, <3>2, Zenon DEF WireInv
  <2>5. CASE SendFail /\ apc' \in {"done", "exit"}
    <3>1. apc' # "recv"
      BY <2>5
    <3>2. CASE UNCHANGED net
      BY <2>1, <2>2, <2>3, <3>1, <3>2, WireFrame
    <3>3. CASE NoConn
      <4>1. wire' = <<>> /\ back' = <<>>
        BY <3>3 DEF NoConn
      <4>2. ~garbled'
        BY <3>3, Zenon DEF NoConn
      <4> QED BY <2>1, <3>1, <4>1, <4>2, WireEmptied
    <3> QED BY <2>5, <3>2, <3>3 DEF SendFail, net
  <2> QED BY <1>5, <2>4, <2>5 DEF AgentSend
<1>6. ASSUME AgentRecv PROVE WireInv'
  <2>1. /\ apc = "recv" /\ apc' = "done" /\ UNCHANGED <<cpc, abuf>>
        /\ \A c \in Callers : cpc[c] # "recv"
    BY <1>6, SoleUser DEF AgentRecv
  <2>2. CASE RecvOk
    <3>1. Exchange(abuf)
      BY <2>1 DEF WireInv
    <3>2. wire' = <<>> /\ back' = <<>> /\ ~garbled'
      BY <2>2, <3>1, WireRecv
    <3>3. apc' # "recv" /\ \A c \in Callers : cpc'[c] # "recv"
      BY <2>1
    <3> QED BY <3>2, <3>3, WireEmptied
  <2>3. CASE RecvFail
    <3>1. UNCHANGED net /\ (agent_shutdown \/ conn = "hup")
      BY <1>0, <2>3, Zenon DEF RecvFail, net, WireInv
    <3>2. conn = "hup" => conn # "up"
      OBVIOUS
    <3>3. conn = "up" /\ ~agent_shutdown' => FALSE
      BY <1>6, <3>1, <3>2, Zenon DEF AgentRecv, ctl
    <3>4. apc' # "recv" /\ \A c \in Callers : cpc'[c] # "recv"
      BY <2>1
    <3> QED BY <3>1, <3>3, <3>4, WireFrame
  <2> QED BY <1>6, <2>2, <2>3 DEF AgentRecv
<1>7. ASSUME NEW c \in Callers, RpcBegin(c) \/ RpcLock(c) PROVE WireInv'
  <2>1. /\ UNCHANGED <<net, apc, abuf>>
        /\ cpc' = [cpc EXCEPT ![c] = "want"] \/ cpc' = [cpc EXCEPT ![c] = "send"]
        /\ cpc[c] # "recv"
    BY <1>7 DEF RpcBegin, RpcLock, agent
  <2>2. \A d \in Callers : cpc'[d] = "recv" <=> cpc[d] = "recv"
    BY <1>0, <2>1
  <2>3. agent_shutdown' = agent_shutdown
    BY <1>7, Zenon DEF RpcBegin, RpcLock, ctl
  <2>4. NobodyWaits' => NobodyWaits
    BY <2>1, <2>2 DEF NobodyWaits
  <2> QED BY <2>1, <2>2, <2>3, <2>4, WireFrame
<1>8. ASSUME NEW c \in Callers, RpcSend(c) PROVE WireInv'
  <2>1. /\ cpc[c] = "send" /\ apc \notin {"open", "pick", "send", "recv"} /\ c \in Requests
        /\ \A d \in Callers : cpc[d] # "recv"
    BY <1>8, SoleUser DEF RpcSend, Requests
  <2>2. agent_shutdown' = agent_shutdown /\ UNCHANGED abuf
    BY <1>8, Zenon DEF RpcSend, ctl
  <2>3. NobodyWaits
    BY <2>1 DEF NobodyWaits
  <2>4. CASE SendOk(c) /\ cpc' = [cpc EXCEPT ![c] = "recv"] /\ apc' = apc
    <3>1. /\ wire' \in {<<>>, <<c>>} /\ back' = <<>> /\ ~garbled' /\ conn' # "none"
          /\ conn' # "up" => wire' = <<>>
      BY <2>1, <2>3, <2>4, WireSend
    <3>2. Exchange(c)' /\ cpc'[c] = "recv" /\ apc' # "recv"
      BY <1>0, <2>1, <2>4, <3>1 DEF Exchange
    <3>3. ~NobodyWaits' /\ \A d \in Callers : cpc'[d] = "recv" => d = c
      BY <1>0, <2>1, <2>4, <3>2 DEF NobodyWaits
    <3> HIDE DEF NobodyWaits, Exchange
    <3> QED BY <2>1, <3>1, <3>2, <3>3, Zenon DEF WireInv
  <2>5. CASE /\ OpenOk \/ OpenFail \/ SendFail
             /\ cpc' \in {cpc, [cpc EXCEPT ![c] = "idle"]} /\ apc' \in {apc, "relock"}
    <3>1. apc' # "recv" /\ \A d \in Callers : cpc'[d] # "recv"
      BY <1>0, <2>1, <2>5
    <3>2. CASE UNCHANGED net
      BY <2>2, <2>3, <3>1, <3>2, WireFrame
    <3>3. CASE OpenOk \/ NoConn
      <4>1. wire' = <<>> /\ back' = <<>>
        BY <3>3 DEF OpenOk, NewConn, NoConn
      <4>2. ~garbled'
        BY <3>3, Zenon DEF OpenOk, NewConn, NoConn
      <4> QED BY <3>1, <4>1, <4>2, WireEmptied
    <3> QED BY <2>5, <3>2, <3>3 DEF OpenFail, SendFail, net
  <2> QED BY <1>8, <2>4, <2>5 DEF RpcSend, RpcEnd
<1>9. ASSUME NEW c \in Callers, RpcRecv(c) PROVE WireInv'
  <2>1. /\ cpc[c] = "recv" /\ cpc' = [cpc EXCEPT ![c] = "idle"] /\ apc' \in {apc, "relock"}
        /\ apc # "recv" /\ \A d \in Callers : d # c => cpc[d] # "recv"
    BY <1>9, SoleUser DEF RpcRecv, RpcEnd
  <2>2. apc' # "recv" /\ \A d \in Callers : cpc'[d] # "recv"
    BY <1>0, <2>1
  <2>3. CASE RecvOk
    <3>1. Exchange(c)
      BY <2>1 DEF WireInv
    <3>2. wire' = <<>> /\ back' = <<>> /\ ~garbled'
      BY <2>3, <3>1, WireRecv
    <3> QED BY <2>2, <3>2, WireEmptied
  <2>4. CASE RecvFail
    <3>1. UNCHANGED net /\ (agent_shutdown \/ conn = "hup")
      BY <1>0, <2>4, Zenon DEF RecvFail, net, WireInv
    <3>2. conn = "hup" => conn # "up"
      OBVIOUS
    <3>3. conn = "up" /\ ~agent_shutdown' => FALSE
      BY <1>9, <3>1, <3>2, Zenon DEF RpcRecv, ctl
    <3> QED BY <2>2, <3>1, <3>3, WireFrame
  <2> QED BY <1>9, <2>3, <2>4 DEF RpcRecv
<1>10. ASSUME OpenConnFd \/ CloseFd PROVE WireInv'
  <2>1. slurmdbd_lock = "free" /\ UNCHANGED <<apc, abuf, cpc>>
    BY <1>10 DEF OpenConnFd, CloseFd, agent
  <2>2. NobodyWaits /\ apc' # "recv" /\ \A c \in Callers : cpc'[c] # "recv"
    BY <2>1, SoleUser DEF NobodyWaits
  <2>3. CASE UNCHANGED net
    <3>1. agent_shutdown' = agent_shutdown
      BY <1>10, Zenon DEF OpenConnFd, CloseFd, ctl
    <3> QED BY <2>2, <2>3, <3>1, WireFrame
  <2>4. CASE OpenOk \/ NoConn
    <3>1. wire' = <<>> /\ back' = <<>>
      BY <2>4 DEF OpenOk, NewConn, NoConn
    <3>2. ~garbled'
      BY <2>4, Zenon DEF OpenOk, NewConn, NoConn
    <3> QED BY <2>2, <3>1, <3>2, WireEmptied
  <2> QED BY <1>10, <2>3, <2>4 DEF OpenConnFd, CloseFd, OpenFail, net
<1>11. ASSUME CloseBegin \/ CloseCancel \/ CloseJoin \/ Reopen \/ UNCHANGED vars PROVE WireInv'
  <2>1. UNCHANGED <<net, apc, abuf, cpc>>
    BY <1>11 DEF CloseBegin, CloseCancel, CloseJoin, Reopen, vars, agent, net
  <2>2. ~agent_shutdown' => ~agent_shutdown
    BY <1>11, Zenon DEF CloseBegin, CloseCancel, CloseJoin, Reopen, vars, ctl
  <2>3. NobodyWaits' => NobodyWaits
    BY <2>1 DEF NobodyWaits
  <2> QED BY <2>1, <2>2, <2>3, WireFrame
<1>12. ASSUME Restart \/ Crash PROVE WireInv'
  <2>1. wire' = <<>> /\ back' = <<>> /\ apc' # "recv" /\ \A c \in Callers : cpc'[c] # "recv"
    BY <1>12 DEF Restart, Crash, ProcessDies, NoConn
  <2>2. ~garbled'
    BY <1>12, Zenon DEF Restart, Crash, ProcessDies, NoConn
  <2> QED BY <2>1, <2>2, WireEmptied
<1>13. ASSUME HangUp PROVE WireInv'
  <2>1. /\ conn' = "hup" /\ wire' = <<>> /\ back' \in {back, <<>>} /\ UNCHANGED <<apc, abuf, cpc>>
    BY <1>13 DEF HangUp, agent
  <2>2. ~garbled'
    BY <1>13, Zenon DEF HangUp, WireInv
  <2>3. apc' = "recv" => Exchange(abuf)'
    BY <2>1 DEF WireInv, Exchange
  <2>4. \A c \in Callers : cpc'[c] = "recv" => Exchange(c)'
    BY <2>1 DEF WireInv, Exchange
  <2>5. conn' # "up" /\ conn' # "none"
    BY <2>1
  <2> HIDE DEF Exchange, NobodyWaits
  <2> QED BY <2>1, <2>2, <2>3, <2>4, <2>5, Zenon DEF WireInv
<1>14. ASSUME ServerStep PROVE WireInv'
  BY <1>14, WireServer
<1> HIDE DEF SocketInv
<1> QED
  BY <1>1, <1>2, <1>3, <1>4, <1>5, <1>6, <1>7, <1>8, <1>9, <1>10, <1>11, <1>12, <1>13, <1>14
     DEF Next, AgentStep, RpcStep, MainStep

LEMMA SocketInitially == Init => SocketInv
BY Zenon DEF Init, SocketInv, ThreadInv, ShutdownInv, WireInv

LEMMA SocketStep ==
  ASSUME Quiet, TypeOK, LockInv, SocketInv, [Next]_vars
  PROVE  SocketInv'
BY ThreadStep, ShutdownStep, WireStep DEF SocketInv

\* Where SlurmDBD answers in time and the threads stop before the close, a reply
\* is read by the thread whose request it answers, although agent and RPC
\* callers share the socket and replies carry no request identifier.
THEOREM ReplyMatchesRequestAlways ==
  ASSUME Quiet
  PROVE  Spec => []ReplyMatchesRequest
<1>1. SocketInv => ReplyMatchesRequest
  <2> SUFFICES ASSUME SocketInv, back # <<>>
               PROVE  /\ apc = "recv" => Head(back).req = abuf
                      /\ \A c \in Callers : cpc[c] = "recv" => Head(back).req = c
    BY DEF ReplyMatchesRequest
  <2>1. ASSUME NEW q, Exchange(q) PROVE Head(back).req = q
    <3>1. PICK ok \in BOOLEAN : back = <<[req |-> q, rc |-> ok]>>
      BY <2>1 DEF Exchange
    <3> QED BY <3>1
  <2> QED BY <2>1 DEF SocketInv, WireInv
<1>2. TypeOK /\ LockInv /\ SocketInv /\ [Next]_vars => SocketInv'
  BY SocketStep
<1>3. TypeOK /\ LockInv /\ [Next]_vars => LockInv'
  BY LockStep
<1> QED BY <1>1, <1>2, <1>3, SocketInitially, LockInitially, TypeCorrect, PTL DEF Spec

-----------------------------------------------------------------------------
(* No message is lost.  AgentDone takes whatever is then at the head of    *)
(* the queue: that it is the message the agent sent, and that a successful *)
(* return code means SlurmDBD has processed it, is what has to be shown.   *)

LenInv == Len(agent_list) <= sent /\ Len(file) <= sent

\* The agent's message stays at the head of the queue until AgentDone.
HeadInv == apc \in {"send", "recv", "done"} => agent_list # <<>> /\ Head(agent_list) = abuf

\* A positive reply, on the socket or read, is about a message that was processed.
ReplyInv ==
  /\ \A i \in 1..Len(back) : back[i].rc /\ back[i].req \in Msgs => back[i].req \in applied
  /\ apc = "done" /\ arc => abuf \in applied

KeptInv == LenInv /\ HeadInv /\ ReplyInv /\ KeptUntilApplied

LEMMA LenStep ==
  ASSUME TypeOK, QueueInv, LenInv, [Next]_vars
  PROVE  LenInv'
<1> USE DEF LenInv
<1>0. /\ agent_list \in Seq(Msgs) /\ file \in Seq(Msgs) /\ sent \in Nat
      /\ Len(<<>>) = 0 /\ Len(agent_list) \in Nat /\ Len(file) \in Nat
  BY DEF TypeOK, DataOK
<1>1. Loaded \in Seq(Msgs) /\ Len(Loaded) <= sent
  BY <1>0 DEF Loaded
<1>2. ASSUME SendSlurmdbdMsg PROVE LenInv'
  <2> DEFINE kept == IF Len(Loaded) = MaxQueue - 1
                       THEN Without(Loaded, Starts) ELSE Loaded
  <2>1. kept \in Seq(Msgs) /\ Len(kept) <= sent
    BY <1>0, <1>1, WithoutProperties
  <2>2. /\ agent_list' = IF Room(kept) THEN Append(kept, sent + 1) ELSE kept
        /\ file' \in {file, <<>>} /\ sent' = sent + 1
    BY <1>2 DEF SendSlurmdbdMsg, CreateAgent, FileAfterLoad
  <2> HIDE DEF kept
  <2>3. Len(Append(kept, sent + 1)) = Len(kept) + 1 /\ Len(kept) \in Nat
    BY <2>1
  <2>4. Len(agent_list') <= sent'
    BY <1>0, <2>1, <2>2, <2>3
  <2>5. Len(file') <= sent'
    BY <1>0, <2>2
  <2> QED BY <2>4, <2>5
<1>3. ASSUME OpenConnAgent PROVE LenInv'
  <2>1. agent_list' = Loaded \/ (agent_list' = agent_list \o file /\ list_made)
    BY <1>3 DEF OpenConnAgent, NeedAgent
  <2>2. list_made => agent_list \o file = agent_list
    BY <1>0 DEF QueueInv, ListOrFile
  <2>3. file' \in {file, <<>>} /\ sent' = sent
    BY <1>3 DEF OpenConnAgent, CreateAgent, FileAfterLoad, hist
  <2> QED BY <1>0, <1>1, <2>1, <2>2, <2>3
<1>4. ASSUME AgentExit PROVE LenInv'
  <2> DEFINE recs == Without(agent_list, Registers)
  <2>1. recs \in Seq(Msgs) /\ Len(recs) <= Len(agent_list) /\ Len(recs) \in Nat
    BY <1>0, WithoutProperties
  <2>2. /\ agent_list' = <<>> /\ sent' = sent
        /\ \/ file' = recs
           \/ \E k \in 0..Len(recs) : file' = SubSeq(recs, 1, k)
           \/ file' = file
    BY <1>4 DEF AgentExit
  <2> HIDE DEF recs
  <2>3. ASSUME NEW k \in 0..Len(recs) PROVE Len(SubSeq(recs, 1, k)) = k
    BY <2>1, <2>3
  <2> QED BY <1>0, <2>1, <2>2, <2>3
<1>5. ASSUME AgentDone PROVE LenInv'
  <2>1. /\ agent_list' = agent_list \/ (agent_list # <<>> /\ agent_list' = Tail(agent_list))
        /\ UNCHANGED <<file, sent>>
    BY <1>5 DEF AgentDone, Dequeued, hist
  <2>2. agent_list # <<>> => Len(Tail(agent_list)) = Len(agent_list) - 1
    BY <1>0
  <2> QED BY <1>0, <2>1, <2>2
<1>6. ASSUME Restart \/ Crash PROVE LenInv'
  BY <1>0, <1>6 DEF Restart, Crash, ProcessDies
<1>7. ASSUME UNCHANGED queue, sent' = sent PROVE LenInv'
  BY <1>7 DEF queue
<1> QED BY <1>2, <1>3, <1>4, <1>5, <1>6, <1>7, QueueActions, HistActions

\* With room to spare, or no DBD_JOB_START to purge, a new message only joins
\* the end of the queue.
LEMMA NoPurge ==
  ASSUME Quiet, TypeOK, OrderInv, LenInv, SendSlurmdbdMsg
  PROVE  agent_list' \in {Loaded, Append(Loaded, sent + 1)}
<1>0. /\ agent_list \in Seq(Nat) /\ file \in Seq(Nat) /\ Increasing(agent_list) /\ Increasing(file)
      /\ sent \in Nat /\ MaxMsgs \in Nat /\ MaxQueue \in Nat
  BY ConstantsAssumption DEF TypeOK, DataOK, OrderInv, QueuesInOrder, Msgs
<1>1. Loaded \in Seq(Nat) /\ Increasing(Loaded) /\ Len(Loaded) <= sent /\ Len(Loaded) \in Nat
  BY <1>0 DEF Loaded, LenInv
<1>2. sent < MaxMsgs
  BY DEF SendSlurmdbdMsg
<1> DEFINE kept == IF Len(Loaded) = MaxQueue - 1
                     THEN Without(Loaded, Starts) ELSE Loaded
<1>3. kept = Loaded
  <2>1. CASE MaxMsgs < MaxQueue
    <3>1. Len(Loaded) # MaxQueue - 1
      BY <1>0, <1>1, <1>2, <2>1
    <3> QED BY <3>1
  <2>2. CASE Starts = {}
    <3>1. /\ Without(Loaded, {}) \in Seq(Nat)
          /\ Elems(Without(Loaded, {})) = Elems(Loaded) \ {}
      BY <1>1, WithoutProperties
    <3>2. Increasing(Without(Loaded, {}))
      BY <1>1, WithoutIncreasing
    <3>3. Without(Loaded, {}) = Loaded
      BY <1>1, <3>1, <3>2, IncreasingUnique
    <3> QED BY <2>2, <3>3
  <2> QED BY <2>1, <2>2 DEF Quiet
<1>4. agent_list' = IF Room(kept) THEN Append(kept, sent + 1) ELSE kept
  BY DEF SendSlurmdbdMsg
<1> HIDE DEF kept
<1> QED BY <1>3, <1>4

\* Only AgentPick gives the agent a message.
LEMMA HolderActions ==
  ASSUME [Next]_vars, ~AgentPick, apc' \in {"send", "recv", "done"}
  PROVE  apc \in {"send", "recv", "done"} /\ abuf' = abuf
<1>1. AgentLoop \/ AgentLock \/ AgentRelock \/ AgentOpen \/ AgentWake \/ AgentDone \/ AgentExit
      \/ AgentDies => apc' \notin {"send", "recv", "done"}
  BY DEF AgentLoop, AgentLock, AgentRelock, AgentOpen, AgentWake, AgentDone, AgentExit, AgentDies
<1>2. AgentSend \/ AgentRecv => apc \in {"send", "recv", "done"} /\ abuf' = abuf
  BY DEF AgentSend, AgentRecv
<1>3. SendSlurmdbdMsg \/ OpenConnAgent => apc' \in {apc, "loop"} /\ abuf' = abuf
  BY DEF SendSlurmdbdMsg, OpenConnAgent, CreateAgent
<1>4. ASSUME NEW c \in Callers, RpcBegin(c) \/ RpcStep(c)
      PROVE  (apc' = apc \/ apc' = "relock") /\ abuf' = abuf
  BY <1>4 DEF RpcBegin, RpcStep, RpcLock, RpcSend, RpcRecv, RpcEnd, agent
<1>5. Restart \/ Crash => apc' = "gone"
  BY DEF Restart, Crash, ProcessDies
<1>6. OpenConnFd \/ CloseJoin \/ CloseFd \/ CloseBegin \/ CloseCancel \/ Reopen \/ ServerStep \/ HangUp
      \/ RetryTimePasses \/ UNCHANGED vars => apc' = apc /\ abuf' = abuf
  BY DEF OpenConnFd, CloseJoin, CloseFd, CloseBegin, CloseCancel, Reopen, ServerStep, HangUp,
         RetryTimePasses, vars, agent
<1> QED BY <1>1, <1>2, <1>3, <1>4, <1>5, <1>6 DEF Next, AgentStep, MainStep

LEMMA HeadStep ==
  ASSUME Quiet, TypeOK, QueueInv, OrderInv, LenInv, HeadInv, [Next]_vars
  PROVE  HeadInv'
<1> SUFFICES ASSUME apc' \in {"send", "recv", "done"}
             PROVE  agent_list' # <<>> /\ Head(agent_list') = abuf'
  BY DEF HeadInv
<1>0. agent_list \in Seq(Msgs) /\ file \in Seq(Msgs)
  BY DEF TypeOK, DataOK
<1>1. CASE AgentPick
  <2>1. agent_list # <<>> /\ abuf' = Head(agent_list) /\ agent_list' = agent_list
    BY <1>1 DEF AgentPick, queue
  <2> QED BY <2>1
<1>2. CASE ~AgentPick
  <2>1. abuf' = abuf /\ agent_list # <<>> /\ Head(agent_list) = abuf
    BY <1>2, HolderActions DEF HeadInv
  <2>2. file = <<>> /\ Loaded = agent_list
    BY <2>1 DEF QueueInv, ListOrFile, Loaded
  <2>3. ASSUME SendSlurmdbdMsg PROVE agent_list' # <<>> /\ Head(agent_list') = abuf
    <3>1. /\ Append(agent_list, sent + 1) # <<>>
          /\ Head(Append(agent_list, sent + 1)) = Head(agent_list)
      BY <1>0, <2>1
    <3> QED BY <2>1, <2>2, <2>3, <3>1, NoPurge
  <2>4. OpenConnAgent => agent_list' = agent_list
    <3>1. agent_list \o <<>> = agent_list
      BY <1>0
    <3> QED BY <2>2, <3>1 DEF OpenConnAgent
  <2>5. ~AgentExit /\ ~AgentDone /\ ~Restart /\ ~Crash
    BY DEF AgentExit, AgentDone, Restart, Crash, ProcessDies
  <2>6. UNCHANGED queue => agent_list' = agent_list
    BY DEF queue
  <2> QED BY <2>1, <2>3, <2>4, <2>5, <2>6, QueueActions
<1> QED BY <1>1, <1>2

\* Only SlurmDBD writes a reply, and only AgentRecv takes its code.
LEMMA ReplyActions ==
  ASSUME [Next]_vars, ~ServerStep, ~AgentRecv
  PROVE  /\ back' \in {back, <<>>} \/ (back # <<>> /\ back' = Tail(back))
         /\ apc' = "done" /\ arc' => apc = "done" /\ arc /\ abuf' = abuf
<1>1. AgentLoop \/ AgentLock \/ AgentRelock \/ AgentOpen \/ AgentPick \/ AgentWake \/ AgentDone
      \/ AgentExit \/ AgentDies => apc' # "done" /\ back' \in {back, <<>>}
  BY DEF AgentLoop, AgentLock, AgentRelock, AgentOpen, AgentPick, AgentWake, AgentDone, AgentExit,
         AgentDies, OpenOk, OpenFail, NewConn, NoConn, net
<1>2. AgentSend => back' \in {back, <<>>} /\ (apc' = "done" => ~arc')
  <2>1. AgentSend => back' \in {back, <<>>}
    BY DEF AgentSend, SendOk, SendFail, NewConn, NoConn, net
  <2>2. "recv" # "done"
    OBVIOUS
  <2> QED BY <2>1, <2>2, Zenon DEF AgentSend
<1>3. SendSlurmdbdMsg \/ OpenConnAgent => apc' \in {apc, "loop"} /\ back' = back
  BY DEF SendSlurmdbdMsg, OpenConnAgent, CreateAgent, net
<1>4. SendSlurmdbdMsg \/ OpenConnAgent => arc' = arc /\ abuf' = abuf
  BY Zenon DEF SendSlurmdbdMsg, OpenConnAgent
<1>5. ASSUME NEW c \in Callers, RpcBegin(c) \/ RpcStep(c)
      PROVE  /\ (apc' = apc \/ apc' = "relock") /\ abuf' = abuf
             /\ back' \in {back, <<>>} \/ (back # <<>> /\ back' = Tail(back))
  BY <1>5 DEF RpcBegin, RpcStep, RpcLock, RpcSend, RpcRecv, RpcEnd, OpenOk, OpenFail, SendOk,
              SendFail, RecvOk, RecvFail, NewConn, NoConn, agent, net
<1>6. ASSUME NEW c \in Callers, RpcBegin(c) \/ RpcStep(c) PROVE arc' = arc
  BY <1>6, Zenon DEF RpcBegin, RpcStep, RpcLock, RpcSend, RpcRecv, agent
<1>7. Restart \/ Crash => apc' = "gone" /\ back' = <<>>
  BY DEF Restart, Crash, ProcessDies, NoConn
<1>8. OpenConnFd \/ CloseJoin \/ CloseFd \/ CloseBegin \/ CloseCancel \/ Reopen \/ HangUp
      \/ RetryTimePasses \/ UNCHANGED vars => apc' = apc /\ abuf' = abuf /\ back' \in {back, <<>>}
  BY DEF OpenConnFd, CloseJoin, CloseFd, CloseBegin, CloseCancel, Reopen, HangUp,
         RetryTimePasses, vars, agent, net, OpenOk, OpenFail, NewConn, NoConn
<1>9. OpenConnFd \/ CloseJoin \/ CloseFd \/ CloseBegin \/ CloseCancel \/ Reopen \/ HangUp
      \/ RetryTimePasses \/ UNCHANGED vars => arc' = arc
  BY Zenon DEF OpenConnFd, CloseJoin, CloseFd, CloseBegin, CloseCancel, Reopen, HangUp,
         RetryTimePasses, vars, agent
<1>10. "loop" # "done" /\ "relock" # "done" /\ "gone" # "done"
  OBVIOUS
<1>11. \/ AgentLoop \/ AgentLock \/ AgentRelock \/ AgentOpen \/ AgentPick \/ AgentWake \/ AgentDone
       \/ AgentExit \/ AgentDies
       \/ AgentSend
       \/ SendSlurmdbdMsg \/ OpenConnAgent
       \/ \E c \in Callers : RpcBegin(c) \/ RpcStep(c)
       \/ Restart \/ Crash
       \/ OpenConnFd \/ CloseJoin \/ CloseFd \/ CloseBegin \/ CloseCancel \/ Reopen \/ HangUp
       \/ RetryTimePasses \/ UNCHANGED vars
  BY DEF Next, AgentStep, MainStep
<1>12. back' \in {back, <<>>} \/ (back # <<>> /\ back' = Tail(back))
  BY <1>1, <1>2, <1>3, <1>5, <1>7, <1>8, <1>11
<1>13. apc' = "done" /\ arc' => apc = "done" /\ arc /\ abuf' = abuf
  <2>1. SendSlurmdbdMsg \/ OpenConnAgent => apc' = apc \/ apc' = "loop"
    BY <1>3
  <2> QED BY <1>1, <1>2, <1>4, <1>5, <1>6, <1>7, <1>8, <1>9, <1>10, <1>11, <2>1, Zenon
<1> QED BY <1>12, <1>13

LEMMA ReplyStep ==
  ASSUME TypeOK, SocketInv, ReplyInv, [Next]_vars
  PROVE  ReplyInv'
<1>0. back \in Seq(Replies) /\ wire \in Seq(Requests)
  BY DEF TypeOK, DataOK
<1>1. CASE ServerStep
  <2>1. PICK ok \in BOOLEAN :
          /\ back' = Append(back, [req |-> Head(wire), rc |-> ok])
          /\ applied' = IF ok /\ Head(wire) \in Msgs THEN applied \cup {Head(wire)} ELSE applied
    BY <1>1 DEF ServerStep
  <2>2. UNCHANGED <<apc, abuf>> /\ arc' = arc
    BY <1>1, Zenon DEF ServerStep, agent
  <2>3. Len(back') = Len(back) + 1 /\ Len(back) \in Nat
        /\ back'[Len(back) + 1] = [req |-> Head(wire), rc |-> ok]
        /\ \A i \in 1..Len(back) : back'[i] = back[i]
    BY <1>0, <2>1
  <2>4. \A i \in 1..Len(back) : back'[i].rc /\ back'[i].req \in Msgs => back'[i].req \in applied'
    BY <2>1, <2>3 DEF ReplyInv
  <2>5. ok /\ Head(wire) \in Msgs => Head(wire) \in applied'
    BY <2>1
  <2>6. \A i \in 1..Len(back') : i \in 1..Len(back) \/ i = Len(back) + 1
    BY <2>3
  <2>7. \A i \in 1..Len(back') : back'[i].rc /\ back'[i].req \in Msgs => back'[i].req \in applied'
    BY <2>3, <2>4, <2>5, <2>6
  <2>8. apc' = "done" /\ arc' => abuf' \in applied'
    <3>1. applied \subseteq applied'
      BY <2>1
    <3>2. apc = "done" /\ arc => abuf \in applied
      BY DEF ReplyInv
    <3> QED BY <2>2, <3>1, <3>2, Zenon
  <2> QED BY <2>7, <2>8 DEF ReplyInv
<1>2. CASE AgentRecv
  <2>1. apc = "recv" /\ UNCHANGED <<abuf, applied>> /\ abuf \in Msgs
    BY <1>2 DEF AgentRecv, hist, TypeOK, DataOK
  <2>2. CASE RecvOk /\ arc' = Head(back).rc
    <3>1. PICK ok \in BOOLEAN : back = <<[req |-> abuf, rc |-> ok]>>
      BY <2>1, <2>2 DEF RecvOk, SocketInv, WireInv, Exchange
    <3>2. Head(back).rc = ok /\ back[1].rc = ok /\ back[1].req = abuf /\ Len(back) = 1
      BY <3>1
    <3>3. ok => abuf \in applied
      <4>1. 1 \in 1..Len(back)
        BY <3>2
      <4> QED BY <2>1, <3>2, <4>1, Zenon DEF ReplyInv
    <3>4. back' = <<>>
      BY <2>2, <3>1 DEF RecvOk
    <3>5. arc' => abuf' \in applied'
      BY <2>1, <2>2, <3>2, <3>3
    <3> QED BY <3>4, <3>5 DEF ReplyInv
  <2>3. CASE RecvFail /\ arc' = FALSE
    <3>1. back' \in {back, <<>>}
      BY <2>3 DEF RecvFail, net
    <3>2. \A i \in 1..Len(back') : back'[i].rc /\ back'[i].req \in Msgs => back'[i].req \in applied'
      BY <2>1, <3>1 DEF ReplyInv
    <3> QED BY <2>3, <3>2 DEF ReplyInv
  <2> QED BY <1>2, <2>2, <2>3 DEF AgentRecv
<1>3. CASE ~ServerStep /\ ~AgentRecv
  <2>1. applied' = applied
    BY <1>3, HistActions
  <2>2. \A i \in 1..Len(back') : back'[i].rc /\ back'[i].req \in Msgs => back'[i].req \in applied'
    <3>1. CASE back' \in {back, <<>>}
      BY <2>1, <3>1 DEF ReplyInv
    <3>2. CASE back # <<>> /\ back' = Tail(back)
      <4>1. Len(back') = Len(back) - 1 /\ \A i \in 1..Len(back') : back'[i] = back[i+1] /\ i + 1 \in 1..Len(back)
        BY <1>0, <3>2
      <4> QED BY <2>1, <4>1 DEF ReplyInv
    <3> QED BY <1>3, <3>1, <3>2, ReplyActions
  <2>3. apc' = "done" /\ arc' => abuf' \in applied'
    <3>1. apc = "done" /\ arc => abuf \in applied
      BY DEF ReplyInv
    <3> QED BY <1>3, <2>1, <3>1, ReplyActions, Zenon
  <2> QED BY <2>2, <2>3 DEF ReplyInv
<1> QED BY <1>1, <1>2, <1>3

\* The message that AgentDone takes from the queue has been processed.
LEMMA DoneTakesApplied ==
  ASSUME HeadInv, ReplyInv, AgentDone
  PROVE  \/ agent_list' = agent_list
         \/ agent_list # <<>> /\ agent_list' = Tail(agent_list) /\ Head(agent_list) \in applied
<1>1. apc = "done" /\ agent_list # <<>> /\ Head(agent_list) = abuf
  BY DEF AgentDone, HeadInv
<1>2. arc => abuf \in applied
  BY <1>1, Zenon DEF ReplyInv
<1>3. agent_list' = IF arc THEN Tail(agent_list) ELSE agent_list
  BY <1>1 DEF AgentDone, Dequeued
<1> QED BY <1>1, <1>2, <1>3

LEMMA KeptStep ==
  ASSUME TypeOK, QueueInv, ThreadInv, HeadInv, ReplyInv, KeptUntilApplied, [Next]_vars
  PROVE  KeptUntilApplied'
<1> DEFINE Places == applied \cup dropped \cup Elems(agent_list) \cup Elems(file)
<1>0. /\ agent_list \in Seq(Msgs) /\ file \in Seq(Msgs) /\ sent \in Nat /\ Elems(<<>>) = {}
      /\ \A m \in 1..sent : m \in Places
  BY EmptyIncreasing DEF TypeOK, DataOK, KeptUntilApplied
<1>1. applied \subseteq applied' /\ (~SendSlurmdbdMsg => sent' = sent)
  <2>1. ServerStep => applied \subseteq applied'
    BY DEF ServerStep
  <2> QED BY <2>1, HistActions
<1>2. Loaded \in Seq(Msgs) /\ Elems(agent_list) \cup Elems(file) = Elems(Loaded)
  BY <1>0 DEF Loaded, QueueInv, ListOrFile
<1>3. ASSUME SendSlurmdbdMsg PROVE KeptUntilApplied'
  <2> DEFINE kept == IF Len(Loaded) = MaxQueue - 1
                       THEN Without(Loaded, Starts) ELSE Loaded
  <2>1. /\ agent_list' = (IF Room(kept) THEN Append(kept, sent + 1) ELSE kept)
        /\ dropped' = dropped \cup (Elems(Loaded) \ Elems(kept))
                               \cup (IF Room(kept) THEN {} ELSE {sent + 1})
        /\ sent' = sent + 1
    BY <1>3 DEF SendSlurmdbdMsg
  <2>2. kept \in Seq(Msgs)
    BY <1>2, WithoutProperties
  <2>3. sent + 1 \in Msgs
    BY <1>3, ConstantsAssumption DEF SendSlurmdbdMsg, TypeOK, DataOK, Msgs
  <2> HIDE DEF kept
  <2>4. Elems(Append(kept, sent + 1)) = Elems(kept) \cup {sent + 1}
    BY <2>2, <2>3, AppendElems
  <2>5. Places \cup {sent + 1} \subseteq Places'
    BY <1>1, <1>2, <2>1, <2>4
  <2> HIDE DEF Places
  <2>6. \A m \in 1..sent' : m \in 1..sent \/ m = sent + 1
    BY <1>0, <2>1
  <2>7. \A m \in 1..sent' : m \in Places'
    BY <1>0, <2>5, <2>6
  <2> QED BY <2>7 DEF KeptUntilApplied, Places
<1>4. ASSUME ~SendSlurmdbdMsg, Places \subseteq Places' PROVE KeptUntilApplied'
  BY <1>0, <1>1, <1>4 DEF KeptUntilApplied
<1>5. ASSUME OpenConnAgent PROVE Places \subseteq Places'
  <2>1. agent_list' = Loaded \/ (agent_list' = agent_list /\ file = <<>>)
    <3>1. file = <<>> => agent_list \o file = agent_list
      BY <1>0
    <3> QED BY <1>5, <3>1 DEF OpenConnAgent, NeedAgent, QueueInv, ListOrFile
  <2>2. UNCHANGED <<applied, dropped>>
    BY <1>5 DEF OpenConnAgent, hist
  <2> QED BY <1>0, <1>2, <2>1, <2>2
<1>6. ASSUME AgentExit PROVE Places \subseteq Places'
  <2>1. list_made
    <3>1. apc = "exit"
      BY <1>6 DEF AgentExit
    <3> QED BY <3>1 DEF ThreadInv
  <2>2. file = <<>>
    BY <2>1 DEF QueueInv, ListOrFile
  <2> QED BY <1>0, <1>6, <2>2 DEF AgentExit
<1>7. ASSUME AgentDone PROVE Places \subseteq Places'
  <2>1. UNCHANGED <<applied, dropped, file>>
    BY <1>7 DEF AgentDone, hist
  <2>2. CASE agent_list' = agent_list
    BY <2>1, <2>2
  <2>3. CASE agent_list # <<>> /\ agent_list' = Tail(agent_list) /\ Head(agent_list) \in applied
    <3>1. Elems(agent_list) \subseteq Elems(Tail(agent_list)) \cup {Head(agent_list)}
      BY <1>0, <2>3, TailElems
    <3> QED BY <2>1, <2>3, <3>1
  <2> QED BY <1>7, <2>2, <2>3, DoneTakesApplied
<1>8. ASSUME Restart \/ Crash PROVE Places \subseteq Places'
  BY <1>8 DEF Restart, Crash, ProcessDies
<1>9. ASSUME UNCHANGED queue, ~SendSlurmdbdMsg, ~AgentExit, ~Restart, ~Crash
      PROVE  Places \subseteq Places'
  <2>1. dropped' = dropped
    BY <1>9, HistActions
  <2> QED BY <1>1, <1>9, <2>1 DEF queue
<1>10. ASSUME AgentExit \/ OpenConnAgent \/ AgentDone \/ Restart \/ Crash PROVE ~SendSlurmdbdMsg
  <2>1. SendSlurmdbdMsg => sent' = sent + 1
    BY DEF SendSlurmdbdMsg
  <2>2. sent' = sent
    BY <1>10 DEF AgentExit, OpenConnAgent, AgentDone, Restart, Crash, ProcessDies, hist
  <2> QED BY <1>0, <2>1, <2>2
<1> QED
  <2> HIDE DEF Places
  <2> QED BY <1>3, <1>4, <1>5, <1>6, <1>7, <1>8, <1>9, <1>10, QueueActions

\* Everything the proofs below rest on.
IInv == QueueInv /\ LockInv /\ OrderInv /\ SocketInv /\ KeptInv

LEMMA InvInitially == Init => IInv
<1>1. Init => LenInv
  BY DEF Init, LenInv
<1>2. Init => HeadInv /\ ReplyInv
  BY DEF Init, HeadInv, ReplyInv
<1>3. Init => KeptUntilApplied
  BY DEF Init, KeptUntilApplied
<1> QED
  BY <1>1, <1>2, <1>3, QueueInitially, LockInitially, OrderInitially, SocketInitially
     DEF IInv, KeptInv

LEMMA InvStep ==
  ASSUME Quiet, TypeOK, IInv, [Next]_vars
  PROVE  IInv'
BY QueueStep, LockStep, OrderStep, SocketStep, LenStep, HeadStep, ReplyStep, KeptStep
   DEF IInv, KeptInv, SocketInv

\* Under the same conditions a queued message leaves the queue only once
\* SlurmDBD has processed it, unless the code gave it up on purpose: through
\* resends, failures, a save to dbd.messages and the load by the next agent.
THEOREM KeptUntilAppliedAlways ==
  ASSUME Quiet
  PROVE  Spec => []KeptUntilApplied
<1>1. IInv => KeptUntilApplied
  BY DEF IInv, KeptInv
<1>2. TypeOK /\ IInv /\ [Next]_vars => IInv'
  BY InvStep
<1> QED BY <1>1, <1>2, InvInitially, TypeCorrect, PTL DEF Spec

-----------------------------------------------------------------------------
(* The agent implements Delivery.  The line of Delivery is the queue       *)
(* followed by dbd.messages; being in order it is determined by the        *)
(* messages in it, so every step is compared as a step on sets.            *)

Pending == agent_list \o file

\* The operators of Delivery are those of SeqOps.
LEMMA PromiseOperators ==
  /\ \A s : Promise!Elems(s) = Elems(s)
  /\ \A s, D : Promise!Without(s, D) = Without(s, D)
BY DEF Promise!Elems, Promise!Without, Elems, Without

\* The line is the queue or the file, whichever there is, and in order.
LineInv ==
  /\ Pending \in Seq(Nat) /\ Increasing(Pending) /\ Elems(Pending) = InLine
  /\ Pending = Loaded /\ (file = <<>> \/ agent_list = <<>>)

LEMMA PendingInOrder ==
  ASSUME TypeOK, QueueInv, OrderInv
  PROVE  LineInv
<1> USE DEF LineInv
<1>0. /\ agent_list \in Seq(Nat) /\ file \in Seq(Nat) /\ Increasing(agent_list) /\ Increasing(file)
  BY ConstantsAssumption DEF TypeOK, DataOK, OrderInv, QueuesInOrder, Msgs
<1>1. agent_list \o <<>> = agent_list /\ <<>> \o file = file
  BY <1>0
<1>2. CASE list_made
  <2>1. file = <<>>
    BY <1>2 DEF QueueInv, ListOrFile
  <2> QED BY <1>0, <1>1, <1>2, <2>1, EmptyIncreasing DEF Pending, Loaded, InLine
<1>3. CASE ~list_made
  <2>1. agent_list = <<>>
    BY <1>3 DEF QueueInv
  <2> QED BY <1>0, <1>1, <1>3, <2>1, EmptyIncreasing DEF Pending, Loaded, InLine
<1> QED BY <1>2, <1>3

\* A line that lost the messages G, and nothing else, is Without(line, G).
LEMMA LineWithout ==
  ASSUME NEW s \in Seq(Nat), Increasing(s), NEW t \in Seq(Nat), Increasing(t),
         NEW G, Elems(t) = Elems(s) \ G
  PROVE  t = Without(s, G)
<1>1. Without(s, G) \in Seq(Nat) /\ Elems(Without(s, G)) = Elems(s) \ G
  BY WithoutProperties
<1>2. Increasing(Without(s, G))
  BY WithoutIncreasing
<1> QED BY <1>1, <1>2, IncreasingUnique

\* slurm_send_slurmdbd_msg accepts a message and may give up others, or the new one.
LEMMA SendAccepts ==
  ASSUME TypeOK, QueueInv, OrderInv, LineInv, LineInv', SendSlurmdbdMsg
  PROVE  Promise!Accept
<1>0. sent \in Nat /\ sent + 1 \in Nat /\ \A y \in InLine : y < sent + 1
  <2>1. sent \in Nat /\ InLine \subseteq 1..sent
    BY DEF OrderInv, NothingOvertakes, TypeOK, DataOK
  <2> QED BY <2>1
<1>1. Pending \in Seq(Nat) /\ Increasing(Pending) /\ Pending = Loaded /\ Elems(Pending) = InLine
  BY DEF LineInv
<1>2. Pending' \in Seq(Nat) /\ Increasing(Pending') /\ Elems(Pending') = InLine'
  BY DEF LineInv
<1> DEFINE kept == IF Len(Loaded) = MaxQueue - 1
                     THEN Without(Loaded, Starts) ELSE Loaded
           line == Append(Pending, sent + 1)
           G    == (Elems(Loaded) \ Elems(kept)) \cup (IF Room(kept) THEN {} ELSE {sent + 1})
<1>3. /\ agent_list' = (IF Room(kept) THEN Append(kept, sent + 1) ELSE kept)
      /\ dropped' = dropped \cup G /\ sent' = sent + 1 /\ applied' = applied
  BY DEF SendSlurmdbdMsg
<1>4. file' = <<>>
  <2>1. CASE NeedAgent
    BY <2>1 DEF SendSlurmdbdMsg, CreateAgent, FileAfterLoad, QueueInv, ListOrFile
  <2>2. CASE ~NeedAgent
    BY <2>2 DEF SendSlurmdbdMsg, NeedAgent, QueueInv, ListOrFile
  <2> QED BY <2>1, <2>2
<1>5. kept \in Seq(Nat) /\ Elems(kept) \subseteq Elems(Loaded)
  BY <1>1, WithoutProperties
<1>6. line \in Seq(Nat) /\ Elems(line) = Elems(Pending) \cup {sent + 1} /\ Increasing(line)
  <2>1. sent + 1 \in Nat /\ \A y \in Elems(Pending) : y < sent + 1
    BY <1>0, <1>1
  <2> QED BY <1>1, <2>1, AppendElems, AppendIncreasing
<1> HIDE DEF kept
<1>7. Elems(agent_list') = Elems(kept) \cup (IF Room(kept) THEN {sent + 1} ELSE {})
  <2>1. Elems(Append(kept, sent + 1)) = Elems(kept) \cup {sent + 1}
    BY <1>0, <1>5, AppendElems
  <2> QED BY <1>3, <2>1
<1>8. sent + 1 \notin Elems(Loaded)
  BY <1>0, <1>1
<1>9. Elems(Pending') = Elems(line) \ G /\ G \subseteq Elems(line)
  <2>1. Elems(Pending') = Elems(agent_list')
    BY <1>2, <1>4, EmptyIncreasing DEF InLine
  <2> HIDE DEF line
  <2> QED BY <1>1, <1>5, <1>6, <1>7, <1>8, <2>1
<1> HIDE DEF line, G
<1>10. Pending' = Without(line, G)
  BY <1>2, <1>6, <1>9, LineWithout
<1>11. Promise!Drop(line)
  <2>1. G \in SUBSET Promise!Elems(line) /\ Pending' = Promise!Without(line, G)
    BY <1>9, <1>10, PromiseOperators
  <2> QED BY <1>3, <2>1 DEF Promise!Drop, Pending
<1> QED BY <1>3, <1>11 DEF Promise!Accept, line, Pending

\* A step in which the line loses the messages G and the code gives them up.
LEMMA StepGivesUp ==
  ASSUME LineInv, LineInv',
         NEW G, G \subseteq InLine, InLine' = InLine \ G,
         dropped' = dropped \cup G, UNCHANGED <<sent, applied>>
  PROVE  Promise!GiveUp
<1>1. Pending \in Seq(Nat) /\ Increasing(Pending) /\ Elems(Pending) = InLine
  BY DEF LineInv
<1>2. Pending' \in Seq(Nat) /\ Increasing(Pending') /\ Elems(Pending') = InLine'
  BY DEF LineInv
<1>3. Pending' = Without(Pending, G)
  BY <1>1, <1>2, LineWithout
<1>4. G \in SUBSET Promise!Elems(Pending) /\ Pending' = Promise!Without(Pending, G)
  BY <1>1, <1>3, PromiseOperators
<1> QED BY <1>4 DEF Promise!GiveUp, Promise!Drop, Pending

\* SlurmDBD processes the oldest message, or one given up while under way.
LEMMA ServerProcesses ==
  ASSUME TypeOK, OrderInv, LineInv, KeptUntilApplied, ServerStep, applied' # applied
  PROVE  \E m \in 1..sent : Promise!Process(m)
<1> DEFINE m == Head(wire)
<1>1. m \in Msgs /\ m \notin applied /\ applied' = applied \cup {m} /\ wire # <<>>
  BY DEF ServerStep
<1>2. m \in Carried
  BY <1>1 DEF Carried, Elems, TypeOK, DataOK
<1>3. m \in 1..sent /\ (\A n \in applied : n <= m) /\ \A x \in InLine : m <= x
  BY <1>2 DEF OrderInv, NothingOvertakes, Upto
<1>4. Msgs \subseteq Nat /\ applied \subseteq Msgs
  BY ConstantsAssumption DEF TypeOK, DataOK, Msgs
<1>5. m \in dropped \/ m \in InLine
  BY <1>1, <1>3 DEF KeptUntilApplied, InLine
<1> HIDE DEF m
<1>6. /\ Pending \in Seq(Nat) /\ Increasing(Pending) /\ Elems(Pending) = InLine
      /\ applied \subseteq Nat /\ m \in Nat
  BY <1>1, <1>4 DEF LineInv
<1>7. IF Pending = <<>> THEN m \in dropped ELSE m \in dropped \cup {Head(Pending)}
  <2>1. CASE Pending = <<>>
    BY <1>6, <1>5, <2>1, EmptyIncreasing
  <2>2. CASE Pending # <<>>
    <3>1. /\ Head(Pending) \in Elems(Pending) /\ Head(Pending) \in Nat
          /\ \A x \in Elems(Pending) : Head(Pending) <= x
      BY <1>6, <2>2, TailIncreasing
    <3>2. m \in InLine => m = Head(Pending)
      BY <1>3, <1>6, <3>1
    <3> QED BY <1>5, <2>2, <3>2
  <2> QED BY <2>1, <2>2
<1>8. \A n \in applied : n < m
  BY <1>1, <1>3, <1>6
<1>9. UNCHANGED <<sent, agent_list, file, dropped>>
  BY DEF ServerStep, queue
<1>10. Promise!Process(m)
  BY <1>1, <1>7, <1>8, <1>9 DEF Promise!Process, Pending
<1> QED BY <1>3, <1>10

\* Each step of the agent is one step of Delivery or none.
LEMMA PromiseStep ==
  ASSUME TypeOK, IInv, LineInv, LineInv', [Next]_vars
  PROVE  [Promise!Next]_(Promise!dvars)
<1>0. /\ QueueInv /\ OrderInv
      /\ HeadInv /\ ReplyInv /\ KeptUntilApplied /\ ThreadInv
      /\ agent_list \in Seq(Nat) /\ file \in Seq(Nat) /\ Elems(<<>>) = {}
  BY EmptyIncreasing, ConstantsAssumption DEF IInv, KeptInv, SocketInv, TypeOK, DataOK, Msgs
<1>1. CASE SendSlurmdbdMsg
  BY <1>0, <1>1, SendAccepts DEF Promise!Next
<1>2. CASE OpenConnAgent
  <2>1. Pending = Loaded
    BY DEF LineInv
  <2>2. UNCHANGED hist
    BY <1>2 DEF OpenConnAgent
  <2>3. Pending' = Pending
    <3>1. CASE NeedAgent
      <4>1. agent_list' = Loaded /\ file' = <<>>
        BY <1>0, <1>2, <3>1 DEF OpenConnAgent, CreateAgent, FileAfterLoad, QueueInv, ListOrFile
      <4>2. Loaded \in Seq(Nat)
        BY <1>0 DEF Loaded
      <4> QED BY <2>1, <4>1, <4>2 DEF Pending
    <3>2. CASE ~NeedAgent
      <4>1. agent_list' = agent_list \o file /\ file' = <<>>
        BY <1>2, <3>2 DEF OpenConnAgent
      <4>2. agent_list \o file \in Seq(Nat)
        BY <1>0
      <4> QED BY <4>1, <4>2 DEF Pending
    <3> QED BY <3>1, <3>2
  <2> QED BY <2>2, <2>3 DEF Promise!dvars, Pending, hist
<1>3. CASE AgentExit
  <2>1. file = <<>>
    <3>1. apc = "exit"
      BY <1>3 DEF AgentExit
    <3> QED BY <1>0, <3>1 DEF ThreadInv, QueueInv, ListOrFile
  <2>2. /\ agent_list' = <<>> /\ UNCHANGED <<sent, applied>>
        /\ dropped' = dropped \cup (Elems(agent_list) \ Elems(file'))
    BY <1>3 DEF AgentExit
  <2>3. Elems(file') \subseteq Elems(agent_list)
    <3> DEFINE recs == Without(agent_list, Registers)
    <3>1. recs \in Seq(Nat) /\ Increasing(recs) /\ Elems(recs) \subseteq Elems(agent_list)
      BY <1>0, WithoutProperties, WithoutIncreasing DEF OrderInv, QueuesInOrder
    <3>2. \/ file' = recs
          \/ \E k \in 0..Len(recs) : file' = SubSeq(recs, 1, k)
          \/ file' = file
      BY <1>3 DEF AgentExit
    <3> HIDE DEF recs
    <3> QED BY <1>0, <2>1, <3>1, <3>2, SubSeqIncreasing
  <2> DEFINE G == Elems(agent_list) \ Elems(file')
  <2>4. G \subseteq InLine /\ InLine' = InLine \ G /\ dropped' = dropped \cup G
    BY <1>0, <2>1, <2>2, <2>3 DEF InLine
  <2> HIDE DEF G
  <2> QED BY <1>0, <2>2, <2>4, StepGivesUp DEF Promise!Next
<1>4. CASE AgentDone
  <2>1. UNCHANGED <<file, sent, applied, dropped>>
    BY <1>4 DEF AgentDone, hist
  <2>2. CASE agent_list' = agent_list
    BY <2>1, <2>2 DEF Promise!dvars
  <2>3. CASE agent_list # <<>> /\ agent_list' = Tail(agent_list) /\ Head(agent_list) \in applied
    <3>1. file = <<>>
      BY <1>0, <2>3 DEF QueueInv, ListOrFile
    <3>2. Pending = agent_list /\ Pending' = Tail(agent_list)
      BY <1>0, <2>1, <2>3, <3>1 DEF Pending
    <3>3. Promise!Confirm
      BY <2>1, <2>3, <3>2 DEF Promise!Confirm, Pending
    <3> QED BY <3>3 DEF Promise!Next
  <2> QED BY <1>0, <1>4, <2>2, <2>3, DoneTakesApplied
<1>5. CASE Restart \/ Crash
  <2>1. /\ agent_list' = <<>> /\ UNCHANGED <<file, sent, applied>>
        /\ dropped' = dropped \cup Elems(agent_list)
    BY <1>5 DEF Restart, Crash, ProcessDies
  <2> DEFINE G == Elems(agent_list)
  <2>2. G \subseteq InLine /\ InLine' = InLine \ G
    BY <1>0, <2>1 DEF InLine, LineInv
  <2>3. dropped' = dropped \cup G
    BY <2>1
  <2> HIDE DEF G
  <2> QED BY <1>0, <2>1, <2>2, <2>3, StepGivesUp DEF Promise!Next
<1>6. CASE ServerStep
  <2>1. UNCHANGED <<sent, agent_list, file, dropped>>
    BY <1>6 DEF ServerStep, queue
  <2>2. CASE applied' = applied
    BY <2>1, <2>2 DEF Promise!dvars
  <2>3. CASE applied' # applied
    BY <1>0, <1>6, <2>3, ServerProcesses DEF Promise!Next
  <2> QED BY <2>2, <2>3
<1>7. CASE UNCHANGED queue /\ ~SendSlurmdbdMsg /\ ~AgentExit /\ ~Restart /\ ~Crash /\ ~ServerStep
  <2>1. UNCHANGED hist
    BY <1>7, HistActions DEF hist
  <2> QED BY <1>7, <2>1 DEF Promise!dvars, queue, hist
<1> QED BY <1>1, <1>2, <1>3, <1>4, <1>5, <1>6, <1>7, QueueActions

\* Under the same conditions the agent keeps slurm_send_slurmdbd_msg's promise:
\* queue, file, socket and retries behave as the one line of Delivery.
THEOREM KeepsPromiseAlways ==
  ASSUME Quiet
  PROVE  Spec => KeepsPromise
<1>1. Init => Promise!Init
  <2>1. Init => agent_list \o file = <<>>
    BY DEF Init
  <2> QED BY <2>1 DEF Init, Promise!Init
<1>2. TypeOK /\ IInv => LineInv
  BY PendingInOrder DEF IInv
<1>3. TypeOK /\ IInv /\ LineInv /\ LineInv' /\ [Next]_vars => [Promise!Next]_(Promise!dvars)
  BY PromiseStep
<1>4. TypeOK /\ IInv /\ [Next]_vars => IInv'
  BY InvStep
<1> QED BY <1>1, <1>2, <1>3, <1>4, InvInitially, TypeCorrect, PTL DEF Spec, KeepsPromise, Promise!Spec
=============================================================================
