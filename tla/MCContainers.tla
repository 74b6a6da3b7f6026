---------------------------- MODULE MCContainers ----------------------------
(***************************************************************************)
(* The containers of common/ for TLC: lists, circular buffers, host lists   *)
(* and bit strings.  They do not call each other; a behaviour uses one of    *)
(* them, and the others stay as they were created.                           *)
(***************************************************************************)
EXTENDS Lists, Cbuf, Hostlist, Bitstring

VARIABLE scene
vars == <<scene, lvars, cvars, hvars, bvars>>

MCKey == [p \in Nodes |-> CASE p = "p1" -> 2 [] p = "p2" -> 1 [] p = "p3" -> 3]

\* dst grows from one byte to three; src is full, and has wrapped.
MCMinSize == [b \in Buffers |-> IF b = "dst" THEN 1 ELSE 4]
MCMaxSize == [b \in Buffers |-> IF b = "dst" THEN 3 ELSE 4]
MCPreset  == {[b \in Buffers |-> IF b = "dst" THEN <<>> ELSE <<"x", NL, "x", NL>>]}

\* n[8-9], n[9-11], n[10,08-09], the reversed n[11-10], and login,n[9]m[9].
Bracket(ranges) == [host |-> FALSE, prefixes |-> <<2>>, ranges |-> ranges]
Between(lo, hi, width) == [lo |-> lo, hi |-> hi, width |-> width]
MCInputs ==
    {<<Bracket(<<Between(8, 9, 1)>>)>>,
     <<Bracket(<<Between(9, 11, 1)>>)>>,
     <<Bracket(<<Between(10, 10, 2), Between(8, 9, 2)>>)>>,
     <<Bracket(<<Between(11, 10, 2)>>)>>,
     <<[host |-> TRUE, prefixes |-> <<1>>, ranges |-> <<>>],
       [host |-> FALSE, prefixes |-> <<2, 3>>, ranges |-> <<Between(9, 9, 1)>>]>>}

MCOthers == {{}, {0, 1}, {2, 4, 5}}

Init ==
    /\ list_create
    /\ CbufInit
    /\ \/ scene \in {"list", "cbuf"} /\ hl = hostlist_new /\ set = FALSE /\ torn = FALSE /\ bs = NoBits
       \/ scene = "hostlist" /\ HostlistInit /\ bs = NoBits
       \/ scene = "bits" /\ BitstringInit /\ hl = hostlist_new /\ set = FALSE /\ torn = FALSE

Next ==
    \/ scene = "list" /\ ListStep /\ UNCHANGED <<scene, cvars, hvars, bvars>>
    \/ scene = "cbuf" /\ CbufStep /\ UNCHANGED <<scene, lvars, hvars, bvars>>
    \/ scene = "hostlist" /\ HostlistStep /\ UNCHANGED <<scene, lvars, cvars, bvars>>
    \/ scene = "bits" /\ BitstringStep /\ UNCHANGED <<scene, lvars, cvars, hvars>>

Spec == Init /\ [][Next]_vars

\* The searches of the circular buffer by lines, and those of bit strings by words
\* and bytes, give what a search by single bytes or bits would.
SearchesAgree == CallsAgree /\ BitsAgree
=============================================================================
