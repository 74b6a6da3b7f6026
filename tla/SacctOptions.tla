---------------------------- MODULE SacctOptions -----------------------------
(***************************************************************************)
(* The command line of sacct (parse_command_line, src/options.c).  An      *)
(* option is [o, long, arg]: its letter, whether it was written as a word  *)
(* (the letter is then the one its word stands for), and its argument as a *)
(* sequence of tokens: names, "," and the quote "'".                       *)
(***************************************************************************)
EXTENDS SacctFields, FiniteSets

CONSTANT Midnight,      \* today's first second
         Users, Groups, \* what getpwnam, getgrnam know: name -> id, as text
         Uid,           \* getuid(), as text
         HomeCluster,   \* slurm_get_cluster_name(), "" for none
         IsNumber,      \* the names that begin with a digit
         StepArg        \* what a name in the list of -j stands for: [jobid, stepid]

Opt(o, long, arg) == [o |-> o, long |-> long, arg |-> arg]

\* The string given to getopt_long, and long_options: there is no -D, -L, -T, -U
\* and no word for -t and -L.
ShortOptions == {"a", "A", "b", "c", "C", "d", "e", "E", "f", "g", "h", "j", "l", "n", "N", "o",
                 "O", "p", "P", "r", "s", "S", "t", "u", "v", "V", "W", "X"}
LongOptions == (ShortOptions \ {"t"}) \cup {"D", "T", "U"}
Understood(opt) == opt.o \in IF opt.long THEN LongOptions ELSE ShortOptions

-----------------------------------------------------------------------------
(* Lists of names.  The token behind a comma is taken without being looked *)
(* at, so that an empty name becomes part of the next one; a quote inside  *)
(* a name becomes another character.                                       *)

Quote == "'"

Cut(text) ==
  LET quoted == text # <<>> /\ text[1] = Quote
      Read(st, t) ==
        CASE st.done -> st
          [] ~st.done /\ st.fresh -> [st EXCEPT !.name = <<t>>, !.fresh = FALSE]
          [] ~st.done /\ ~st.fresh /\ t = Quote ->
               IF quoted THEN [st EXCEPT !.done = TRUE] ELSE [st EXCEPT !.name = Append(@, "backquote")]
          [] ~st.done /\ ~st.fresh /\ t = "," ->
               [st EXCEPT !.names = Append(@, st.name), !.name = <<>>, !.fresh = TRUE]
          [] OTHER -> [st EXCEPT !.name = Append(@, t)]
      end == FoldLeft(Read, [names |-> <<>>, name |-> <<>>, fresh |-> FALSE, done |-> FALSE],
                      IF quoted THEN Tail(text) ELSE text)
  IN Append(end.names, end.name)

\* The text of a name; one that is not a single token matches nothing.
NameOf(raw) == CASE raw = <<>> -> "" [] Len(raw) = 1 -> raw[1] [] OTHER -> "?"
NamesOf(raws) == [i \in 1..Len(raws) |-> NameOf(raws[i])]
Names(text) == NamesOf(Cut(text))
NonEmpty(names) == SelectSeq(names, LAMBDA n : n # "")

\* slurm_addto_char_list: an empty name is a name; a name that is there moves to
\* the end.
slurm_addto_char_list(list, text) ==
  FoldLeft(LAMBDA l, n : Append(SelectSeq(l, LAMBDA m : m # n), n), list, Names(text))

AppendNew(list, item) == IF \E i \in DOMAIN list : list[i] = item THEN list ELSE Append(list, item)

\* _convert_to_id: "" when nobody has the name, which ends the program.
_convert_to_id(ids, name) == IF name \in DOMAIN ids THEN ids[name] ELSE ""
IdOf(ids, name) == IF name \in IsNumber THEN name ELSE _convert_to_id(ids, name)

_addto_id_char_list(list, ids, text) ==
  FoldLeft(LAMBDA l, n : AppendNew(l, IdOf(ids, n)), list, NonEmpty(Names(text)))

Begins(name, with) == Len(with) <= Len(name) /\ SubSeq(name, 1, Len(with)) = with

\* decode_state_char: one letter is compared of all but two states; "" is -1.
decode_state_char(name) ==
  CASE Begins(name, "p") -> "PENDING"   [] Begins(name, "r") -> "RUNNING"
    [] Begins(name, "s") -> "SUSPENDED" [] Begins(name, "cd") -> "COMPLETED"
    [] Begins(name, "ca") -> "CANCELLED" [] Begins(name, "f") -> "FAILED"
    [] Begins(name, "t") -> "TIMEOUT"   [] Begins(name, "n") -> "NODE_FAIL"
    [] OTHER -> ""

_addto_state_char_list(list, text) ==
  FoldLeft(LAMBDA l, n : AppendNew(l, decode_state_char(n)), list, NonEmpty(Names(text)))

\* atoi of a name that begins with a comma is 0.  Without the end check of the
\* other lists a trailing comma is read past the end of the text: an empty name.
StepOf(name) ==
  IF name \in DOMAIN StepArg THEN StepArg[name] ELSE [jobid |-> 0, stepid |-> NO_VAL]

_addto_step_list(list, text) ==
  LET cut == Cut(text)
      trailing == text # <<>> /\ text[Len(text)] = "," /\ cut[Len(cut)] = <<>>
      names == NonEmpty(Names(text)) \o (IF trailing THEN <<"">> ELSE <<>>)
  IN FoldLeft(LAMBDA l, n : AppendNew(l, StepOf(n)), list, names)

\* strspn of case 'j': digits, dots, commas.
OnlyNumbers(text) == \A i \in DOMAIN text : text[i] \in IsNumber \cup {","}

-----------------------------------------------------------------------------
(* The options                                                             *)

\* _init_params and the local variables of parse_command_line.
_init_params ==
  [status |-> "run", help |-> 0, dump |-> FALSE, fdump |-> FALSE, completion |-> FALSE,
   dup |-> FALSE, allocs |-> FALSE, filein |-> "", header |-> TRUE, parsable |-> "no",
   all_users |-> FALSE, all_clusters |-> FALSE, brief |-> FALSE, long |-> FALSE,
   truncate |-> FALSE, start |-> 0, end |-> 0, nodes |-> <<>>, jobs_given |-> FALSE,
   acct_list |-> <<>>, cluster_list |-> <<>>, gid_list |-> <<>>, step_list |-> <<>>,
   partition_list |-> <<>>, state_list |-> <<>>, uid_list |-> <<>>, wckey_list |-> <<>>,
   text |-> <<>>, fields |-> <<>>, verbosity |-> 0]

Refuse(p) == [p EXCEPT !.status = "exit 1"]

\* An id or a state nobody knows ends the program.
Known(list) == \A i \in DOMAIN list : list[i] # ""

WithGids(p, gids) == IF Known(gids) THEN [p EXCEPT !.gid_list = gids] ELSE Refuse(p)
WithStates(p, states) == IF Known(states) THEN [p EXCEPT !.state_list = states] ELSE Refuse(p)
WithUids(p, uids) ==
  IF Known(uids) THEN [p EXCEPT !.uid_list = uids, !.all_users = FALSE] ELSE Refuse(p)

ListOption(p, opt) ==
  CASE opt.o = "A" -> [p EXCEPT !.acct_list = slurm_addto_char_list(@, opt.arg)]
    [] opt.o = "C" -> IF opt.arg = <<"-1">> THEN [p EXCEPT !.all_clusters = TRUE]
                      ELSE [p EXCEPT !.all_clusters = FALSE,
                                     !.cluster_list = slurm_addto_char_list(@, opt.arg)]
    [] opt.o = "g" -> WithGids(p, _addto_id_char_list(p.gid_list, Groups, opt.arg))
    [] opt.o = "j" -> IF ~OnlyNumbers(opt.arg) THEN Refuse(p)
                      ELSE [p EXCEPT !.step_list = _addto_step_list(@, opt.arg),
                                     !.jobs_given = TRUE]
    [] opt.o = "r" -> [p EXCEPT !.partition_list = slurm_addto_char_list(@, opt.arg)]
    [] opt.o = "s" -> WithStates(p, _addto_state_char_list(p.state_list, opt.arg))
    [] opt.o = "u" -> IF opt.arg = <<"-1">> THEN [p EXCEPT !.all_users = TRUE]
                      ELSE WithUids(p, _addto_id_char_list(p.uid_list, Users, opt.arg))
    [] opt.o = "W" -> [p EXCEPT !.wckey_list = slurm_addto_char_list(@, opt.arg)]

ValueOption(p, opt) ==
  CASE opt.o = "E" -> [p EXCEPT !.end = opt.arg[1]]
    [] opt.o = "S" -> [p EXCEPT !.start = opt.arg[1]]
    [] opt.o = "f" -> [p EXCEPT !.filein = opt.arg[1]]
    [] opt.o = "o" -> [p EXCEPT !.text = @ \o opt.arg \o <<",">>]
    [] opt.o = "N" -> IF p.nodes # <<>> THEN p ELSE [p EXCEPT !.nodes = opt.arg]

FlagOption(p, o) ==
  CASE o = "a" -> [p EXCEPT !.all_users = TRUE]    [] o = "b" -> [p EXCEPT !.brief = TRUE]
    [] o = "c" -> [p EXCEPT !.completion = TRUE]   [] o = "d" -> [p EXCEPT !.dump = TRUE]
    [] o = "D" -> [p EXCEPT !.dup = TRUE]          [] o = "e" -> [p EXCEPT !.help = 2]
    [] o = "h" -> [p EXCEPT !.help = 1]            [] o = "l" -> [p EXCEPT !.long = TRUE]
    [] o = "n" -> [p EXCEPT !.header = FALSE]      [] o = "O" -> [p EXCEPT !.fdump = TRUE]
    [] o = "p" -> [p EXCEPT !.parsable = "ending"] [] o = "P" -> [p EXCEPT !.parsable = "no ending"]
    [] o \in {"t", "X"} -> [p EXCEPT !.allocs = TRUE]
    [] o = "T" -> [p EXCEPT !.truncate = TRUE]     [] o = "U" -> [p EXCEPT !.help = 3]
    [] o = "v" -> [p EXCEPT !.verbosity = @ + 1]   [] o = "V" -> [p EXCEPT !.status = "exit 0"]

Option(p, opt) ==
  CASE p.status # "run" -> p
    [] p.status = "run" /\ ~Understood(opt) -> Refuse(p)
    [] p.status = "run" /\ Understood(opt) /\ opt.o \in {"A", "C", "g", "j", "r", "s", "u", "W"} ->
         ListOption(p, opt)
    [] p.status = "run" /\ Understood(opt) /\ opt.o \in {"E", "S", "f", "o", "N"} ->
         ValueOption(p, opt)
    [] OTHER -> FlagOption(p, opt.o)

-----------------------------------------------------------------------------
(* What follows the options                                                *)

DefaultTimes(new, p) ==
  [p EXCEPT !.dup = @ \/ p.fdump,
            !.start = CASE @ # 0 -> @
                        [] @ = 0 /\ new /\ p.jobs_given -> 0
                        [] @ = 0 /\ new /\ ~p.jobs_given /\ p.state_list # <<>> -> Now
                        [] OTHER -> Midnight]

\* Storage that is switched off is refused unless -f names a file.
Storage(conf, p) ==
  IF /\ IF p.completion THEN conf.jobcomp = "none" ELSE conf.storage = "none"
     /\ p.filein \notin conf.files
  THEN Refuse(p) ELSE p

DefaultClusters(p) ==
  [p EXCEPT !.cluster_list =
     CASE p.all_clusters -> <<>>
       [] ~p.all_clusters /\ @ = <<>> /\ HomeCluster # "" -> <<HomeCluster>>
       [] OTHER -> @]

\* Mutant: a job or a node that is asked for is looked for among one's own jobs.
DefaultUsers_Own(p) ==
  [p EXCEPT !.uid_list =
     CASE p.all_users -> <<>> [] ~p.all_users /\ @ = <<>> -> <<Uid>> [] OTHER -> @]

\* A job or a node that is asked for is looked for among the jobs of all users.
DefaultUsers(p) ==
  LET all == p.all_users \/ (p.uid_list = <<>> /\ (p.step_list # <<>> \/ p.nodes # <<>>))
  IN [p EXCEPT !.uid_list = CASE all -> <<>> [] ~all /\ @ = <<>> -> <<Uid>> [] OTHER -> @]

Separated(names) == FoldLeft(LAMBDA text, n : text \o <<n, ",">>, <<>>, names)

FieldText(new, p) ==
  LET brief == IF ~p.brief THEN <<>>
               ELSE Separated(IF p.completion THEN BRIEF_COMP_FIELDS ELSE BRIEF_FIELDS)
      long == IF ~p.long THEN <<>>
              ELSE Separated(IF p.completion THEN LONG_COMP_FIELDS ELSE LONG_FIELDS(new))
      text == p.text \o brief \o long
  IN IF text # <<>> \/ p.dump THEN text
     ELSE Separated(IF p.completion THEN DEFAULT_COMP_FIELDS ELSE DEFAULT_FIELDS)

\* The names up to the first empty one, at which the loop over them stops.
FieldNames(text) ==
  LET Read(st, t) ==
        CASE st.done -> st
          [] ~st.done /\ t = "," /\ st.name = <<>> -> [st EXCEPT !.done = TRUE]
          [] ~st.done /\ t = "," /\ st.name # <<>> ->
               [st EXCEPT !.names = Append(@, st.name), !.name = <<>>]
          [] OTHER -> [st EXCEPT !.name = Append(@, t)]
      Command(raw) == IF raw[1] = "%" THEN "" ELSE raw[1]
      Commands(raws) == [i \in 1..Len(raws) |-> Command(raws[i])]
  IN Commands(FoldLeft(Read, [names |-> <<>>, name |-> <<>>, done |-> FALSE], text).names)

\* Mutant: the last field a name is the beginning of.
FieldFor_Last(new, name) == SelectLastInSeq(Fields(new), LAMBDA f : Begins(f.name, name))

\* The first field whose name begins with the given one, 0 for none; a width
\* alone is the beginning of every name.
FieldFor(new, name) == SelectInSeq(Fields(new), LAMBDA f : Begins(f.name, name))

WithFields(p, table, at) ==
  IF \E i \in DOMAIN at : at[i] = 0 THEN Refuse(p)
  ELSE [p EXCEPT !.fields = [i \in 1..Len(at) |-> table[at[i]]]]
FieldsFor(new, names) == [i \in 1..Len(names) |-> FieldFor(new, names[i])]
SelectFields(new, p) ==
  WithFields(p, Fields(new), FieldsFor(new, FieldNames(FieldText(new, p))))

\* parse_command_line; rest: arguments that are no options.
Selected(new, p, rest) ==
  IF p.status # "run" THEN p
  ELSE IF rest THEN Refuse(SelectFields(new, DefaultUsers(DefaultClusters(p))))
  ELSE SelectFields(new, DefaultUsers(DefaultClusters(p)))
Stored(new, conf, p) == IF p.status # "run" THEN p ELSE Storage(conf, DefaultTimes(new, p))
parse_command_line(new, conf, options, rest) ==
  Selected(new, Stored(new, conf, FoldLeft(Option, _init_params, options)), rest)

\* main: what is done; help comes before everything, -d before -O.
Operation(p) ==
  CASE p.status # "run" -> p.status
    [] p.status = "run" /\ p.help # 0 -> "help"
    [] p.status = "run" /\ p.help = 0 /\ p.dump -> "dump"
    [] p.status = "run" /\ p.help = 0 /\ ~p.dump /\ p.fdump -> "fdump"
    [] OTHER -> "list"
=============================================================================
