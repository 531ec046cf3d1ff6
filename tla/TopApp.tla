------------------------------- MODULE TopApp -------------------------------
(***************************************************************************)
(* settopapp.c: the program, run as root, that moves the processes of a       *)
(* desktop into Android's top-app groups and back.  The desktop runs on while *)
(* it looks: between any two of its steps processes fork and exit.            *)
(*                                                                         *)
(* One program at a time, in the order in which native_consumer.c calls it    *)
(* (who may call it when is Sideband.tla's).  Pids are not used again.  The    *)
(* container and what runs it stay; KWin holds the other end of the channel.  *)
(***************************************************************************)
EXTENDS Integers, Sequences, FiniteSets, SequencesExt

CONSTANTS
  Proc,      \* processes, and those that there may be later
  Family,    \* [those there are at first -> their parents]
  Producer,  \* KWin
  Reapers,   \* those that inherit the orphans among their descendants
  Confs,     \* the settings, in one run or another: [mode, stops: those whose name is a
             \* stop name]
  MaxPids,   \* MAX_PIDS
  Host       \* what is above them all, and no process

ASSUME TopAppAssumption ==
  /\ DOMAIN Family \subseteq Proc /\ Producer \in DOMAIN Family /\ Reapers \subseteq Proc
  /\ Family \in [DOMAIN Family -> DOMAIN Family \cup {Host}]
  /\ Confs \subseteq [mode: {1, 2}, stops: SUBSET Proc] /\ MaxPids \in Nat
  /\ IsFiniteSet(Proc) /\ Host \notin Proc

VARIABLES
  parent,  \* [living process -> its parent]
  aside,   \* those that a thread other than its parent's first has forked
  groups,  \* [process -> of the cpu and cpuset controllers, those that have it in top-app]
  dead,    \* those that have exited
  conf,    \* topapp_run_mode, stop_names
  prog,    \* the program: see Run
  anchor   \* topapp_root_pid, or Host

topVars == <<parent, aside, groups, dead, conf, prog, anchor>>

Controllers == {"cpu", "cpuset"}
Living == DOMAIN parent

\* pc; the operation; the process looked at, then the root; pids still to look at, pids
\* seen; writes to do; one has succeeded.  For the property: those that the walk has
\* passed by or a write has failed for, and that the walk was cut short.
Run(op, pc, root) ==
  [op |-> op, pc |-> pc, root |-> root, stack |-> <<root>>, pids |-> <<>>, todo |-> <<>>,
   moved |-> FALSE, missed |-> {}, cut |-> FALSE]

TopInit ==
  /\ parent = Family /\ aside = {} /\ groups = [p \in Proc |-> {}]
  /\ dead = {} /\ conf \in Confs /\ anchor = Host
  /\ prog = Run("none", "idle", Host)

Children(p) == {c \in Living : parent[c] = p}

\* A process that lives and its descendants: what is in every set that it is in and that
\* has the children of its members.
HasChildren(S) == \A q \in Living : parent[q] \in S => q \in S
Below(p) ==
  {q \in Living : \A S \in SUBSET Living : {p} \cap Living \subseteq S /\ HasChildren(S) => q \in S}

Idle(pc) == prog.pc = pc /\ UNCHANGED <<parent, aside, dead, conf>>

-----------------------------------------------------------------------------
(* native_consumer.c.                                                      *)

\* peer_inode_of, holder_of_inode
Holders == {Producer} \cap Living

\* topapp_discover_root: a session has come up.  Nobody holds the channel any more: status 4.
Discover ==
  /\ Idle("idle") /\ anchor = Host /\ UNCHANGED <<groups, anchor>>
  /\ \E p \in Holders :
       prog' = Run(IF conf.mode = 2 THEN "promote" ELSE "noset", "climb", p)

\* topapp_set, of a pid that KWin has reported: the anchor's namespace and, for a tree, its
\* procfs must be there.
SetTop(p, on, tree) ==
  /\ Idle("idle") /\ conf.mode = 1 /\ anchor \in Living /\ p \in Living \cup dead
  /\ prog' = IF tree THEN Run(IF on THEN "on" ELSE "off", "collect", p)
             ELSE [Run(IF on THEN "on one" ELSE "off one", "collect", p) EXCEPT
                     !.stack = <<>>, !.pids = <<p>>]
  /\ UNCHANGED <<groups, anchor>>

\* topapp_restore_tree
RestoreTop ==
  /\ Idle("idle") /\ anchor # Host
  /\ prog' = Run("restore", "collect", anchor) /\ anchor' = Host /\ UNCHANGED groups

-----------------------------------------------------------------------------
(* settopapp.c.                                                            *)

\* find_tree_root; a process that is gone has no parent to be found.
AtRoot == prog.root \in conf.stops \/ prog.root \notin Living \/ parent[prog.root] = Host
Climb ==
  /\ Idle("climb") /\ UNCHANGED groups
  /\ IF ~AtRoot THEN prog' = [prog EXCEPT !.root = parent[@]] /\ UNCHANGED anchor
     ELSE IF prog.op = "noset" THEN prog' = [prog EXCEPT !.pc = "idle"] /\ anchor' = prog.root
     ELSE prog' = Run(prog.op, "collect", prog.root) /\ UNCHANGED anchor

\* Mutant: only the children of its first thread.
FirstThreadsChildren(p, apart) == {c \in Children(p) \ aside : ~apart}
\* The children files of its first thread, or of its others.
ChildrenFiles(p, apart) == {c \in Children(p) : apart <=> c \in aside}

\* `set` reads the container's procfs through the anchor.
Readable == prog.op \in {"promote", "restore"} \/ anchor \in Living

\* The children that p has now go onto the stack; a full one ends the walk.
Pushed(pc, pids, stack, p, apart) ==
  LET seen == IF Readable /\ p \in Living THEN ChildrenFiles(p, apart) \ Range(pids) ELSE {}
      more == stack \o SetToSeq(seen)
  IN
  IF Len(more) > MaxPids THEN [prog EXCEPT !.pc = "idle", !.cut = TRUE]
  ELSE [prog EXCEPT !.pc = pc, !.pids = pids, !.stack = more, !.cut = @ \/ ~Readable]

\* collect_tree: one process is taken off the stack and looked at: at its first thread,
Collect ==
  LET p == Last(prog.stack) IN
  /\ Idle("collect") /\ prog.stack # <<>> /\ UNCHANGED <<groups, anchor>>
  /\ prog' = IF p \in Range(prog.pids) THEN [prog EXCEPT !.stack = Front(@)]
             ELSE IF Len(prog.pids) + 1 >= MaxPids THEN [prog EXCEPT !.pc = "idle", !.cut = TRUE]
             ELSE Pushed("threads", Append(prog.pids, p), Front(prog.stack), p, FALSE)

\* and then at the others.
CollectThreads ==
  /\ Idle("threads") /\ UNCHANGED <<groups, anchor>>
  /\ prog' = Pushed("collect", prog.pids, prog.stack, Last(prog.pids), TRUE)

Writes(pids) ==
  [n \in 1 .. 2 * Len(pids) |-> <<pids[(n + 1) \div 2], IF n % 2 = 1 THEN "cpu" ELSE "cpuset">>]
Collected ==
  /\ Idle("collect") /\ prog.stack = <<>> /\ UNCHANGED <<groups, anchor>>
  /\ prog' = [prog EXCEPT !.pc = "write", !.todo = Writes(prog.pids)]

Boosts == prog.op \in {"promote", "on", "on one"}

\* move_tree and the worker of cmd_set: one pid is written to one file.
Write ==
  LET p == Head(prog.todo)[1]
      c == Head(prog.todo)[2]
  IN
  /\ Idle("write") /\ prog.todo # <<>> /\ UNCHANGED anchor
  /\ groups' = IF p \notin Living THEN groups
               ELSE [groups EXCEPT ![p] = IF Boosts THEN @ \cup {c} ELSE @ \ {c}]
  /\ prog' = [prog EXCEPT !.todo = Tail(@), !.moved = @ \/ p \in Living]

\* The kernel refuses (a realtime thread, say): the program goes on with the next.
WriteRefused ==
  /\ Idle("write") /\ prog.todo # <<>> /\ Head(prog.todo)[1] \in Living /\ UNCHANGED <<groups, anchor>>
  /\ prog' = [prog EXCEPT !.todo = Tail(@), !.missed = @ \cup {Head(prog.todo)[1]}]

\* It ends; the root of a tree that was moved is kept.
Written ==
  /\ Idle("write") /\ prog.todo = <<>> /\ UNCHANGED groups
  /\ prog' = [prog EXCEPT !.pc = "idle"]
  /\ anchor' = IF prog.op = "promote" /\ prog.moved THEN prog.root ELSE anchor

TopHelper == Climb \/ Collect \/ CollectThreads \/ Collected \/ Write \/ Written

-----------------------------------------------------------------------------
(* The desktop.                                                            *)

Pending(p) == \E c \in Controllers : <<p, c>> \in Range(prog.todo)
Seen == Range(prog.pids) \cup Range(prog.stack)

\* A process is forked into its parent's groups.
Fork(p, q, apart) ==
  /\ p \in Living /\ q \in Proc \ (Living \cup dead)
  /\ parent' = [x \in Living \cup {q} |-> IF x = q THEN p ELSE parent[x]]
  /\ aside' = IF apart THEN aside \cup {q} ELSE aside \ {q}
  /\ groups' = [groups EXCEPT ![q] = groups[p]]
  /\ prog' = IF \/ p \in prog.missed
                \/ prog.pc = "collect" /\ p \in Range(prog.pids)
                \/ prog.pc = "threads" /\ p \in Range(prog.pids) /\ ~(apart /\ p = Last(prog.pids))
                \/ prog.pc = "write" /\ Pending(p)
             THEN [prog EXCEPT !.missed = @ \cup {q}] ELSE prog
  /\ UNCHANGED <<dead, conf, anchor>>

\* A process exits; its children go to the first thread of the nearest reaper above it.
Nearest(p) ==
  LET above == {r \in Reapers : p \in Below(r)}
  IN {r \in above : \A s \in above : r \in Below(s)}

Exit(p) ==
  /\ p \in Living \ Reapers
  /\ \E r \in Nearest(p) : parent' = [q \in Living \ {p} |-> IF parent[q] = p THEN r ELSE parent[q]]
  /\ prog' = IF prog.pc \in {"collect", "threads"}
             THEN [prog EXCEPT !.missed = @ \cup UNION {Below(c) : c \in Children(p) \ Seen}]
             ELSE prog
  /\ dead' = dead \cup {p} /\ aside' = aside \ Children(p) /\ UNCHANGED <<groups, conf, anchor>>

-----------------------------------------------------------------------------
\* A program that has moved a tree has moved the processes of the tree, whatever forked
\* and exited meanwhile, except those that a process forked between the walk's look at it
\* and its own move, orphans whose parent exited before the walk came to it, and those
\* that the kernel refused to move, with what they fork then (settopapp.c, collect_tree and move_tree).
TreeMoved ==
  prog.pc = "idle" /\ prog.op \in {"promote", "restore", "on", "off"} /\ prog.moved /\ ~prog.cut =>
    \A p \in Below(prog.root) \ prog.missed : groups[p] = IF Boosts THEN Controllers ELSE {}
=============================================================================
