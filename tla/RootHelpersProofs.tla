-------------------------- MODULE RootHelpersProofs --------------------------
(***************************************************************************)
(* Theorems about RootHelpers.tla: for any processes, settings, windows,      *)
(* controls, fingers and nodes, and any plan.                                *)
(***************************************************************************)
EXTENDS RootHelpers, FiniteSetTheorems, TLAPS

-----------------------------------------------------------------------------
(* settopapp.c: what is below a process.                                    *)

Known   == Living \cup dead
TreeOps == {"promote", "restore", "on", "off"}
Ops     == TreeOps \cup {"none", "noset", "on one", "off one"}

TopTypeOK ==
  /\ parent \in [Living -> Living \cup {Host}] /\ Living \subseteq Proc
  /\ dead \subseteq Proc \ Living /\ groups \in [Proc -> SUBSET Controllers]
  /\ anchor \in Known \cup {Host}
  /\ prog \in [op : Ops, pc : {"idle", "climb", "collect", "threads", "write"}, root : Known \cup {Host},
               stack : Seq(Known \cup {Host}), pids : Seq(Proc), todo : Seq(Proc \X Controllers),
               moved : BOOLEAN, missed : SUBSET Proc, cut : BOOLEAN]
  /\ prog.op = "none" => prog.pc = "idle"
  /\ prog.op # "none" => prog.root \in Known /\ prog.stack \in Seq(Known)
  /\ prog.pc = "threads" => prog.pids # <<>>

LEMMA BelowFacts ==
  ASSUME NEW p
  PROVE  /\ Below(p) \subseteq Living /\ (p \in Living => p \in Below(p)) /\ HasChildren(Below(p))
         /\ \A S \in SUBSET Living : {p} \cap Living \subseteq S /\ HasChildren(S) => Below(p) \subseteq S
<1>1. HasChildren(Below(p))
  BY DEF HasChildren, Below
<1>2. QED
  BY <1>1 DEF Below

LEMMA BelowIn ==
  ASSUME NEW p, NEW q \in Below(p)
  PROVE  Below(q) \subseteq Below(p)
BY BelowFacts

LEMMA AboveLives ==
  ASSUME NEW p, NEW q \in Below(p), Host \notin Living, parent \in [Living -> Living \cup {Host}]
  PROVE  p \in Living
<1>1. SUFFICES ASSUME p \notin Living PROVE FALSE
  OBVIOUS
<1>2. HasChildren({})
  BY DEF HasChildren
<1>3. Below(p) \subseteq {}
  BY <1>1, <1>2, BelowFacts
<1>4. QED
  BY <1>3

-----------------------------------------------------------------------------
(* Sequences of pids.                                                      *)

LEMMA RangeParts ==
  ASSUME NEW S, NEW s \in Seq(S)
  PROVE  /\ Range(s) \subseteq S
         /\ \A x \in S : Append(s, x) \in Seq(S) /\ Range(Append(s, x)) = Range(s) \cup {x}
         /\ s # <<>> => /\ Last(s) \in S /\ Front(s) \in Seq(S)
                        /\ Range(s) = Range(Front(s)) \cup {Last(s)}
                        /\ Head(s) \in S /\ Tail(s) \in Seq(S)
                        /\ Range(s) = {Head(s)} \cup Range(Tail(s))
<1>1. Range(s) \subseteq S
  BY DEF Range
<1>2. ASSUME NEW x \in S
      PROVE  Append(s, x) \in Seq(S) /\ Range(Append(s, x)) = Range(s) \cup {x}
  <2> DEFINE t == Append(s, x)
  <2>1. /\ t \in Seq(S) /\ Len(s) \in Nat /\ DOMAIN s = 1..Len(s) /\ DOMAIN t = 1..Len(s) + 1
        /\ t[Len(s) + 1] = x /\ \A n \in 1..Len(s) : t[n] = s[n]
    OBVIOUS
  <2> HIDE DEF t
  <2>2. PICK l \in Nat : l = Len(s)
    BY <2>1
  <2>3. \A n \in 1..l : n \in 1..l + 1
    OBVIOUS
  <2>4. l + 1 \in 1..l + 1 /\ \A n \in 1..l + 1 : n \in 1..l \/ n = l + 1
    OBVIOUS
  <2>5. \A y \in Range(s) : y \in Range(t)
    BY <2>1, <2>2, <2>3 DEF Range
  <2>6. x \in Range(t)
    BY <2>1, <2>2, <2>4 DEF Range
  <2>7. \A y \in Range(t) : y \in Range(s) \cup {x}
    BY <2>1, <2>2, <2>4 DEF Range
  <2>8. QED
    BY <2>1, <2>5, <2>6, <2>7 DEF t
<1>3. ASSUME s # <<>>
      PROVE  Last(s) \in S /\ Front(s) \in Seq(S) /\ Range(s) = Range(Front(s)) \cup {Last(s)}
  <2>1. Len(s) \in Nat /\ Len(s) > 0 /\ DOMAIN s = 1..Len(s)
    BY <1>3
  <2>2. Front(s) \in Seq(S) /\ Len(Front(s)) = Len(s) - 1 /\ \A n \in 1..Len(s) - 1 : Front(s)[n] = s[n]
    BY <2>1 DEF Front
  <2>3. DOMAIN Front(s) = 1..Len(s) - 1
    BY <2>2
  <2>4. Last(s) = s[Len(s)] /\ Last(s) \in S
    BY <2>1 DEF Last
  <2>5. \A n \in 1..Len(s) : n \in 1..Len(s) - 1 \/ n = Len(s)
    <3>1. \A l \in Nat : \A n \in 1..l : n \in 1..l - 1 \/ n = l
      OBVIOUS
    <3>2. QED
      BY <2>1, <3>1
  <2>6. \A x \in Range(s) : x \in Range(Front(s)) \cup {Last(s)}
    BY <2>1, <2>2, <2>3, <2>4, <2>5 DEF Range
  <2>7. \A x \in Range(Front(s)) \cup {Last(s)} : x \in Range(s)
    BY <2>1, <2>2, <2>3, <2>4 DEF Range
  <2>8. QED
    BY <2>2, <2>4, <2>6, <2>7
<1>4. ASSUME s # <<>>
      PROVE  Head(s) \in S /\ Tail(s) \in Seq(S) /\ Range(s) = {Head(s)} \cup Range(Tail(s))
  <2>1. /\ Len(s) \in Nat /\ Len(s) > 0 /\ DOMAIN s = 1..Len(s) /\ Head(s) = s[1]
        /\ Tail(s) \in Seq(S) /\ Len(Tail(s)) = Len(s) - 1 /\ DOMAIN Tail(s) = 1..Len(s) - 1
        /\ \A n \in 1..Len(s) - 1 : Tail(s)[n] = s[n + 1]
    BY <1>4
  <2>2. ASSUME NEW x \in Range(s)
        PROVE  x \in {Head(s)} \cup Range(Tail(s))
    <3>1. PICK n \in 1..Len(s) : x = s[n]
      BY <2>1 DEF Range
    <3>2. CASE n = 1
      BY <2>1, <3>1, <3>2
    <3>3. CASE n # 1
      <4>1. n - 1 \in 1..Len(s) - 1 /\ Tail(s)[n - 1] = s[n]
        BY <2>1, <3>3
      <4>2. QED
        BY <2>1, <3>1, <4>1 DEF Range
    <3>4. QED
      BY <3>2, <3>3
  <2>3. ASSUME NEW x \in Range(Tail(s))
        PROVE  x \in Range(s)
    <3>1. PICK n \in 1..Len(s) - 1 : x = Tail(s)[n]
      BY <2>1, <2>3 DEF Range
    <3>2. n + 1 \in 1..Len(s) /\ x = s[n + 1]
      BY <2>1, <3>1
    <3>3. QED
      BY <2>1, <3>2 DEF Range
  <2>4. Head(s) \in Range(s) /\ Head(s) \in S
    BY <2>1 DEF Range
  <2>5. QED
    BY <2>1, <2>2, <2>3, <2>4
<1>5. QED
  BY <1>1, <1>2, <1>3, <1>4

LEMMA RangeJoined ==
  ASSUME NEW S, NEW s \in Seq(S), NEW t \in Seq(S)
  PROVE  s \o t \in Seq(S) /\ Range(s \o t) = Range(s) \cup Range(t)
<1> DEFINE u == s \o t
<1>1. /\ u \in Seq(S) /\ Len(s) \in Nat /\ Len(t) \in Nat /\ Len(u) = Len(s) + Len(t)
      /\ DOMAIN s = 1..Len(s) /\ DOMAIN t = 1..Len(t) /\ DOMAIN u = 1..Len(s) + Len(t)
      /\ \A n \in 1..Len(s) : u[n] = s[n] /\ n \in 1..Len(s) + Len(t)
      /\ \A n \in 1..Len(t) : u[Len(s) + n] = t[n] /\ Len(s) + n \in 1..Len(s) + Len(t)
  OBVIOUS
<1>2. \A n \in 1..Len(s) + Len(t) : n \in 1..Len(s) \/ (n - Len(s) \in 1..Len(t) /\ u[n] = t[n - Len(s)])
  BY <1>1
<1> HIDE DEF u
<1>3. \A x \in Range(s) : x \in Range(u)
  BY <1>1 DEF Range
<1>4. \A x \in Range(t) : x \in Range(u)
  BY <1>1 DEF Range
<1>5. \A x \in Range(u) : x \in Range(s) \cup Range(t)
  BY <1>1, <1>2 DEF Range
<1>6. QED
  BY <1>1, <1>3, <1>4, <1>5 DEF u

\* A finite set has a list without repetitions, and it is a list of the whole set.
LEMMA AllListed ==
  ASSUME NEW S, IsFiniteSet(S)
  PROVE  SetToSeq(S) \in Seq(S) /\ Range(SetToSeq(S)) = S
<1> DEFINE n == Cardinality(S)
           f == SetToSeq(S)
<1>1. n \in Nat /\ Bijection(1..n, S) # {}
  BY FS_CardinalityType DEF ExistsBijection
<1>2. \E g \in [1..n -> S] : IsInjective(g)
  BY <1>1 DEF Bijection, Injection
<1>3. f \in [1..n -> S] /\ IsInjective(f)
  BY <1>2 DEF SetToSeq
<1> HIDE DEF f
<1>4. f \in Injection(1..n, S)
  BY <1>3 DEF Injection
<1>5. Cardinality(1..n) = n
  BY <1>1, FS_Interval
<1>6. f \in Surjection(1..n, S)
  BY <1>4, <1>5, FS_Injection
<1>7. Range(f) = S
  BY <1>3, <1>6 DEF Surjection, Range
<1>8. f \in Seq(S)
  BY <1>1, <1>3
<1>9. QED
  BY <1>7, <1>8 DEF f

\* Each pid, to both files.
LEMMA WritesFacts ==
  ASSUME NEW s \in Seq(Proc)
  PROVE  /\ Writes(s) \in Seq(Proc \X Controllers)
         /\ \A p \in Range(s), c \in Controllers : <<p, c>> \in Range(Writes(s))
<1> DEFINE w == Writes(s)
<1>1. Len(s) \in Nat /\ DOMAIN s = 1..Len(s)
  OBVIOUS
<1>2. w = [n \in 1..2 * Len(s) |-> <<s[(n + 1) \div 2], IF n % 2 = 1 THEN "cpu" ELSE "cpuset">>]
  BY DEF Writes
<1> HIDE DEF w
<1>3. \A n \in 1..2 * Len(s) : (n + 1) \div 2 \in 1..Len(s)
  BY <1>1
<1>4. \A n \in 1..2 * Len(s) : w[n] \in Proc \X Controllers
  BY <1>1, <1>2, <1>3 DEF Controllers
<1>5. w \in Seq(Proc \X Controllers)
  BY <1>1, <1>2, <1>4
<1>6. ASSUME NEW p \in Range(s), NEW c \in Controllers
      PROVE  <<p, c>> \in Range(w)
  <2>1. PICK n \in 1..Len(s) : p = s[n]
    BY <1>1 DEF Range
  <2>2. /\ 2 * n - 1 \in 1..2 * Len(s) /\ ((2 * n - 1) + 1) \div 2 = n /\ (2 * n - 1) % 2 = 1
        /\ 2 * n \in 1..2 * Len(s) /\ (2 * n + 1) \div 2 = n /\ (2 * n) % 2 # 1
    BY <1>1
  <2>3. w[2 * n - 1] = <<p, "cpu">> /\ w[2 * n] = <<p, "cpuset">>
    BY <1>2, <2>1, <2>2
  <2>4. DOMAIN w = 1..2 * Len(s)
    BY <1>2
  <2>5. QED
    BY <2>2, <2>3, <2>4 DEF Range, Controllers
<1>7. QED
  BY <1>5, <1>6 DEF w

-----------------------------------------------------------------------------
(* settopapp.c: the walk and the writes.                                    *)

Visited  == Range(prog.pids) \cup prog.missed
Tree     == prog.op \in TreeOps /\ ~prog.cut
Right(q) == \A c \in Controllers : <<q, c>> \in Range(prog.todo) \/ (c \in groups[q] <=> Boosts)

\* The other threads of the process looked at are still to be read.
Unread(c) == prog.pc = "threads" /\ parent[c] = Last(prog.pids) /\ c \in aside

\* The children of those visited are visited, on the stack or unread; when it is empty, all
\* below the root are visited.  Of those, the ones that the walk did not pass by are where
\* they belong or still to be written.
TopInv ==
  /\ prog.pc \in {"collect", "threads"} /\ Tree =>
       /\ prog.root \in Range(prog.pids) \cup Range(prog.stack)
       /\ \A c \in Living : parent[c] \in Visited => c \in Visited \cup Range(prog.stack) \/ Unread(c)
  /\ prog.pc \in {"write", "idle"} /\ Tree => \A q \in Below(prog.root) : q \in prog.missed \/ Right(q)
  /\ prog.pc = "idle" /\ Tree => prog.todo = <<>>

TopAll == TopTypeOK /\ TopInv

LEMMA HostNoProcess ==
  ASSUME TopTypeOK
  PROVE  /\ Host \notin Living /\ Host \notin dead /\ Known \subseteq Proc /\ Living \cap dead = {}
         /\ \A q \in Living : parent[q] \in Living \cup {Host}
BY TopAppAssumption DEF TopTypeOK, Known

\* The program alone moves.
LEMMA SameProcesses ==
  ASSUME parent' = parent, dead' = dead
  PROVE  Living' = Living /\ Known' = Known /\ \A p : Below(p)' = Below(p)
BY DEF Living, Known, Below, HasChildren

Programs == [op : Ops, pc : {"idle", "climb", "collect", "threads", "write"}, root : Known \cup {Host},
             stack : Seq(Known \cup {Host}), pids : Seq(Proc), todo : Seq(Proc \X Controllers),
             moved : BOOLEAN, missed : SUBSET Proc, cut : BOOLEAN]

\* A program begins.
LEMMA RunFacts ==
  ASSUME TopTypeOK, NEW op \in Ops \ {"none"}, NEW pc \in {"climb", "collect"}, NEW p \in Known,
         prog' = Run(op, pc, p), UNCHANGED <<parent, dead, groups>>, anchor' \in Known \cup {Host}
  PROVE  TopAll'
<1>1. Living' = Living /\ Known' = Known
  BY SameProcesses
<1>2. /\ prog'.op = op /\ prog'.pc = pc /\ prog'.root = p /\ prog'.stack = <<p>> /\ prog'.pids = <<>>
      /\ prog'.todo = <<>> /\ prog'.moved = FALSE /\ prog'.missed = {} /\ prog'.cut = FALSE
      /\ prog' = [op |-> op, pc |-> pc, root |-> p, stack |-> <<p>>, pids |-> <<>>, todo |-> <<>>,
                  moved |-> FALSE, missed |-> {}, cut |-> FALSE]
  BY DEF Run
<1>3. <<p>> \in Seq(Known \cup {Host}) /\ <<p>> \in Seq(Known) /\ <<>> \in Seq(Proc) /\ <<>> \in Seq(Proc \X Controllers)
  OBVIOUS
<1>4. prog' \in Programs
  BY <1>2, <1>3 DEF Programs
<1>5. TopTypeOK'
  BY <1>1, <1>2, <1>3, <1>4 DEF TopTypeOK, Programs
<1>6. Range(<<p>>) = {p} /\ Range(<<>>) = {}
  BY DEF Range
<1>7. TopInv'
  BY <1>1, <1>2, <1>6 DEF TopInv, Visited, Tree, Unread
<1>8. QED
  BY <1>5, <1>7 DEF TopAll

LEMMA DiscoverKeeps == ASSUME TopAll, Discover PROVE TopAll'
<1>1. PICK p \in Holders : prog' = Run(IF conf.mode = 2 THEN "promote" ELSE "noset", "climb", p)
  BY DEF Discover
<1>2. UNCHANGED <<parent, dead, groups>> /\ anchor' = anchor
  BY DEF Discover, Idle
<1>3. p \in Known /\ anchor \in Known \cup {Host} /\ TopTypeOK
  BY <1>1 DEF Holders, Known, TopAll, TopTypeOK
<1> DEFINE op == IF conf.mode = 2 THEN "promote" ELSE "noset"
<1>4. op \in Ops \ {"none"} /\ prog' = Run(op, "climb", p)
  BY <1>1 DEF Ops, TreeOps
<1> HIDE DEF op
<1>5. QED
  BY <1>2, <1>3, <1>4, RunFacts

LEMMA RestoreKeeps == ASSUME TopAll, RestoreTop PROVE TopAll'
<1>1. /\ prog' = Run("restore", "collect", anchor) /\ anchor' = Host /\ anchor # Host
      /\ UNCHANGED <<parent, dead, groups>>
  BY DEF RestoreTop, Idle
<1>2. anchor \in Known /\ TopTypeOK /\ "restore" \in Ops \ {"none"}
  BY <1>1 DEF TopAll, TopTypeOK, Ops, TreeOps
<1>3. anchor' \in Known \cup {Host}
  BY <1>1
<1>4. QED
  BY <1>1, <1>2, <1>3, RunFacts

LEMMA SetTopKeeps ==
  ASSUME TopAll, NEW p, NEW on \in BOOLEAN, NEW tree \in BOOLEAN, SetTop(p, on, tree)
  PROVE  TopAll'
<1>1. /\ p \in Known /\ anchor' = anchor /\ UNCHANGED <<parent, dead, groups>> /\ TopTypeOK
      /\ anchor \in Known \cup {Host}
  BY DEF SetTop, Idle, Known, TopAll, TopTypeOK
<1>2. CASE tree
  <2> DEFINE op == IF on THEN "on" ELSE "off"
  <2>1. prog' = Run(op, "collect", p) /\ op \in Ops \ {"none"}
    BY <1>2 DEF SetTop, Ops, TreeOps
  <2> HIDE DEF op
  <2>2. QED
    BY <1>1, <2>1, RunFacts
<1>3. CASE ~tree
  <2> DEFINE op == IF on THEN "on one" ELSE "off one"
  <2>1. prog' = [Run(op, "collect", p) EXCEPT !.stack = <<>>, !.pids = <<p>>]
    BY <1>3 DEF SetTop
  <2>2. op \in Ops /\ op # "none" /\ op \notin TreeOps
    BY DEF Ops, TreeOps
  <2> HIDE DEF op
  <2>3. /\ prog' = [op |-> op, pc |-> "collect", root |-> p, stack |-> <<>>, pids |-> <<p>>, todo |-> <<>>,
                    moved |-> FALSE, missed |-> {}, cut |-> FALSE]
    BY <2>1 DEF Run
  <2>4. Living' = Living /\ Known' = Known /\ Known \subseteq Proc
    BY <1>1, SameProcesses, HostNoProcess
  <2>5. <<>> \in Seq(Known \cup {Host}) /\ <<>> \in Seq(Known) /\ <<p>> \in Seq(Proc) /\ <<>> \in Seq(Proc \X Controllers)
    BY <1>1, <2>4
  <2>6. prog' \in Programs
    BY <1>1, <2>2, <2>3, <2>5 DEF Programs
  <2>7. TopTypeOK'
    BY <1>1, <2>2, <2>3, <2>4, <2>5, <2>6 DEF TopTypeOK, Programs
  <2>8. TopInv'
    BY <2>2, <2>3 DEF TopInv, Tree
  <2>9. QED
    BY <2>7, <2>8 DEF TopAll
<1>4. QED
  BY <1>2, <1>3

LEMMA ClimbKeeps == ASSUME TopAll, Climb PROVE TopAll'
<1>1. /\ prog.pc = "climb" /\ UNCHANGED <<parent, dead, groups>> /\ TopTypeOK /\ Living' = Living /\ Known' = Known
      /\ prog \in Programs /\ prog.op \in Ops /\ prog.op # "none" /\ prog.root \in Known
      /\ prog.stack \in Seq(Known)
  BY SameProcesses DEF Climb, Idle, TopAll, TopTypeOK, Programs
<1>2. CASE ~AtRoot
  <2>1. prog' = [prog EXCEPT !.root = parent[prog.root]] /\ anchor' = anchor
    BY <1>2 DEF Climb
  <2>2. parent[prog.root] \in Known
    BY <1>1, <1>2, HostNoProcess DEF AtRoot, Known
  <2>3. prog' \in Programs /\ prog'.op = prog.op /\ prog'.pc = "climb" /\ prog'.root \in Known /\ prog'.stack = prog.stack
    BY <1>1, <2>1, <2>2 DEF Programs
  <2>4. TopTypeOK'
    BY <1>1, <2>1, <2>3 DEF TopTypeOK, Programs
  <2>5. TopInv'
    BY <2>3 DEF TopInv
  <2>6. QED
    BY <2>4, <2>5 DEF TopAll
<1>3. CASE AtRoot /\ prog.op = "noset"
  <2>1. prog' = [prog EXCEPT !.pc = "idle"] /\ anchor' = prog.root
    BY <1>3 DEF Climb
  <2>2. prog' \in Programs /\ prog'.op = "noset" /\ prog'.root = prog.root /\ prog'.stack = prog.stack
    BY <1>1, <1>3, <2>1 DEF Programs
  <2>3. TopTypeOK'
    BY <1>1, <2>1, <2>2 DEF TopTypeOK, Programs
  <2>4. TopInv'
    BY <2>2 DEF TopInv, Tree, TreeOps
  <2>5. QED
    BY <2>3, <2>4 DEF TopAll
<1>4. CASE AtRoot /\ prog.op # "noset"
  <2>1. prog' = Run(prog.op, "collect", prog.root) /\ anchor' = anchor
    BY <1>4 DEF Climb
  <2>2. anchor' \in Known \cup {Host} /\ prog.op \in Ops \ {"none"}
    BY <1>1, <2>1 DEF TopTypeOK
  <2>3. QED
    BY <1>1, <2>1, <2>2, RunFacts
<1>5. QED
  BY <1>2, <1>3, <1>4

\* Children go onto the stack, unless it is full or the container's procfs is gone.
LEMMA PushedFacts ==
  ASSUME TopAll, prog.op # "none", UNCHANGED <<parent, dead, groups, anchor>>,
         NEW pc \in {"collect", "threads"}, NEW pids \in Seq(Proc), pids # <<>>,
         NEW stack \in Seq(Known), NEW p \in Proc, NEW apart \in BOOLEAN,
         prog' = Pushed(pc, pids, stack, p, apart)
  PROVE  /\ TopTypeOK' /\ prog'.op = prog.op /\ prog'.root = prog.root /\ prog'.missed = prog.missed
         /\ ~prog'.cut =>
              /\ ~prog.cut /\ prog'.pc = pc /\ prog'.pids = pids /\ Range(stack) \subseteq Range(prog'.stack)
              /\ \A c \in Living : parent[c] = p /\ (apart <=> c \in aside) =>
                                     c \in Range(prog'.stack) \cup Range(pids)
<1> DEFINE seen == IF Readable /\ p \in Living THEN ChildrenFiles(p, apart) \ Range(pids) ELSE {}
           more == stack \o SetToSeq(seen)
<1>1. /\ TopTypeOK /\ prog \in Programs /\ prog.op \in Ops /\ prog.root \in Known
      /\ prog.stack \in Seq(Known)
  BY DEF TopAll, TopTypeOK, Programs
<1>2. /\ Living' = Living /\ Known' = Known /\ Known \subseteq Proc /\ Host \notin Known /\ Living \subseteq Known
      /\ \A q \in Living : parent[q] \in Living \cup {Host}
  BY <1>1, SameProcesses, HostNoProcess DEF Known
<1>3. prog' = IF Len(more) > MaxPids THEN [prog EXCEPT !.pc = "idle", !.cut = TRUE]
              ELSE [prog EXCEPT !.pc = pc, !.pids = pids, !.stack = more, !.cut = prog.cut \/ ~Readable]
  BY DEF Pushed
<1>4. SetToSeq(seen) \in Seq(Known) /\ Range(SetToSeq(seen)) = seen
  <2>1. seen \subseteq Living
    BY DEF ChildrenFiles, Children
  <2>2. IsFiniteSet(seen)
    BY <1>1, <1>2, <2>1, FS_Subset, TopAppAssumption DEF TopTypeOK
  <2> HIDE DEF seen
  <2>3. SetToSeq(seen) \in Seq(seen) /\ Range(SetToSeq(seen)) = seen
    BY <2>2, AllListed
  <2>4. QED
    BY <1>2, <2>1, <2>3
<1>5. more \in Seq(Known) /\ Range(more) = Range(stack) \cup seen
  <2>1. PICK t \in Seq(Known) : t = SetToSeq(seen)
    BY <1>4
  <2>2. stack \o t \in Seq(Known) /\ Range(stack \o t) = Range(stack) \cup Range(t)
    BY RangeJoined
  <2>3. QED
    BY <1>4, <2>1, <2>2
<1>6. \A c \in Living : Readable /\ parent[c] = p /\ (apart <=> c \in aside) => c \in seen \cup Range(pids)
  BY <1>2, TopAppAssumption DEF ChildrenFiles, Children
<1> HIDE DEF more, seen
<1>7. more \in Seq(Known \cup {Host})
  BY <1>5
<1>8. CASE Len(more) > MaxPids
  <2>1. prog' = [prog EXCEPT !.pc = "idle", !.cut = TRUE]
    BY <1>3, <1>8
  <2>2. /\ prog' \in Programs /\ prog'.op = prog.op /\ prog'.pc = "idle" /\ prog'.root = prog.root
        /\ prog'.stack = prog.stack /\ prog'.missed = prog.missed /\ prog'.cut = TRUE
    BY <1>1, <2>1 DEF Programs
  <2>3. QED
    BY <1>1, <1>2, <2>2 DEF TopTypeOK, Programs
<1>9. CASE ~(Len(more) > MaxPids)
  <2>1. prog' = [prog EXCEPT !.pc = pc, !.pids = pids, !.stack = more, !.cut = prog.cut \/ ~Readable]
    BY <1>3, <1>9
  <2>2. /\ prog' \in Programs /\ prog'.op = prog.op /\ prog'.pc = pc /\ prog'.root = prog.root
        /\ prog'.stack = more /\ prog'.pids = pids /\ prog'.missed = prog.missed
        /\ prog'.cut = (prog.cut \/ ~Readable)
    BY <1>1, <1>7, <2>1 DEF Programs
  <2>3. TopTypeOK'
    BY <1>1, <1>2, <1>5, <2>2 DEF TopTypeOK, Programs
  <2>4. QED
    BY <1>5, <1>6, <2>2, <2>3
<1>10. QED
  BY <1>8, <1>9

LEMMA CollectKeeps == ASSUME TopAll, Collect PROVE TopAll'
<1> DEFINE p    == Last(prog.stack)
           pids == Append(prog.pids, p)
           rest == Front(prog.stack)
<1>1. /\ prog.pc = "collect" /\ prog.stack # <<>> /\ UNCHANGED <<parent, aside, dead, groups, anchor>>
      /\ TopTypeOK /\ TopInv /\ prog \in Programs /\ prog.op # "none" /\ prog.root \in Known
      /\ prog.stack \in Seq(Known) /\ prog.pids \in Seq(Proc)
  BY DEF Collect, Idle, TopAll, TopTypeOK, Programs
<1>2. prog' = IF p \in Range(prog.pids) THEN [prog EXCEPT !.stack = rest]
              ELSE IF Len(prog.pids) + 1 >= MaxPids THEN [prog EXCEPT !.pc = "idle", !.cut = TRUE]
              ELSE Pushed("threads", pids, rest, p, FALSE)
  BY DEF Collect
<1>3. Living' = Living /\ Known' = Known /\ Known \subseteq Proc
  BY <1>1, SameProcesses, HostNoProcess
<1>4. /\ p \in Known /\ p \in Proc /\ rest \in Seq(Known) /\ Range(prog.stack) = Range(rest) \cup {p}
      /\ pids \in Seq(Proc) /\ Range(pids) = Range(prog.pids) \cup {p} /\ pids # <<>> /\ Last(pids) = p
  <2>1. /\ p \in Known /\ rest \in Seq(Known) /\ Range(prog.stack) = Range(rest) \cup {p} /\ p \in Proc
    BY <1>1, <1>3, RangeParts
  <2> HIDE DEF p
  <2>2. pids \in Seq(Proc) /\ Range(pids) = Range(prog.pids) \cup {p}
    BY <1>1, <2>1, RangeParts
  <2>3. pids # <<>> /\ Last(pids) = p
    BY <1>1, <2>1 DEF Last
  <2>4. QED
    BY <2>1, <2>2, <2>3
<1> HIDE DEF p, pids, rest
<1>5. ASSUME Tree
      PROVE  /\ prog.root \in Range(prog.pids) \cup Range(prog.stack)
             /\ \A c \in Living : parent[c] \in Visited => c \in Visited \cup Range(prog.stack)
  BY <1>1, <1>5 DEF TopInv, Unread
<1>6. CASE p \in Range(prog.pids)
  <2>1. prog' = [prog EXCEPT !.stack = rest]
    BY <1>2, <1>6
  <2>2. /\ prog' \in Programs /\ prog'.op = prog.op /\ prog'.pc = "collect" /\ prog'.root = prog.root
        /\ prog'.stack = rest /\ prog'.pids = prog.pids /\ prog'.missed = prog.missed
        /\ prog'.cut = prog.cut
    <3>1. rest \in Seq(Known \cup {Host})
      BY <1>4
    <3>2. QED
      BY <1>1, <2>1, <3>1 DEF Programs
  <2>3. TopTypeOK'
    BY <1>1, <1>3, <1>4, <2>2 DEF TopTypeOK, Programs
  <2>4. TopInv'
    BY <1>1, <1>3, <1>4, <1>5, <1>6, <2>2 DEF TopInv, Tree, Visited
  <2>5. QED
    BY <2>3, <2>4 DEF TopAll
<1>7. CASE p \notin Range(prog.pids) /\ Len(prog.pids) + 1 >= MaxPids
  <2>1. prog' = [prog EXCEPT !.pc = "idle", !.cut = TRUE]
    BY <1>2, <1>7
  <2>2. /\ prog' \in Programs /\ prog'.op = prog.op /\ prog'.pc = "idle" /\ prog'.root = prog.root
        /\ prog'.stack = prog.stack /\ prog'.cut = TRUE
    BY <1>1, <2>1 DEF Programs
  <2>3. TopTypeOK'
    BY <1>1, <1>3, <2>2 DEF TopTypeOK, Programs
  <2>4. TopInv'
    BY <2>2 DEF TopInv, Tree
  <2>5. QED
    BY <2>3, <2>4 DEF TopAll
<1>8. CASE p \notin Range(prog.pids) /\ ~(Len(prog.pids) + 1 >= MaxPids)
  <2>1. prog' = Pushed("threads", pids, rest, p, FALSE)
    BY <1>2, <1>8
  <2>2. /\ TopTypeOK' /\ prog'.op = prog.op /\ prog'.root = prog.root /\ prog'.missed = prog.missed
        /\ ~prog'.cut =>
             /\ ~prog.cut /\ prog'.pc = "threads" /\ prog'.pids = pids /\ Range(rest) \subseteq Range(prog'.stack)
             /\ \A c \in Living : parent[c] = p /\ c \notin aside => c \in Range(prog'.stack) \cup Range(pids)
    BY <1>1, <1>4, <2>1, PushedFacts
  <2>3. ASSUME Tree', NEW c \in Living, parent[c] \in Visited'
        PROVE  c \in Visited' \cup Range(prog'.stack) \/ Unread(c)'
    <3>1. Tree /\ ~prog'.cut
      BY <2>2, <2>3 DEF Tree
    <3>2. Visited' = Visited \cup {p} /\ Range(prog.pids) \cup {p} = Range(prog'.pids)
      BY <1>4, <2>2, <3>1 DEF Visited
    <3>3. CASE parent[c] = p
      BY <1>1, <1>4, <2>2, <3>1, <3>3 DEF Unread, Visited
    <3>4. CASE parent[c] # p
      BY <1>4, <1>5, <2>2, <2>3, <3>1, <3>2, <3>4
    <3>5. QED
      BY <3>3, <3>4
  <2>4. Tree' => prog'.root \in Range(prog'.pids) \cup Range(prog'.stack)
    BY <1>4, <1>5, <2>2 DEF Tree
  <2>5. TopInv'
    BY <1>1, <1>3, <2>2, <2>3, <2>4 DEF TopInv, Tree
  <2>6. QED
    BY <2>2, <2>5 DEF TopAll
<1>9. QED
  BY <1>6, <1>7, <1>8

LEMMA CollectThreadsKeeps == ASSUME TopAll, CollectThreads PROVE TopAll'
<1> DEFINE p == Last(prog.pids)
<1>1. /\ prog.pc = "threads" /\ UNCHANGED <<parent, aside, dead, groups, anchor>> /\ TopTypeOK /\ TopInv
      /\ prog.op # "none" /\ prog.stack \in Seq(Known) /\ prog.pids \in Seq(Proc) /\ prog.pids # <<>>
      /\ prog' = Pushed("collect", prog.pids, prog.stack, p, TRUE)
  BY DEF CollectThreads, Idle, TopAll, TopTypeOK
<1>2. Living' = Living /\ p \in Proc
  BY <1>1, SameProcesses, RangeParts
<1> HIDE DEF p
<1>3. /\ TopTypeOK' /\ prog'.op = prog.op /\ prog'.root = prog.root /\ prog'.missed = prog.missed
      /\ ~prog'.cut =>
           /\ ~prog.cut /\ prog'.pc = "collect" /\ prog'.pids = prog.pids
           /\ Range(prog.stack) \subseteq Range(prog'.stack)
           /\ \A c \in Living : parent[c] = p /\ c \in aside => c \in Range(prog'.stack) \cup Range(prog.pids)
  BY <1>1, <1>2, PushedFacts
<1>4. ASSUME Tree'
      PROVE  /\ prog'.root \in Range(prog'.pids) \cup Range(prog'.stack)
             /\ \A c \in Living : parent[c] \in Visited' => c \in Visited' \cup Range(prog'.stack)
  <2>1. Tree /\ ~prog'.cut /\ Visited' = Visited
    BY <1>3, <1>4 DEF Tree, Visited
  <2>2. /\ prog.root \in Range(prog.pids) \cup Range(prog.stack)
        /\ \A c \in Living : parent[c] \in Visited =>
             c \in Visited \cup Range(prog.stack) \/ (parent[c] = p /\ c \in aside)
    BY <1>1, <2>1 DEF TopInv, Unread, p
  <2>3. QED
    BY <1>3, <2>1, <2>2 DEF Visited
<1>5. TopInv'
  BY <1>1, <1>2, <1>3, <1>4 DEF TopInv, Tree
<1>6. QED
  BY <1>3, <1>5 DEF TopAll

LEMMA CollectedKeeps == ASSUME TopAll, Collected PROVE TopAll'
<1>1. /\ prog.pc = "collect" /\ prog.stack = <<>> /\ UNCHANGED <<parent, dead, groups, anchor>> /\ TopTypeOK /\ TopInv
      /\ prog \in Programs /\ prog.pids \in Seq(Proc) /\ prog' = [prog EXCEPT !.pc = "write", !.todo = Writes(prog.pids)]
  BY DEF Collected, Idle, TopAll, TopTypeOK, Programs
<1>2. Living' = Living /\ Known' = Known /\ \A p : Below(p)' = Below(p)
  BY <1>1, SameProcesses
<1>3. /\ Writes(prog.pids) \in Seq(Proc \X Controllers)
      /\ \A p \in Range(prog.pids), c \in Controllers : <<p, c>> \in Range(Writes(prog.pids))
  BY <1>1, WritesFacts
<1>4. /\ prog' \in Programs /\ prog'.op = prog.op /\ prog'.pc = "write" /\ prog'.root = prog.root
      /\ prog'.stack = prog.stack /\ prog'.todo = Writes(prog.pids) /\ prog'.missed = prog.missed
      /\ prog'.cut = prog.cut
  BY <1>1, <1>3 DEF Programs
<1>5. TopTypeOK'
  BY <1>1, <1>2, <1>4 DEF TopTypeOK, Programs
<1>6. ASSUME Tree, NEW q \in Below(prog.root)
      PROVE  q \in prog.missed \/ Right(q)'
  <2> DEFINE V == Visited \cap Living
  <2>1. Range(prog.stack) = {}
    BY <1>1 DEF Range
  <2>2. prog.root \in Range(prog.pids) /\ \A c \in Living : parent[c] \in Visited => c \in Visited
    BY <1>1, <1>6, <2>1 DEF TopInv, Unread
  <2>3. HasChildren(V) /\ {prog.root} \cap Living \subseteq V /\ V \in SUBSET Living
    BY <2>2 DEF HasChildren, Visited
  <2> HIDE DEF V
  <2>4. Below(prog.root) \subseteq V
    BY <2>3, BelowFacts
  <2>5. q \in Visited
    BY <1>6, <2>4 DEF V
  <2>6. QED
    BY <1>3, <1>4, <2>5 DEF Visited, Right, Controllers
<1>7. TopInv'
  BY <1>2, <1>4, <1>6 DEF TopInv, Tree
<1>8. QED
  BY <1>5, <1>7 DEF TopAll

LEMMA WriteKeeps == ASSUME TopAll, Write PROVE TopAll'
<1> DEFINE p == Head(prog.todo)[1]
           c == Head(prog.todo)[2]
<1>1. /\ prog.pc = "write" /\ prog.todo # <<>> /\ UNCHANGED <<parent, dead, anchor>> /\ TopTypeOK /\ TopInv
      /\ prog \in Programs /\ prog.todo \in Seq(Proc \X Controllers) /\ groups \in [Proc -> SUBSET Controllers]
      /\ groups' = IF p \notin Living THEN groups
                   ELSE [groups EXCEPT ![p] = IF Boosts THEN @ \cup {c} ELSE @ \ {c}]
      /\ prog' = [prog EXCEPT !.todo = Tail(@), !.moved = @ \/ p \in Living]
  BY DEF Write, Idle, TopAll, TopTypeOK, Programs
<1>2. Living' = Living /\ Known' = Known /\ Living \subseteq Proc /\ \A x : Below(x)' = Below(x)
  BY <1>1, SameProcesses DEF TopTypeOK
<1>3. /\ Head(prog.todo) \in Proc \X Controllers /\ Tail(prog.todo) \in Seq(Proc \X Controllers)
      /\ Range(prog.todo) = {Head(prog.todo)} \cup Range(Tail(prog.todo))
  BY <1>1, RangeParts
<1>4. p \in Proc /\ c \in Controllers /\ Head(prog.todo) = <<p, c>>
  BY <1>3
<1> HIDE DEF p, c
<1>5. /\ prog' \in Programs /\ prog'.op = prog.op /\ prog'.pc = "write" /\ prog'.root = prog.root
      /\ prog'.stack = prog.stack /\ prog'.todo = Tail(prog.todo) /\ prog'.missed = prog.missed
      /\ prog'.cut = prog.cut
  BY <1>1, <1>3 DEF Programs
<1>6. groups' \in [Proc -> SUBSET Controllers]
  BY <1>1, <1>4
<1>7. TopTypeOK'
  BY <1>1, <1>2, <1>5, <1>6 DEF TopTypeOK, Programs
<1>8. Boosts' = Boosts
  BY <1>5 DEF Boosts
<1>9. ASSUME NEW q \in Living, Right(q), NEW d \in Controllers
      PROVE  <<q, d>> \in Range(prog'.todo) \/ (d \in groups'[q] <=> Boosts)
  <2>1. CASE q = p /\ d = c
    BY <1>1, <1>2, <1>9, <2>1
  <2>2. CASE q # p \/ d # c
    <3>1. <<q, d>> # <<p, c>> /\ (d \in groups'[q] <=> d \in groups[q])
      BY <1>1, <1>2, <1>9, <2>2
    <3>2. <<q, d>> \in Range(prog.todo) => <<q, d>> \in Range(Tail(prog.todo))
      BY <1>3, <1>4, <3>1
    <3>3. QED
      BY <1>5, <1>9, <3>1, <3>2 DEF Right
  <2>3. QED
    BY <2>1, <2>2
<1>10. \A q \in Living : Right(q) => Right(q)'
  BY <1>8, <1>9 DEF Right, Controllers
<1>11. TopInv'
  <2>1. \A q \in Below(prog.root) : q \in Living
    BY BelowFacts
  <2>2. Tree' = Tree
    BY <1>5 DEF Tree
  <2>3. ASSUME Tree, NEW q \in Below(prog.root) PROVE q \in prog.missed \/ Right(q)'
    BY <1>1, <1>10, <2>1, <2>3 DEF TopInv
  <2>4. QED
    BY <1>2, <1>5, <2>2, <2>3 DEF TopInv
<1>12. QED
  BY <1>7, <1>11 DEF TopAll

LEMMA RefusedKeeps == ASSUME TopAll, WriteRefused PROVE TopAll'
<1> DEFINE p == Head(prog.todo)[1]
<1>1. /\ prog.pc = "write" /\ prog.todo # <<>> /\ UNCHANGED <<parent, dead, groups, anchor>>
      /\ TopTypeOK /\ TopInv /\ prog \in Programs /\ prog.todo \in Seq(Proc \X Controllers)
      /\ prog' = [prog EXCEPT !.todo = Tail(@), !.missed = @ \cup {p}]
  BY DEF WriteRefused, Idle, TopAll, TopTypeOK, Programs
<1>2. Living' = Living /\ Known' = Known /\ \A x : Below(x)' = Below(x)
  BY <1>1, SameProcesses
<1>3. /\ Head(prog.todo) \in Proc \X Controllers /\ Tail(prog.todo) \in Seq(Proc \X Controllers)
      /\ Range(prog.todo) = {Head(prog.todo)} \cup Range(Tail(prog.todo))
  BY <1>1, RangeParts
<1>4. PICK c \in Controllers : p \in Proc /\ Head(prog.todo) = <<p, c>>
  BY <1>3
<1> HIDE DEF p
<1>5. /\ prog' \in Programs /\ prog'.op = prog.op /\ prog'.pc = "write" /\ prog'.root = prog.root
      /\ prog'.stack = prog.stack /\ prog'.todo = Tail(prog.todo) /\ prog'.missed = prog.missed \cup {p}
      /\ prog'.cut = prog.cut
  BY <1>1, <1>3, <1>4 DEF Programs
<1>6. TopTypeOK'
  BY <1>1, <1>2, <1>5 DEF TopTypeOK, Programs
<1>7. ASSUME Tree, NEW q \in Below(prog.root) PROVE q \in prog'.missed \/ Right(q)'
  <2>1. q \in prog.missed \/ Right(q)
    BY <1>1, <1>7 DEF TopInv
  <2>2. CASE q = p
    BY <1>5, <2>2
  <2>3. CASE q # p /\ Right(q)
    <3>1. \A d \in Controllers : <<q, d>> # <<p, c>>
      BY <2>3
    <3>2. \A d \in Controllers : <<q, d>> \in Range(prog.todo) => <<q, d>> \in Range(prog'.todo)
      BY <1>3, <1>4, <1>5, <3>1
    <3>3. QED
      BY <1>1, <1>5, <2>3, <3>2 DEF Right, Boosts
  <2>4. QED
    BY <1>5, <2>1, <2>2, <2>3
<1>8. TopInv'
  BY <1>2, <1>5, <1>7 DEF TopInv, Tree
<1>9. QED
  BY <1>6, <1>8 DEF TopAll

LEMMA WrittenKeeps == ASSUME TopAll, Written PROVE TopAll'
<1>1. /\ prog.pc = "write" /\ prog.todo = <<>> /\ UNCHANGED <<parent, dead, groups>> /\ TopTypeOK /\ TopInv
      /\ prog \in Programs /\ prog' = [prog EXCEPT !.pc = "idle"]
      /\ anchor' = IF prog.op = "promote" /\ prog.moved THEN prog.root ELSE anchor
  BY DEF Written, Idle, TopAll, TopTypeOK, Programs
<1>2. Living' = Living /\ Known' = Known /\ \A p : Below(p)' = Below(p)
  BY <1>1, SameProcesses
<1>3. /\ prog' \in Programs /\ prog'.op = prog.op /\ prog'.pc = "idle" /\ prog'.root = prog.root
      /\ prog'.stack = prog.stack /\ prog'.todo = prog.todo /\ prog'.missed = prog.missed
      /\ prog'.cut = prog.cut
  BY <1>1 DEF Programs
<1>4. anchor' \in Known' \cup {Host}
  BY <1>1, <1>2 DEF TopTypeOK
<1>5. TopTypeOK'
  BY <1>1, <1>2, <1>3, <1>4 DEF TopTypeOK, Programs
<1>6. \A q : Right(q)' <=> Right(q)
  BY <1>1, <1>3 DEF Right, Boosts
<1>7. TopInv'
  BY <1>1, <1>2, <1>3, <1>6 DEF TopInv, Tree
<1>8. QED
  BY <1>5, <1>7 DEF TopAll

-----------------------------------------------------------------------------
(* The desktop's processes.                                                 *)

\* BelowFacts, of the state after a step.
LEMMA BelowThen ==
  ASSUME NEW p, NEW S \in SUBSET Living', {p} \cap Living' \subseteq S, HasChildren(S)'
  PROVE  Below(p)' \subseteq S
BY DEF Below

LEMMA SeqMore == ASSUME NEW S, NEW T, S \subseteq T PROVE Seq(S) \subseteq Seq(T)
OBVIOUS

LEMMA ForkKeeps ==
  ASSUME TopAll, NEW p, NEW q, NEW apart \in BOOLEAN, Fork(p, q, apart)
  PROVE  TopAll'
<1>1. /\ p \in Living /\ q \in Proc /\ q \notin Living /\ q \notin dead /\ dead' = dead /\ anchor' = anchor
      /\ parent' = [x \in Living \cup {q} |-> IF x = q THEN p ELSE parent[x]] /\ groups' = [groups EXCEPT ![q] = groups[p]] /\ TopTypeOK /\ TopInv
      /\ prog \in Programs /\ groups \in [Proc -> SUBSET Controllers] /\ Living \subseteq Proc
      /\ prog' = IF \/ p \in prog.missed
                    \/ prog.pc = "collect" /\ p \in Range(prog.pids)
                    \/ prog.pc = "threads" /\ p \in Range(prog.pids) /\ ~(apart /\ p = Last(prog.pids))
                    \/ prog.pc = "write" /\ Pending(p)
                 THEN [prog EXCEPT !.missed = @ \cup {q}] ELSE prog
      /\ aside' = IF apart THEN aside \cup {q} ELSE aside \ {q}
  BY DEF Fork, TopAll, TopTypeOK, Programs
<1>2. /\ Host \notin Living /\ \A x \in Living : parent[x] \in Living \cup {Host}
      /\ Known \subseteq Proc /\ p # q /\ q # Host
  BY <1>1, HostNoProcess, TopAppAssumption
<1>3. Living' = Living \cup {q} /\ parent'[q] = p /\ \A x \in Living : parent'[x] = parent[x]
  BY <1>1 DEF Living
<1>4. parent' \in [Living' -> Living' \cup {Host}] /\ Known' = Known \cup {q}
  <2>1. parent' = [x \in Living' |-> parent'[x]]
    BY <1>1, <1>3 DEF Living
  <2>2. \A x \in Living' : parent'[x] \in Living' \cup {Host}
    BY <1>1, <1>2, <1>3
  <2>3. QED
    BY <1>1, <1>3, <2>1, <2>2 DEF Known
<1>5. groups' \in [Proc -> SUBSET Controllers] /\ groups'[q] = groups[p] /\ \A x \in Living : groups'[x] = groups[x]
  BY <1>1
<1>6. /\ prog' \in Programs /\ prog'.op = prog.op /\ prog'.pc = prog.pc /\ prog'.root = prog.root
      /\ prog'.stack = prog.stack /\ prog'.pids = prog.pids /\ prog'.todo = prog.todo
      /\ prog'.cut = prog.cut /\ prog'.missed \in SUBSET Proc
      /\ prog.missed \subseteq prog'.missed /\ prog'.missed \subseteq prog.missed \cup {q}
      /\ p \in prog.missed => q \in prog'.missed
      /\ prog.pc = "collect" /\ p \in Range(prog.pids) => q \in prog'.missed
      /\ prog.pc = "threads" /\ p \in Range(prog.pids) /\ ~(apart /\ p = Last(prog.pids)) => q \in prog'.missed
      /\ prog.pc = "write" /\ Pending(p) => q \in prog'.missed
  BY <1>1 DEF Programs
<1>7. TopTypeOK'
  <2>1. Seq(Known \cup {Host}) \subseteq Seq(Known' \cup {Host}) /\ Seq(Known) \subseteq Seq(Known')
    BY <1>4, SeqMore
  <2>2. /\ prog'.op = "none" => prog'.pc = "idle"
        /\ prog'.op # "none" => prog'.root \in Known' /\ prog'.stack \in Seq(Known')
        /\ prog'.pc = "threads" => prog'.pids # <<>>
        /\ anchor' \in Known' \cup {Host}
    BY <1>1, <1>4, <1>6, <2>1 DEF TopTypeOK
  <2>3. prog' \in Programs'
    BY <1>4, <1>6, <2>1 DEF Programs
  <2>4. Living' \subseteq Proc /\ dead' \subseteq Proc \ Living'
    BY <1>1, <1>3 DEF TopTypeOK
  <2>5. QED
    BY <1>4, <1>5, <2>2, <2>3, <2>4 DEF TopTypeOK, Programs
<1>8. ASSUME NEW r \in Known
      PROVE  Below(r)' \subseteq Below(r) \cup (IF p \in Below(r) THEN {q} ELSE {})
  <2>0. PICK S : S = Below(r) \cup (IF p \in Below(r) THEN {q} ELSE {})
    OBVIOUS
  <2>1. r # q /\ Below(r) \subseteq Living /\ (r \in Living => r \in Below(r)) /\ HasChildren(Below(r))
    BY <1>1, BelowFacts DEF Known
  <2>2. HasChildren(S)'
    <3>1. SUFFICES ASSUME NEW x \in Living', parent'[x] \in S PROVE x \in S
      BY DEF HasChildren
    <3>2. CASE x = q
      BY <1>2, <1>3, <2>0, <2>1, <3>1, <3>2
    <3>3. CASE x # q
      <4>1. x \in Living /\ parent[x] \in S /\ parent[x] # q
        BY <1>1, <1>2, <1>3, <2>0, <2>1, <3>1, <3>3
      <4>2. QED
        BY <1>2, <2>0, <2>1, <4>1 DEF HasChildren
    <3>4. QED
      BY <3>2, <3>3
  <2>3. S \in SUBSET Living' /\ {r} \cap Living' \subseteq S
    BY <1>3, <2>0, <2>1
  <2>4. Below(r)' \subseteq S
    BY <2>2, <2>3, BelowThen
  <2>5. QED
    BY <2>0, <2>4
<1>9. Tree' = Tree /\ (Tree => prog.root \in Known)
  BY <1>1, <1>6 DEF Tree, TreeOps, TopTypeOK
<1>10. ASSUME Tree, prog.pc \in {"collect", "threads"}, NEW c \in Living', parent'[c] \in Visited'
       PROVE  c \in Visited' \cup Range(prog'.stack) \/ Unread(c)'
  <2>1. \A x \in Living : parent[x] \in Visited => x \in Visited \cup Range(prog.stack) \/ Unread(x)
    BY <1>1, <1>10 DEF TopInv
  <2>2. Visited \subseteq Visited' /\ Visited' \subseteq Visited \cup {q}
    BY <1>6 DEF Visited
  <2>3. CASE c = q
    <3>1. p \in Visited
      BY <1>2, <1>3, <1>10, <2>2, <2>3
    <3>2. CASE prog.pc = "threads" /\ apart /\ p = Last(prog.pids)
      BY <1>1, <1>3, <1>6, <2>3, <3>2 DEF Unread
    <3>3. CASE ~(prog.pc = "threads" /\ apart /\ p = Last(prog.pids))
      BY <1>6, <1>10, <2>3, <3>1, <3>3 DEF Visited
    <3>4. QED
      BY <3>2, <3>3
  <2>4. CASE c # q
    <3>1. c \in Living /\ parent[c] \in Visited /\ parent'[c] = parent[c] /\ (c \in aside => c \in aside')
      BY <1>1, <1>2, <1>3, <1>10, <2>2, <2>4
    <3>2. Unread(c) => Unread(c)'
      BY <1>6, <3>1 DEF Unread
    <3>3. QED
      BY <1>6, <2>1, <2>2, <3>1, <3>2
  <2>5. QED
    BY <2>3, <2>4
<1>11. ASSUME Tree, prog.pc \in {"write", "idle"}, NEW x \in Below(prog.root)'
       PROVE  x \in prog'.missed \/ Right(x)'
  <2>1. \A y \in Below(prog.root) : y \in Living /\ (y \in prog.missed \/ Right(y))
    BY <1>1, <1>11, BelowFacts DEF TopInv
  <2>2. CASE x \in Below(prog.root)
    BY <1>5, <1>6, <2>1, <2>2 DEF Right, Boosts
  <2>3. CASE x \notin Below(prog.root)
    <3>1. x = q /\ p \in Below(prog.root)
      <4>1. PICK r \in Known : r = prog.root /\ r = prog'.root
        BY <1>6, <1>9, <1>11
      <4>2. x \in Below(r)'
        BY <1>11, <4>1 DEF Below
      <4>3. QED
        BY <1>8, <2>3, <4>1, <4>2
    <3>2. CASE p \in prog.missed
      BY <1>6, <3>1, <3>2
    <3>3. CASE prog.pc = "write" /\ Pending(p)
      BY <1>6, <3>1, <3>3
    <3>4. CASE p \notin prog.missed /\ ~Pending(p)
      BY <1>5, <1>6, <2>1, <3>1, <3>4 DEF Right, Boosts, Pending
    <3>5. CASE prog.pc = "idle" /\ Pending(p)
      <4>1. prog.todo = <<>>
        BY <1>1, <1>11, <3>5 DEF TopInv
      <4>2. QED
        BY <3>5, <4>1 DEF Pending, Range
    <3>6. QED
      BY <1>11, <3>2, <3>3, <3>4, <3>5
  <2>4. QED
    BY <2>2, <2>3
<1>12. TopInv'
  <2>1. \A x \in Below(prog.root)' : Tree /\ prog.pc \in {"write", "idle"} => x \in prog'.missed \/ Right(x)'
    BY <1>11
  <2>2. QED
    BY <1>1, <1>6, <1>9, <1>10, <2>1 DEF TopInv
<1>13. QED
  BY <1>7, <1>12 DEF TopAll

LEMMA ExitKeeps == ASSUME TopAll, NEW p, Exit(p) PROVE TopAll'
<1>1. PICK r \in Nearest(p) : parent' = [q \in Living \ {p} |-> IF parent[q] = p THEN r ELSE parent[q]]
  BY DEF Exit
<1>2. /\ p \in Living \ Reapers /\ dead' = dead \cup {p} /\ anchor' = anchor /\ groups' = groups
      /\ prog \in Programs /\ TopTypeOK /\ TopInv
      /\ prog' = IF prog.pc \in {"collect", "threads"}
                 THEN [prog EXCEPT !.missed = @ \cup UNION {Below(c) : c \in Children(p) \ Seen}]
                 ELSE prog
      /\ aside' = aside \ Children(p)
  BY DEF Exit, TopAll, TopTypeOK, Programs
<1>3. /\ Host \notin Living /\ Living \subseteq Proc /\ parent \in [Living -> Living \cup {Host}]
      /\ Known \subseteq Proc /\ \A x \in Living : parent[x] \in Living \cup {Host}
  BY <1>2, HostNoProcess DEF TopTypeOK
<1>4. r \in Reapers /\ p \in Below(r) /\ r \in Living /\ r # p
  <2>1. r \in Reapers /\ p \in Below(r)
    BY <1>1 DEF Nearest
  <2>2. QED
    BY <1>2, <1>3, <2>1, AboveLives
<1>5. /\ Living' = Living \ {p} /\ Known' = Known
      /\ \A x \in Living' : parent'[x] = IF parent[x] = p THEN r ELSE parent[x]
  BY <1>1, <1>2 DEF Living, Known
<1>6. parent' \in [Living' -> Living' \cup {Host}]
  BY <1>1, <1>3, <1>4, <1>5
<1>7. UNION {Below(c) : c \in Children(p) \ Seen} \subseteq Living
  BY BelowFacts
<1>8. /\ prog' \in Programs /\ prog'.op = prog.op /\ prog'.pc = prog.pc /\ prog'.root = prog.root
      /\ prog'.stack = prog.stack /\ prog'.pids = prog.pids /\ prog'.todo = prog.todo
      /\ prog'.cut = prog.cut /\ prog'.missed \in SUBSET Proc
      /\ prog.pc \notin {"collect", "threads"} => prog' = prog
      /\ prog.pc \in {"collect", "threads"} => prog'.missed = prog.missed \cup UNION {Below(c) : c \in Children(p) \ Seen}
  BY <1>2, <1>3, <1>7 DEF Programs
<1>9. TopTypeOK'
  <2>1. prog' \in Programs'
    BY <1>5, <1>8 DEF Programs
  <2>2. Living' \subseteq Proc /\ dead' \subseteq Proc \ Living'
    BY <1>2, <1>3, <1>5 DEF TopTypeOK
  <2>3. QED
    BY <1>2, <1>5, <1>6, <1>8, <2>1, <2>2 DEF TopTypeOK, Programs
\* Nobody comes below a process by the exit of another: the reaper is above the one that
\* exits.
<1>10. ASSUME NEW t \in Known
       PROVE  Below(t)' \subseteq Below(t)
  <2>0. PICK S : S = Below(t) \ {p}
    OBVIOUS
  <2>1. Below(t) \subseteq Living /\ (t \in Living => t \in Below(t)) /\ HasChildren(Below(t))
    BY BelowFacts
  <2>2. HasChildren(S)'
    <3>1. SUFFICES ASSUME NEW x \in Living', parent'[x] \in S PROVE x \in S
      BY DEF HasChildren
    <3>2. x \in Living /\ x # p
      BY <1>5, <3>1
    <3>3. CASE parent[x] = p
      <4>1. r \in Below(t)
        BY <1>5, <2>0, <3>1, <3>3
      <4>2. p \in Below(t)
        BY <1>4, <4>1, BelowIn
      <4>3. QED
        BY <2>0, <2>1, <3>2, <3>3, <4>2 DEF HasChildren
    <3>4. CASE parent[x] # p
      BY <1>5, <2>0, <2>1, <3>1, <3>2, <3>4 DEF HasChildren
    <3>5. QED
      BY <3>3, <3>4
  <2>3. S \in SUBSET Living' /\ {t} \cap Living' \subseteq S
    BY <1>5, <2>0, <2>1
  <2>4. QED
    BY <2>0, <2>2, <2>3, BelowThen
<1>11. Tree' = Tree /\ (Tree => prog.root \in Known)
  BY <1>2, <1>8 DEF Tree, TreeOps, TopTypeOK
<1>12. ASSUME Tree, prog.pc \in {"collect", "threads"}, NEW c \in Living', parent'[c] \in Visited'
       PROVE  c \in Visited' \cup Range(prog'.stack) \/ Unread(c)'
  <2>1. \A x \in Living : parent[x] \in Visited => x \in Visited \cup Range(prog.stack) \/ Unread(x)
    BY <1>2, <1>12 DEF TopInv
  <2>2. Visited' = Visited \cup UNION {Below(x) : x \in Children(p) \ Seen} /\ c \in Living
    BY <1>5, <1>8, <1>12 DEF Visited
  <2>3. CASE parent[c] = p
    <3>1. c \in Children(p) /\ c \in Below(c)
      BY <2>2, <2>3, BelowFacts DEF Children
    <3>2. CASE c \in Seen
      BY <1>8, <2>2, <3>2 DEF Seen, Visited
    <3>3. CASE c \notin Seen
      BY <2>2, <3>1, <3>3
    <3>4. QED
      BY <3>2, <3>3
  <2>4. CASE parent[c] # p
    <3>1. parent[c] \in Visited'
      BY <1>5, <1>12, <2>4
    <3>2. CASE parent[c] \in Visited
      <4>1. Unread(c) => Unread(c)'
        BY <1>2, <1>5, <1>8, <2>2, <2>4 DEF Unread, Children
      <4>2. QED
        BY <1>8, <2>1, <2>2, <3>2, <4>1
    <3>3. CASE parent[c] \notin Visited
      <4>1. PICK x \in Children(p) \ Seen : parent[c] \in Below(x)
        BY <2>2, <3>1, <3>3
      <4>2. HasChildren(Below(x))
        BY BelowFacts
      <4>3. c \in Below(x)
        BY <2>2, <4>1, <4>2 DEF HasChildren
      <4>4. QED
        BY <2>2, <4>1, <4>3
    <3>4. QED
      BY <3>2, <3>3
  <2>5. QED
    BY <2>3, <2>4
<1>13. ASSUME Tree, prog.pc \in {"write", "idle"}, NEW x \in Below(prog.root)'
       PROVE  x \in prog'.missed \/ Right(x)'
  <2>1. PICK t \in Known : t = prog.root /\ t = prog'.root
    BY <1>8, <1>11, <1>13
  <2>2. x \in Below(t)'
    BY <1>13, <2>1 DEF Below
  <2>3. x \in Below(prog.root)
    BY <1>10, <2>1, <2>2
  <2>4. x \in prog.missed \/ Right(x)
    BY <1>2, <1>13, <2>3 DEF TopInv
  <2>5. QED
    BY <1>2, <1>8, <1>13, <2>4 DEF Right, Boosts
<1>14. TopInv'
  <2>1. prog.root \in Range(prog.pids) \cup Range(prog.stack) => prog'.root \in Range(prog'.pids) \cup Range(prog'.stack)
    BY <1>8
  <2>2. \A x \in Below(prog.root)' : Tree /\ prog.pc \in {"write", "idle"} => x \in prog'.missed \/ Right(x)'
    BY <1>13
  <2>3. \A c \in Living' : Tree /\ prog.pc \in {"collect", "threads"} /\ parent'[c] \in Visited'
                           => c \in Visited' \cup Range(prog'.stack) \/ Unread(c)'
    BY <1>12
  <2>4. QED
    BY <1>2, <1>8, <1>11, <2>1, <2>2, <2>3 DEF TopInv
<1>15. QED
  BY <1>9, <1>14 DEF TopAll

-----------------------------------------------------------------------------
(* The whole.                                                               *)

LEMMA TopStarts == ASSUME Init PROVE TopAll
<1>1. /\ parent = Family /\ dead = {} /\ groups = [p \in Proc |-> {}] /\ anchor = Host
      /\ prog = [op |-> "none", pc |-> "idle", root |-> Host, stack |-> <<Host>>, pids |-> <<>>,
                 todo |-> <<>>, moved |-> FALSE, missed |-> {}, cut |-> FALSE]
  BY DEF Init, TopInit, Run
<1>2. parent \in [Living -> Living \cup {Host}] /\ Living \subseteq Proc
  BY <1>1, TopAppAssumption DEF Living
<1>3. <<Host>> \in Seq(Known \cup {Host}) /\ <<>> \in Seq(Proc) /\ <<>> \in Seq(Proc \X Controllers)
  OBVIOUS
<1>4. prog \in Programs /\ prog.op = "none" /\ prog.pc = "idle"
  BY <1>1, <1>3 DEF Programs, Ops
<1>5. TopTypeOK
  BY <1>1, <1>2, <1>4 DEF TopTypeOK, Programs
<1>6. TopInv
  BY <1>4 DEF TopInv, Tree, TreeOps
<1>7. QED
  BY <1>5, <1>6 DEF TopAll

LEMMA TopSteps == ASSUME TopAll, TopNext PROVE TopAll'
<1>1. CASE Discover
  BY <1>1, DiscoverKeeps
<1>2. CASE RestoreTop
  BY <1>2, RestoreKeeps
<1>3. CASE \E p \in plan.reports : \E on, tree \in BOOLEAN : SetTop(p, on, tree)
  BY <1>3, SetTopKeeps
<1>4. CASE TopHelper
  BY <1>4, ClimbKeeps, CollectKeeps, CollectThreadsKeeps, CollectedKeeps, WriteKeeps, WrittenKeeps DEF TopHelper
<1>5. CASE \E p, q \in Proc : \E apart \in BOOLEAN : Fork(p, q, apart)
  BY <1>5, ForkKeeps
<1>6. CASE \E p \in Proc : Exit(p)
  BY <1>6, ExitKeeps
<1>7. CASE WriteRefused
  BY <1>7, RefusedKeeps
<1>8. QED
  BY <1>1, <1>2, <1>3, <1>4, <1>5, <1>6, <1>7 DEF TopNext

LEMMA TopStays == ASSUME TopAll, UNCHANGED topVars PROVE TopAll'
<1>1. UNCHANGED <<parent, aside, dead, groups, prog, anchor>>
  BY DEF topVars
<1>2. QED
  BY <1>1 DEF TopAll, TopTypeOK, TopInv, Living, Known, Below, HasChildren, Tree, Right, Visited, Boosts,
              Unread

\* The program's record has the right types, and the walk and the writes leave out no
\* process but those that were forked or orphaned past it or refused (settopapp.c, collect_tree and
\* move_tree).
THEOREM TopAlways == Spec => []TopAll
<1>1. Init => TopAll
  BY TopStarts
<1>2. TopAll /\ [Next]_vars => TopAll'
  <2>1. SUFFICES ASSUME TopAll, [Next]_vars PROVE TopAll'
    OBVIOUS
  <2>2. TopNext \/ UNCHANGED topVars
    BY <2>1 DEF Next, vars
  <2>3. QED
    BY <2>1, <2>2, TopSteps, TopStays
<1>3. QED
  BY <1>1, <1>2, PTL DEF Spec

\* When a program that has moved a tree has ended, every process of the tree that it had
\* not passed by is in both top-app groups, or in none (settopapp.c, move_tree).
THEOREM TreeIsMoved == Spec => []TreeMoved
<1>1. TopAll => TreeMoved
  <2>1. SUFFICES ASSUME TopAll, prog.pc = "idle", prog.op \in TreeOps, ~prog.cut,
                        NEW p \in Below(prog.root) \ prog.missed
                 PROVE  groups[p] = IF Boosts THEN Controllers ELSE {}
    BY DEF TreeMoved, TreeOps
  <2>2. Right(p) /\ prog.todo = <<>>
    BY <2>1 DEF TopAll, TopInv, Tree
  <2>3. Range(prog.todo) = {}
    BY <2>2 DEF Range
  <2>4. p \in Proc /\ groups[p] \subseteq Controllers
    BY <2>1, BelowFacts DEF TopAll, TopTypeOK
  <2>5. QED
    BY <2>2, <2>3, <2>4 DEF Right
<1>2. QED
  BY <1>1, TopAlways, PTL

-----------------------------------------------------------------------------
(* InputGrab.java and input_grab.c: who holds the input.                    *)

WorkerAt == {"none", "launch", "accept", "accepted", "check", "read", "finally", "kill", "done"}
HelperAt == {"none", "launched", "scan", "hello", "loop", "bye", "dead"}
LinkIs   == {"none", "backlog", "open", "closed"}

GrabTypeOK ==
  /\ token \in 0..MaxSessions /\ running \in BOOLEAN /\ endReported \in BOOLEAN
  /\ server \in Session \cup {NULL} /\ client \in Session \cup {NULL}
  /\ worker \in [Session -> WorkerAt] /\ helper \in [Session -> HelperAt]
  /\ link \in [Session -> LinkIs] /\ grab \in [Node -> Session \cup {NULL}]
  /\ posted \in Seq({"ready", "finish"} \X Session)

\* The helper and the node: it grabs after it has connected.
Grabbing(s) ==
  /\ \A n \in Node : grab[n] = s => helper[s] \in {"hello", "loop"}
  /\ helper[s] \in {"scan", "hello", "loop"} => link[s] # "none"
  /\ s > token \/ worker[s] = "launch" => helper[s] = "none"

\* The listener, the connection and the worker are those of the session that runs.
Attached(s) ==
  /\ link[s] = "backlog" => server = s
  /\ link[s] = "open" => client = s \/ worker[s] = "accepted"
  /\ server = s => s = token /\ worker[s] \in {"launch", "accept", "finally"}
  /\ client = s => s = token /\ worker[s] \in {"check", "read", "finally"}
  /\ worker[s] \notin {"none", "done"} => s = token /\ running

\* The report of the end is the last post, and comes when the worker is done.
Reported ==
  /\ \A n \in 1..Len(posted) :
       posted[n][1] = "finish" => n = Len(posted) /\ \A s \in Session : s = token => worker[s] = "done"
  /\ ~running => posted = <<>>
  /\ endReported => ~running

GrabInv == Reported /\ \A s \in Session : Grabbing(s) /\ Attached(s)

GrabAll == GrabTypeOK /\ GrabInv

LEMMA GrabStartKeeps == ASSUME GrabAll, GrabStart PROVE GrabAll'
<1>1. /\ ~running /\ token < MaxSessions /\ token' = token + 1 /\ running' = TRUE /\ endReported' = FALSE
      /\ server' = token' /\ worker' = [worker EXCEPT ![token'] = "launch"]
      /\ UNCHANGED <<client, posted, helper, link, grab>>
  BY DEF GrabStart
<1>2. token' \in Session /\ token' \in 0..MaxSessions /\ token' # token /\ \A s \in Session : s > token' => s > token
  BY <1>1, GrabAssumption DEF GrabAll, GrabTypeOK, Session
<1>3. GrabTypeOK'
  BY <1>1, <1>2 DEF GrabAll, GrabTypeOK, WorkerAt
<1>4. posted = <<>> /\ Len(posted) = 0
  BY <1>1 DEF GrabAll, GrabInv, Reported
<1>5. Reported'
  BY <1>1, <1>4 DEF Reported
<1>6. \A s \in Session : worker[s] \in {"none", "done"} /\ server # s /\ client # s
  BY <1>1 DEF GrabAll, GrabInv, Attached
<1>7. token' > token
  BY <1>1 DEF GrabAll, GrabTypeOK
<1>8. ASSUME NEW s \in Session PROVE Grabbing(s)' /\ Attached(s)'
  <2>1. Grabbing(s) /\ Attached(s)
    BY DEF GrabAll, GrabInv
  <2>2. worker'[s] = IF s = token' THEN "launch" ELSE worker[s]
    BY <1>1 DEF GrabAll, GrabTypeOK
  <2>3. Grabbing(s)'
    BY <1>1, <1>2, <1>6, <1>7, <2>1, <2>2 DEF Grabbing
  <2>4. Attached(s)'
    BY <1>1, <1>2, <1>6, <2>1, <2>2 DEF Attached
  <2>5. QED
    BY <2>3, <2>4
<1>9. QED
  BY <1>3, <1>5, <1>8 DEF GrabAll, GrabInv

\* Whoever closes them, neither listener nor client is left.
LEMMA CloseAllFacts ==
  ASSUME GrabAll, CloseAll
  PROVE  /\ link' \in [Session -> LinkIs] /\ server' = NULL /\ client' = NULL /\ NULL \notin Session
         /\ \A s \in Session : /\ link'[s] # "backlog" /\ (link[s] # "none" => link'[s] # "none")
                               /\ link'[s] = "open" => link[s] = "open" /\ worker[s] = "accepted"
<1>1. /\ link' = [s \in Session |->
                IF (link[s] = "backlog" /\ server = s) \/ client = s THEN "closed" ELSE link[s]]
      /\ server' = NULL /\ client' = NULL /\ NULL \notin Session
  BY GrabAssumption DEF CloseAll, Session
<1>2. link \in [Session -> LinkIs] /\ \A s \in Session : Attached(s)
  BY DEF GrabAll, GrabTypeOK, GrabInv
<1>3. link' \in [Session -> LinkIs]
  BY <1>1, <1>2 DEF LinkIs
<1>4. QED
  BY <1>1, <1>2, <1>3 DEF Attached

LEMMA GrabStopKeeps == ASSUME GrabAll, GrabStop PROVE GrabAll'
<1>1. CloseAll /\ UNCHANGED <<token, running, endReported, worker, posted, helper, grab>>
  BY DEF GrabStop
<1>2. /\ link' \in [Session -> LinkIs] /\ server' = NULL /\ client' = NULL /\ NULL \notin Session
      /\ \A s \in Session : /\ link'[s] # "backlog" /\ (link[s] # "none" => link'[s] # "none")
                            /\ link'[s] = "open" => link[s] = "open" /\ worker[s] = "accepted"
  BY <1>1, CloseAllFacts
<1>3. GrabTypeOK'
  BY <1>1, <1>2 DEF GrabAll, GrabTypeOK
<1>4. Reported'
  BY <1>1 DEF GrabAll, GrabInv, Reported
<1>5. \A s \in Session : Grabbing(s)' /\ Attached(s)'
  BY <1>1, <1>2 DEF GrabAll, GrabInv, Grabbing, Attached
<1>6. QED
  BY <1>3, <1>4, <1>5 DEF GrabAll, GrabInv

LEMMA AcceptTimeoutKeeps == ASSUME GrabAll, NEW s \in Session, AcceptTimeout(s) PROVE GrabAll'
<1>1. /\ worker[s] = "accept" /\ server = s /\ server' = NULL /\ NULL \notin Session
      /\ link' = [link EXCEPT ![s] = IF @ = "backlog" THEN "closed" ELSE @]
      /\ UNCHANGED <<token, running, endReported, client, worker, posted, helper, grab>>
  BY GrabAssumption DEF AcceptTimeout, ctl, Session
<1>2. GrabTypeOK'
  BY <1>1 DEF GrabAll, GrabTypeOK, LinkIs
<1>3. Reported'
  BY <1>1 DEF GrabAll, GrabInv, Reported
<1>4. \A t \in Session : link'[t] = IF t = s /\ link[t] = "backlog" THEN "closed" ELSE link[t]
  BY <1>1 DEF GrabAll, GrabTypeOK
<1>5. \A t \in Session : Grabbing(t)' /\ Attached(t)'
  BY <1>1, <1>4 DEF GrabAll, GrabInv, Grabbing, Attached
<1>6. QED
  BY <1>2, <1>3, <1>5 DEF GrabAll, GrabInv

LEMMA MainPostKeeps == ASSUME GrabAll, MainPost PROVE GrabAll'
<1> DEFINE P == {"ready", "finish"} \X Session
<1>1. /\ posted # <<>> /\ posted' = Tail(posted) /\ posted \in Seq(P)
      /\ UNCHANGED <<token, server, client, worker, helper, link, grab>>
      /\ IF Head(posted)[1] = "ready" \/ endReported THEN UNCHANGED <<running, endReported>>
         ELSE running' = FALSE /\ endReported' = TRUE
      /\ Reported /\ running /\ ~endReported
  BY DEF MainPost, GrabAll, GrabTypeOK, GrabInv, Reported
<1>2. /\ Len(posted) \in Nat /\ Len(posted) > 0 /\ Tail(posted) \in Seq(P) /\ Len(Tail(posted)) = Len(posted) - 1
      /\ Head(posted) = posted[1] /\ posted[1] \in P /\ \A n \in 1..Len(posted) - 1 : Tail(posted)[n] = posted[n + 1]
  BY <1>1
<1>3. PICK l \in Nat : l = Len(posted) /\ l > 0
  BY <1>2
<1> HIDE DEF P
<1>4. GrabTypeOK'
  BY <1>1, <1>2 DEF GrabAll, GrabTypeOK, P
<1>5. \A n \in 1..l - 1 : posted'[n] = posted[n + 1] /\ n + 1 \in 1..l /\ (n + 1 = l => n = l - 1)
  <2>1. \A n \in 1..l - 1 : n + 1 \in 1..l /\ (n + 1 = l => n = l - 1)
    BY <1>3
  <2>2. QED
    BY <1>1, <1>2, <1>3, <2>1
<1>6. Len(posted') = l - 1 /\ \A n \in 1..l - 1 :
        posted'[n][1] = "finish" => n = l - 1 /\ \A s \in Session : s = token => worker[s] = "done"
  BY <1>1, <1>2, <1>3, <1>5 DEF Reported
<1>7. CASE Head(posted)[1] = "ready"
  <2>1. running' = running /\ endReported' = endReported
    BY <1>1, <1>7
  <2>2. Reported'
    BY <1>1, <1>6, <2>1 DEF Reported
  <2>3. \A s \in Session : Grabbing(s)' /\ Attached(s)'
    BY <1>1, <2>1 DEF GrabAll, GrabInv, Grabbing, Attached
  <2>4. QED
    BY <1>4, <2>2, <2>3 DEF GrabAll, GrabInv
<1>8. CASE Head(posted)[1] # "ready"
  <2>1. running' = FALSE /\ endReported' = TRUE /\ Head(posted)[1] = "finish"
    BY <1>1, <1>2, <1>8 DEF P
  <2>2. 1 = l /\ \A s \in Session : s = token => worker[s] = "done"
    <3>1. 1 \in 1..l
      BY <1>3
    <3>2. QED
      BY <1>1, <1>2, <1>3, <2>1, <3>1 DEF Reported
  <2>3. posted' = <<>>
    BY <1>1, <1>2, <1>3, <2>2
  <2>4. Reported'
    BY <1>1, <1>6, <2>1, <2>3 DEF Reported
  <2>5. \A s \in Session : Grabbing(s)' /\ Attached(s)'
    BY <1>1, <2>1, <2>2 DEF GrabAll, GrabInv, Grabbing, Attached
  <2>6. QED
    BY <1>4, <2>4, <2>5 DEF GrabAll, GrabInv
<1>9. QED
  BY <1>7, <1>8

LEMMA LaunchKeeps == ASSUME GrabAll, NEW s \in Session, Launch(s) PROVE GrabAll'
<1>1. /\ worker[s] = "launch" /\ UNCHANGED <<token, running, endReported, server, client, posted, link, grab>>
      /\ \/ helper' = [helper EXCEPT ![s] = "launched"] /\ worker' = [worker EXCEPT ![s] = "accept"]
         \/ helper' = helper /\ worker' = [worker EXCEPT ![s] = "finally"]
  BY DEF Launch, At, Goto, ctl
<1>2. GrabTypeOK'
  BY <1>1 DEF GrabAll, GrabTypeOK, WorkerAt, HelperAt
<1>3. \A t \in Session : IF t = s THEN worker'[t] \in {"accept", "finally"} /\ helper'[t] \in {"launched", helper[t]}
                         ELSE worker'[t] = worker[t] /\ helper'[t] = helper[t]
  BY <1>1 DEF GrabAll, GrabTypeOK
<1>4. \A t \in Session : Grabbing(t) /\ Attached(t)
  BY DEF GrabAll, GrabInv
<1>5. Reported'
  BY <1>1, <1>3, <1>4 DEF GrabAll, GrabInv, Reported, Attached
<1>6. \A t \in Session : Grabbing(t)'
  BY <1>1, <1>3, <1>4 DEF Grabbing, Attached, GrabAll, GrabTypeOK, Session
<1>7. \A t \in Session : Attached(t)'
  BY <1>1, <1>3, <1>4 DEF Attached
<1>8. QED
  BY <1>2, <1>5, <1>6, <1>7 DEF GrabAll, GrabInv

LEMMA AcceptHelperKeeps == ASSUME GrabAll, NEW s \in Session, AcceptHelper(s) PROVE GrabAll'
<1>1. /\ worker[s] = "accept" /\ UNCHANGED <<token, running, endReported, client, posted, helper, grab>>
      /\ \/ /\ link[s] = "backlog" /\ link' = [link EXCEPT ![s] = "open"] /\ server' = NULL
            /\ worker' = [worker EXCEPT ![s] = "accepted"]
         \/ server # s /\ worker' = [worker EXCEPT ![s] = "finally"] /\ link' = link /\ server' = server
  BY DEF AcceptHelper, At, Goto, ctl
<1>2. GrabTypeOK'
  BY <1>1 DEF GrabAll, GrabTypeOK, WorkerAt, LinkIs
<1>3. \A t \in Session : Grabbing(t) /\ Attached(t)
  BY DEF GrabAll, GrabInv
<1>4. NULL \notin Session
  BY GrabAssumption DEF Session
<1>5. /\ \A t \in Session : t # s => worker'[t] = worker[t] /\ link'[t] = link[t]
      /\ \/ link[s] = "backlog" /\ link'[s] = "open" /\ worker'[s] = "accepted" /\ server' = NULL /\ server = s
         \/ link'[s] = link[s] /\ worker'[s] = "finally" /\ server' = server /\ server # s
  BY <1>1, <1>3 DEF GrabAll, GrabTypeOK, Attached
<1>6. Reported'
  BY <1>1, <1>3, <1>5 DEF GrabAll, GrabInv, Reported, Attached
<1>7. \A t \in Session : Grabbing(t)'
  BY <1>1, <1>3, <1>5 DEF Grabbing
<1>8. \A t \in Session : Attached(t)'
  BY <1>1, <1>3, <1>4, <1>5 DEF Attached
<1>9. QED
  BY <1>2, <1>6, <1>7, <1>8 DEF GrabAll, GrabInv

LEMMA SetClientKeeps == ASSUME GrabAll, NEW s \in Session, SetClient(s) PROVE GrabAll'
<1>1. /\ worker[s] = "accepted" /\ UNCHANGED <<token, running, endReported, server, posted, helper, link, grab>>
      /\ client' = s /\ worker' = [worker EXCEPT ![s] = "check"]
  BY DEF SetClient, At, Goto, ctl
<1>2. GrabTypeOK'
  BY <1>1 DEF GrabAll, GrabTypeOK, WorkerAt
<1>3. \A t \in Session : Grabbing(t) /\ Attached(t)
  BY DEF GrabAll, GrabInv
<1>4. worker'[s] = "check" /\ \A t \in Session : t # s => worker'[t] = worker[t]
  BY <1>1 DEF GrabAll, GrabTypeOK
<1>5. Reported'
  BY <1>1, <1>3, <1>4 DEF GrabAll, GrabInv, Reported, Attached
<1>6. \A t \in Session : Grabbing(t)'
  BY <1>1, <1>3, <1>4 DEF Grabbing
<1>7. \A t \in Session : Attached(t)'
  BY <1>1, <1>3, <1>4 DEF Attached
<1>8. QED
  BY <1>2, <1>5, <1>6, <1>7 DEF GrabAll, GrabInv

LEMMA CheckStoppingKeeps == ASSUME GrabAll, NEW s \in Session, CheckStopping(s) PROVE GrabAll'
<1>1. /\ worker[s] = "check" /\ UNCHANGED <<token, running, endReported, server, client, posted, helper, link, grab>>
      /\ worker' = [worker EXCEPT ![s] = IF stopping THEN "finally" ELSE "read"]
  BY DEF CheckStopping, At, Goto, ctl
<1>2. GrabTypeOK'
  BY <1>1 DEF GrabAll, GrabTypeOK, WorkerAt
<1>3. \A t \in Session : Grabbing(t) /\ Attached(t)
  BY DEF GrabAll, GrabInv
<1>4. worker'[s] \in {"finally", "read"} /\ \A t \in Session : t # s => worker'[t] = worker[t]
  BY <1>1 DEF GrabAll, GrabTypeOK
<1>5. Reported'
  BY <1>1, <1>3, <1>4 DEF GrabAll, GrabInv, Reported, Attached
<1>6. \A t \in Session : Grabbing(t)'
  BY <1>1, <1>3, <1>4 DEF Grabbing
<1>7. \A t \in Session : Attached(t)'
  BY <1>1, <1>3, <1>4 DEF Attached
<1>8. QED
  BY <1>2, <1>5, <1>6, <1>7 DEF GrabAll, GrabInv

\* Posts that a worker adds before it is done: none reports the end yet.
LEMMA PostFacts ==
  ASSUME GrabAll, NEW s \in Session, worker[s] \notin {"none", "done"}, NEW kind \in {"ready", "finish"}
  PROVE  /\ Append(posted, <<kind, s>>) \in Seq({"ready", "finish"} \X Session)
         /\ Len(Append(posted, <<kind, s>>)) = Len(posted) + 1
         /\ \A n \in 1..Len(posted) + 1 :
              Append(posted, <<kind, s>>)[n][1] = "finish" => n = Len(posted) + 1 /\ kind = "finish"
<1> DEFINE P == {"ready", "finish"} \X Session
           e == <<kind, s>>
<1>1. posted \in Seq(P) /\ e \in P /\ e[1] = kind /\ Reported /\ s = token
  BY DEF GrabAll, GrabTypeOK, GrabInv, Attached
<1>2. \A n \in 1..Len(posted) : posted[n][1] # "finish"
  BY <1>1 DEF Reported
<1> HIDE DEF P, e
<1>3. /\ Append(posted, e) \in Seq(P) /\ Len(posted) \in Nat /\ Len(Append(posted, e)) = Len(posted) + 1
      /\ Append(posted, e)[Len(posted) + 1] = e /\ \A n \in 1..Len(posted) : Append(posted, e)[n] = posted[n]
  BY <1>1
<1>4. \A l \in Nat : \A n \in 1..l + 1 : n \in 1..l \/ n = l + 1
  OBVIOUS
<1>5. \A n \in 1..Len(posted) + 1 : Append(posted, e)[n][1] = "finish" => n = Len(posted) + 1 /\ kind = "finish"
  BY <1>1, <1>2, <1>3, <1>4
<1>6. QED
  BY <1>3, <1>5 DEF P, e

LEMMA ReadLoopKeeps == ASSUME GrabAll, NEW s \in Session, ReadLoop(s) PROVE GrabAll'
<1>1. /\ worker[s] = "read" /\ UNCHANGED <<token, running, endReported, server, client, helper, link, grab>>
      /\ \/ posted' = Append(posted, <<"ready", s>>) /\ worker' = worker
         \/ posted' = posted /\ worker' = [worker EXCEPT ![s] = "finally"]
  BY DEF ReadLoop, At, Goto, ctl
<1>2. \A t \in Session : Grabbing(t) /\ Attached(t)
  BY DEF GrabAll, GrabInv
<1>3. CASE posted' = Append(posted, <<"ready", s>>) /\ worker' = worker
  <2>1. /\ posted' \in Seq({"ready", "finish"} \X Session) /\ Len(posted') = Len(posted) + 1
        /\ \A n \in 1..Len(posted) + 1 : posted'[n][1] # "finish"
    BY <1>1, <1>3, PostFacts
  <2>2. GrabTypeOK'
    BY <1>1, <1>3, <2>1 DEF GrabAll, GrabTypeOK
  <2>3. Reported'
    BY <1>1, <1>2, <2>1 DEF GrabAll, GrabInv, Reported, Attached
  <2>4. \A t \in Session : Grabbing(t)' /\ Attached(t)'
    BY <1>1, <1>2, <1>3 DEF Grabbing, Attached
  <2>5. QED
    BY <2>2, <2>3, <2>4 DEF GrabAll, GrabInv
<1>4. CASE posted' = posted /\ worker' = [worker EXCEPT ![s] = "finally"]
  <2>1. worker'[s] = "finally" /\ \A t \in Session : t # s => worker'[t] = worker[t]
    BY <1>4 DEF GrabAll, GrabTypeOK
  <2>2. GrabTypeOK'
    BY <1>1, <1>4 DEF GrabAll, GrabTypeOK, WorkerAt
  <2>3. Reported'
    BY <1>1, <1>2, <1>4, <2>1 DEF GrabAll, GrabInv, Reported, Attached
  <2>4. \A t \in Session : Grabbing(t)'
    BY <1>1, <1>2, <2>1 DEF Grabbing
  <2>5. \A t \in Session : Attached(t)'
    BY <1>1, <1>2, <2>1 DEF Attached
  <2>6. QED
    BY <2>2, <2>3, <2>4, <2>5 DEF GrabAll, GrabInv
<1>5. QED
  BY <1>1, <1>3, <1>4

LEMMA FinallyCloseKeeps == ASSUME GrabAll, NEW s \in Session, FinallyClose(s) PROVE GrabAll'
<1>1. /\ worker[s] = "finally" /\ CloseAll /\ worker' = [worker EXCEPT ![s] = "kill"]
      /\ UNCHANGED <<token, running, endReported, posted, helper, grab>>
  BY DEF FinallyClose, At, Goto, ctl
<1>2. /\ link' \in [Session -> LinkIs] /\ server' = NULL /\ client' = NULL /\ NULL \notin Session
      /\ \A t \in Session : /\ link'[t] # "backlog" /\ (link[t] # "none" => link'[t] # "none")
                            /\ link'[t] = "open" => link[t] = "open" /\ worker[t] = "accepted"
  BY <1>1, CloseAllFacts
<1>3. \A t \in Session : Grabbing(t) /\ Attached(t)
  BY DEF GrabAll, GrabInv
<1>4. worker'[s] = "kill" /\ \A t \in Session : t # s => worker'[t] = worker[t]
  BY <1>1 DEF GrabAll, GrabTypeOK
<1>5. GrabTypeOK'
  BY <1>1, <1>2 DEF GrabAll, GrabTypeOK, WorkerAt
<1>6. Reported'
  BY <1>1, <1>3, <1>4 DEF GrabAll, GrabInv, Reported, Attached
<1>7. \A t \in Session : Grabbing(t)'
  BY <1>1, <1>2, <1>3, <1>4 DEF Grabbing
<1>8. \A t \in Session : Attached(t)'
  BY <1>1, <1>2, <1>3, <1>4 DEF Attached
<1>9. QED
  BY <1>5, <1>6, <1>7, <1>8 DEF GrabAll, GrabInv

LEMMA FinallyReportKeeps == ASSUME GrabAll, NEW s \in Session, FinallyReport(s) PROVE GrabAll'
<1>1. /\ worker[s] = "kill" /\ worker' = [worker EXCEPT ![s] = "done"] /\ posted' = Append(posted, <<"finish", s>>)
      /\ UNCHANGED <<token, running, endReported, server, client, helper, link, grab>>
  BY DEF FinallyReport, At, Goto, ctl
<1>2. /\ posted' \in Seq({"ready", "finish"} \X Session) /\ Len(posted') = Len(posted) + 1
      /\ \A n \in 1..Len(posted) + 1 : posted'[n][1] = "finish" => n = Len(posted) + 1
  BY <1>1, PostFacts
<1>3. \A t \in Session : Grabbing(t) /\ Attached(t)
  BY DEF GrabAll, GrabInv
<1>4. worker'[s] = "done" /\ \A t \in Session : t # s => worker'[t] = worker[t]
  BY <1>1 DEF GrabAll, GrabTypeOK
<1>5. GrabTypeOK'
  BY <1>1, <1>2 DEF GrabAll, GrabTypeOK, WorkerAt
<1>6. running /\ s = token
  BY <1>1, <1>3 DEF Attached
<1>7. Reported'
  BY <1>1, <1>2, <1>4, <1>6 DEF GrabAll, GrabInv, Reported
<1>8. \A t \in Session : Grabbing(t)'
  BY <1>1, <1>3, <1>4 DEF Grabbing
<1>9. \A t \in Session : Attached(t)'
  BY <1>1, <1>3, <1>4 DEF Attached
<1>10. QED
  BY <1>5, <1>7, <1>8, <1>9 DEF GrabAll, GrabInv

\* The app's side stands still while a helper moves.
AppSide == <<token, running, endReported, server, client, worker, posted>>

LEMMA HelperSteps ==
  ASSUME GrabAll, NEW s \in Session, UNCHANGED AppSide,
         link' \in [Session -> LinkIs], helper' \in [Session -> HelperAt], grab' \in [Node -> Session \cup {NULL}],
         \A t \in Session : link'[t] = link[t] \/ (t = s /\ link'[t] = "backlog" /\ server = t),
         \A t \in Session : t # s => helper'[t] = helper[t],
         \A t \in Session, n \in Node : grab'[n] = t => grab[n] = t \/ t = s,
         helper'[s] \in {"hello", "loop"} \/ \A n \in Node : grab'[n] # s,
         helper'[s] \in {"scan", "hello", "loop"} => link'[s] # "none",
         s > token \/ worker[s] = "launch" => helper'[s] = "none"
  PROVE  GrabAll'
<1>1. /\ token' = token /\ running' = running /\ endReported' = endReported /\ server' = server
      /\ client' = client /\ worker' = worker /\ posted' = posted
  BY DEF AppSide
<1>2. GrabTypeOK'
  BY <1>1 DEF GrabAll, GrabTypeOK
<1>3. Reported'
  BY <1>1 DEF GrabAll, GrabInv, Reported
<1>4. \A t \in Session : Grabbing(t) /\ Attached(t)
  BY DEF GrabAll, GrabInv
<1>5. \A t \in Session : Attached(t)'
  BY <1>1, <1>4 DEF Attached
<1>6. \A t \in Session : Grabbing(t)'
  <2>1. SUFFICES ASSUME NEW t \in Session PROVE Grabbing(t)'
    OBVIOUS
  <2>2. CASE t = s
    BY <1>1, <1>4, <2>2 DEF Grabbing
  <2>3. CASE t # s
    BY <1>1, <1>4, <2>3 DEF Grabbing
  <2>4. QED
    BY <2>2, <2>3
<1>7. QED
  BY <1>2, <1>3, <1>5, <1>6 DEF GrabAll, GrabInv

LEMMA LetGoKeeps ==
  ASSUME GrabAll, NEW s \in Session, NEW pc \in {"bye", "dead"}, LetGo(s, pc), UNCHANGED AppSide, link' = link,
         helper[s] # "none"
  PROVE  GrabAll'
<1>1. grab' = [n \in Node |-> IF grab[n] = s THEN NULL ELSE grab[n]] /\ helper' = [helper EXCEPT ![s] = pc]
  BY DEF LetGo, Released
<1>2. GrabTypeOK /\ Grabbing(s) /\ NULL \notin Session
  BY GrabAssumption DEF GrabAll, GrabInv, Session
<1>3. /\ link' \in [Session -> LinkIs] /\ helper' \in [Session -> HelperAt] /\ grab' \in [Node -> Session \cup {NULL}]
      /\ helper'[s] = pc /\ \A t \in Session : t # s => helper'[t] = helper[t]
  BY <1>1, <1>2 DEF GrabTypeOK, HelperAt
<1>4. \A n \in Node : grab'[n] # s /\ \A t \in Session : grab'[n] = t => grab[n] = t
  BY <1>1, <1>2
<1>5. ~(s > token \/ worker[s] = "launch")
  BY <1>2 DEF Grabbing
<1>6. \A t \in Session : link'[t] = link[t]
  OBVIOUS
<1>7. \A t \in Session, n \in Node : grab'[n] = t => grab[n] = t \/ t = s
  BY <1>4
<1>8. QED
  BY <1>3, <1>4, <1>5, <1>6, <1>7, HelperSteps

LEMMA ConnectKeeps == ASSUME GrabAll, NEW s \in Session, Connect(s) PROVE GrabAll'
<1>1. /\ helper[s] = "launched" /\ UNCHANGED AppSide /\ grab' = grab
      /\ \/ server = s /\ link' = [link EXCEPT ![s] = "backlog"] /\ helper' = [helper EXCEPT ![s] = "scan"]
         \/ helper' = [helper EXCEPT ![s] = "dead"] /\ link' = link
  BY DEF Connect, AppSide, ctl
<1>2. GrabTypeOK /\ Grabbing(s) /\ Attached(s)
  BY DEF GrabAll, GrabInv
<1>3. /\ link' \in [Session -> LinkIs] /\ helper' \in [Session -> HelperAt] /\ grab' \in [Node -> Session \cup {NULL}]
      /\ \A t \in Session : t # s => helper'[t] = helper[t]
      /\ \A t \in Session : link'[t] = link[t] \/ (t = s /\ link'[t] = "backlog" /\ server = t)
      /\ helper'[s] \in {"scan", "dead"} /\ (helper'[s] = "scan" => link'[s] = "backlog")
  BY <1>1, <1>2 DEF GrabTypeOK, HelperAt, LinkIs
<1>4. ~(s > token \/ worker[s] = "launch") /\ \A n \in Node : grab'[n] # s
  BY <1>1, <1>2 DEF Grabbing
<1>5. \A t \in Session, n \in Node : grab'[n] = t => grab[n] = t \/ t = s
  BY <1>1
<1>6. QED
  BY <1>1, <1>3, <1>4, <1>5, HelperSteps

LEMMA ScanKeeps == ASSUME GrabAll, NEW s \in Session, ScanDevices(s) PROVE GrabAll'
<1>1. /\ helper[s] = "scan" /\ UNCHANGED AppSide /\ link' = link
      /\ grab' = [n \in Node |-> IF grab[n] = NULL THEN s ELSE grab[n]]
      /\ helper' = [helper EXCEPT ![s] = IF \E n \in Node : grab'[n] = s THEN "hello" ELSE "bye"]
  BY DEF ScanDevices, AppSide, ctl
<1>2. GrabTypeOK /\ Grabbing(s)
  BY DEF GrabAll, GrabInv
<1>3. /\ link' \in [Session -> LinkIs] /\ helper' \in [Session -> HelperAt] /\ grab' \in [Node -> Session \cup {NULL}]
      /\ \A t \in Session : t # s => helper'[t] = helper[t]
      /\ helper'[s] = IF \E n \in Node : grab'[n] = s THEN "hello" ELSE "bye"
  BY <1>1, <1>2 DEF GrabTypeOK, HelperAt
<1>4. ~(s > token \/ worker[s] = "launch") /\ link'[s] # "none"
  BY <1>1, <1>2 DEF Grabbing
<1>5. \A t \in Session, n \in Node : grab'[n] = t => grab[n] = t \/ t = s
  BY <1>1
<1>6. helper'[s] \in {"hello", "loop"} \/ \A n \in Node : grab'[n] # s
  BY <1>3
<1>7. \A t \in Session : link'[t] = link[t]
  BY <1>1
<1>8. QED
  BY <1>1, <1>3, <1>4, <1>5, <1>6, <1>7, HelperSteps

LEMMA HelloKeeps == ASSUME GrabAll, NEW s \in Session, SendDeviceList(s) PROVE GrabAll'
<1>1. /\ helper[s] = "hello" /\ UNCHANGED AppSide /\ link' = link
      /\ \/ helper' = [helper EXCEPT ![s] = "loop"] /\ grab' = grab
         \/ LetGo(s, "dead")
  BY DEF SendDeviceList, AppSide, ctl
<1>2. CASE LetGo(s, "dead")
  BY <1>1, <1>2, LetGoKeeps
<1>3. CASE helper' = [helper EXCEPT ![s] = "loop"] /\ grab' = grab
  <2>1. GrabTypeOK /\ Grabbing(s)
    BY DEF GrabAll, GrabInv
  <2>2. /\ link' \in [Session -> LinkIs] /\ helper' \in [Session -> HelperAt] /\ grab' \in [Node -> Session \cup {NULL}]
        /\ \A t \in Session : t # s => helper'[t] = helper[t]
        /\ helper'[s] = "loop"
    BY <1>1, <1>3, <2>1 DEF GrabTypeOK, HelperAt
  <2>3. ~(s > token \/ worker[s] = "launch") /\ link'[s] # "none"
    BY <1>1, <2>1 DEF Grabbing
  <2>4. \A t \in Session : link'[t] = link[t]
    BY <1>1
  <2>5. \A t \in Session, n \in Node : grab'[n] = t => grab[n] = t \/ t = s
    BY <1>3
  <2>6. QED
    BY <1>1, <2>2, <2>3, <2>4, <2>5, HelperSteps
<1>4. QED
  BY <1>1, <1>2, <1>3

LEMMA ByeKeeps == ASSUME GrabAll, NEW s \in Session, SendBye(s) PROVE GrabAll'
<1>1. /\ helper[s] = "bye" /\ UNCHANGED AppSide /\ link' = link /\ grab' = grab
      /\ helper' = [helper EXCEPT ![s] = "dead"]
  BY DEF SendBye, AppSide, ctl
<1>2. GrabTypeOK /\ Grabbing(s)
  BY DEF GrabAll, GrabInv
<1>3. /\ link' \in [Session -> LinkIs] /\ helper' \in [Session -> HelperAt] /\ grab' \in [Node -> Session \cup {NULL}]
      /\ \A t \in Session : t # s => helper'[t] = helper[t]
      /\ helper'[s] = "dead"
  BY <1>1, <1>2 DEF GrabTypeOK, HelperAt
<1>4. ~(s > token \/ worker[s] = "launch") /\ \A n \in Node : grab'[n] # s
  BY <1>1, <1>2 DEF Grabbing
<1>5. \A t \in Session : link'[t] = link[t]
  BY <1>1
<1>6. \A t \in Session, n \in Node : grab'[n] = t => grab[n] = t \/ t = s
  BY <1>1
<1>7. QED
  BY <1>1, <1>3, <1>4, <1>5, <1>6, HelperSteps

LEMMA PkillKeeps == ASSUME GrabAll, NEW s \in Session, Pkill(s) PROVE GrabAll'
<1>1. /\ UNCHANGED AppSide /\ link' = link
      /\ IF helper[s] = "none" THEN helper' = helper /\ grab' = grab ELSE LetGo(s, "dead")
  BY DEF Pkill, AppSide, ctl
<1>2. CASE helper[s] # "none"
  BY <1>1, <1>2, LetGoKeeps
<1>3. CASE helper[s] = "none"
  BY <1>1, <1>3 DEF AppSide, GrabAll, GrabTypeOK, GrabInv, Reported, Grabbing, Attached
<1>4. QED
  BY <1>2, <1>3

LEMMA LeaveKeeps ==
  ASSUME GrabAll, NEW s \in Session, PeerGone(s) \/ Silence(s) \/ EndLoop(s), UNCHANGED AppSide, link' = link
  PROVE  GrabAll'
<1>1. LetGo(s, "bye") /\ helper[s] = "loop"
  BY DEF PeerGone, Silence, EndLoop
<1>2. QED
  BY <1>1, LetGoKeeps

LEMMA GrabSteps == ASSUME GrabAll, GrabNext PROVE GrabAll'
<1>1. CASE GrabStart \/ GrabStop \/ MainPost
  BY <1>1, GrabStartKeeps, GrabStopKeeps, MainPostKeeps
<1>2. ASSUME NEW s \in Session, DelayedKill(s)
      PROVE  GrabAll'
  BY <1>2 DEF DelayedKill, ctl, GrabAll, GrabTypeOK, GrabInv, Reported, Grabbing, Attached
<1>3. ASSUME NEW s \in Session, Worker(s)
      PROVE  GrabAll'
  BY <1>3, LaunchKeeps, AcceptHelperKeeps, SetClientKeeps, CheckStoppingKeeps, ReadLoopKeeps,
     FinallyCloseKeeps, FinallyReportKeeps DEF Worker
<1>4. ASSUME NEW s \in Session,
             LeaveLoop(s, PeerGone) \/ LeaveLoop(s, Silence) \/ LeaveLoop(s, EndLoop)
      PROVE  GrabAll'
  <2>1. (PeerGone(s) \/ Silence(s) \/ EndLoop(s)) /\ UNCHANGED AppSide /\ link' = link
    BY <1>4 DEF LeaveLoop, AppSide, ctl
  <2>2. QED
    BY <2>1, LeaveKeeps
<1>5. ASSUME NEW s \in Session, HelperStep(s)
      PROVE  GrabAll'
  BY <1>4, <1>5, ConnectKeeps, ScanKeeps, HelloKeeps, ByeKeeps DEF HelperStep
<1>6. ASSUME NEW s \in Session, AcceptTimeout(s) \/ Pkill(s)
      PROVE  GrabAll'
  BY <1>6, AcceptTimeoutKeeps, PkillKeeps
<1>7. QED
  BY <1>1, <1>2, <1>3, <1>4, <1>5, <1>6 DEF GrabNext

LEMMA GrabStarts == ASSUME Init PROVE GrabAll
<1>1. /\ token = 0 /\ running = FALSE /\ endReported = FALSE /\ server = NULL /\ client = NULL
      /\ worker = [s \in Session |-> "none"] /\ posted = <<>> /\ helper = [s \in Session |-> "none"]
      /\ link = [s \in Session |-> "none"] /\ grab = [n \in Node |-> NULL] /\ NULL \notin Session
  BY GrabAssumption DEF Init, GrabInit, Session
<1>2. GrabTypeOK
  <2>1. 0 \in 0..MaxSessions /\ <<>> \in Seq({"ready", "finish"} \X Session)
    BY GrabAssumption
  <2>2. QED
    BY <1>1, <2>1 DEF GrabTypeOK, WorkerAt, HelperAt, LinkIs
<1>3. Reported
  BY <1>1 DEF Reported
<1>4. \A s \in Session : Grabbing(s) /\ Attached(s)
  BY <1>1 DEF Grabbing, Attached
<1>5. QED
  BY <1>2, <1>3, <1>4 DEF GrabAll, GrabInv

LEMMA GrabStays == ASSUME GrabAll, UNCHANGED grabVars PROVE GrabAll'
BY DEF grabVars, ctl, GrabAll, GrabTypeOK, GrabInv, Reported, Grabbing, Attached

\* Input nodes are grabbed by connected helpers, and listener, connection and worker belong
\* to the session that runs (InputGrab.java, run; input_grab.c, main).
THEOREM GrabAlways == Spec => []GrabAll
<1>1. GrabAll /\ [Next]_vars => GrabAll'
  <2>1. SUFFICES ASSUME GrabAll, [Next]_vars PROVE GrabAll'
    OBVIOUS
  <2>2. GrabNext \/ UNCHANGED grabVars
    BY <2>1 DEF Next, vars
  <2>3. QED
    BY <2>1, <2>2, GrabSteps, GrabStays
<1>2. QED
  BY <1>1, GrabStarts, PTL DEF Spec

\* What holds the input is read by the app, or is told by its closed socket to let go.
LEMMA NoOrphans == GrabAll => NoOrphanGrab
<1>1. SUFFICES ASSUME GrabAll, NEW s \in Session, NEW n \in Node, grab[n] = s, link[s] # "closed"
               PROVE  s = token /\ running
  BY DEF NoOrphanGrab, Holds, Current
<1>2. link[s] \in {"backlog", "open"} /\ Attached(s)
  BY <1>1 DEF GrabAll, GrabTypeOK, LinkIs, GrabInv, Grabbing
<1>3. QED
  BY <1>2 DEF Attached

-----------------------------------------------------------------------------
(* The gamepad: what a bridge, its connection and its device have to do with  *)
(* each other.                                                             *)

RunnerAt == {"none", "bind", "exec", "own", "accept", "join", "finally", "done"}
Early    == {"none", "create", "find", "inject", "connect"}
PadAt    == Early \cup {"loop", "remove", "destroy", "dead"}
Buttons  == SUBSET Control
Wires    == [link : LinkIs, sent : Seq(Buttons)]
Fields   == [server : Bridge \cup {NoOne}, client : Bridge \cup {NoOne}, helper : Bridge \cup {NoOne},
             state : Buttons]
Overlays == [on : BOOLEAN, at : UNION {[F -> Control] : F \in SUBSET Finger}, held : Buttons]

PadTypeOK ==
  /\ view \in [Window -> Overlays] /\ gen \in Bridge \cup {NoOne} /\ started \in 0..MaxBridges
  /\ fields \in Fields /\ runner \in [Bridge -> RunnerAt] /\ listening \subseteq Bridge
  /\ wire \in [Bridge -> Wires] /\ pad \in [Bridge -> PadAt] /\ plays \in [Bridge -> Buttons]

\* The state that the device will be in when all that was sent is played.
Said(b) == IF wire[b].sent = <<>> THEN plays[b] ELSE Last(wire[b].sent)

\* A helper connects before it plays; a connection is the generation's, or is closed by
\* whoever finds that it is not; what the client was sent last is the state of now.
Wired(b) ==
  /\ b > started => runner[b] = "none"
  /\ runner[b] \in {"none", "bind", "exec"} => pad[b] = "none"
  /\ pad[b] \in Early => wire[b].link = "none"
  /\ pad[b] = "loop" => wire[b].link # "none"
  /\ wire[b].link = "backlog" => b \in listening
  /\ wire[b].link = "open" => fields.client = b \/ runner[b] = "join"
  /\ runner[b] = "join" => wire[b].link \in {"open", "closed"}
  /\ wire[b].link \in {"none", "backlog"} => wire[b].sent = <<>> /\ plays[b] = {}
  /\ plays[b] # {} => pad[b] = "loop"
  /\ b \in listening => fields.server = b
  /\ fields.server = b => gen = b
  /\ fields.client = b => gen = b /\ wire[b].link = "open"
  /\ fields.client = b /\ pad[b] = "loop" => Said(b) = fields.state

\* A control that is held has a finger on it; the state of now is that of an overlay.
Touches(v) == {v.at[f] : f \in DOMAIN v.at}
Shown ==
  /\ \A w \in Window : view[w].held \subseteq Touches(view[w])
  /\ fields.state # {} => \E w \in Window : view[w].held = fields.state

PadAll == PadTypeOK /\ Shown /\ \A b \in Bridge : Wired(b)

LEMMA NoOneElse == NoOne \notin Bridge /\ \A b \in Bridge : b \in 1..MaxBridges /\ b \in Nat
BY GamepadAssumption DEF Bridge

LEMMA Appended ==
  ASSUME NEW S, NEW s \in Seq(S), NEW e \in S
  PROVE  Append(s, e) \in Seq(S) /\ Append(s, e) # <<>> /\ Last(Append(s, e)) = e
<1>1. Append(s, e) \in Seq(S) /\ Len(s) \in Nat /\ Len(Append(s, e)) = Len(s) + 1 /\ Append(s, e)[Len(s) + 1] = e
  OBVIOUS
<1>2. Append(s, e) # <<>>
  <2>1. Len(<<>>) = 0
    OBVIOUS
  <2>2. Len(Append(s, e)) # 0
    BY <1>1
  <2>3. QED
    BY <2>1, <2>2
<1>3. QED
  BY <1>1, <1>2 DEF Last

\* A packet goes to a client that lives; a client that does not is given up.
LEMMA WriteFacts ==
  ASSUME PadTypeOK, NEW f \in Fields, NEW packet \in Buttons, WritePacket(f, packet)
  PROVE  /\ fields' \in Fields /\ wire' \in [Bridge -> Wires]
         /\ fields'.server = f.server /\ fields'.state = f.state
         /\ \A b \in Bridge : b # f.client => wire'[b] = wire[b]
         /\ \/ /\ f.client \in Bridge /\ wire[f.client].link = "open" /\ fields'.client = f.client
               /\ wire'[f.client].link = "open" /\ wire'[f.client].sent = Append(wire[f.client].sent, packet)
            \/ /\ fields'.client = NoOne
               /\ f.client \in Bridge => /\ wire'[f.client].link = "closed"
                                         /\ wire'[f.client].sent = wire[f.client].sent
<1>1. f.client \in Bridge \cup {NoOne} /\ NoOne \notin Bridge /\ wire \in [Bridge -> Wires]
  BY NoOneElse DEF Fields, PadTypeOK
<1>2. CASE Reached(f.client)
  <2>1. fields' = f /\ wire' = [wire EXCEPT ![f.client].sent = Append(@, packet)] /\ f.client \in Bridge
        /\ wire[f.client].link = "open"
    BY <1>1, <1>2 DEF WritePacket, Reached
  <2>2. wire[f.client].sent \in Seq(Buttons) /\ wire[f.client] \in Wires
    BY <1>1, <2>1 DEF Wires
  <2>3. Append(wire[f.client].sent, packet) \in Seq(Buttons)
    BY <2>2, Appended
  <2> DEFINE s == Append(wire[f.client].sent, packet)
             c == f.client
  <2>4. wire' = [wire EXCEPT ![c] = [wire[c] EXCEPT !.sent = s]]
    BY <1>1, <2>1
  <2>5. s \in Seq(Buttons) /\ c \in Bridge /\ wire[c] \in Wires
    BY <2>1, <2>2, <2>3
  <2> HIDE DEF s, c
  <2>6. [wire[c] EXCEPT !.sent = s] \in Wires /\ [wire[c] EXCEPT !.sent = s].link = wire[c].link
        /\ [wire[c] EXCEPT !.sent = s].sent = s
    BY <2>5 DEF Wires
  <2>7. /\ wire' \in [Bridge -> Wires] /\ wire'[c].link = wire[c].link /\ wire'[c].sent = s
        /\ \A b \in Bridge : b # c => wire'[b] = wire[b]
    BY <1>1, <2>4, <2>5, <2>6
  <2>8. QED
    BY <2>1, <2>7 DEF s, c
<1>3. CASE ~Reached(f.client)
  <2>1. fields' = [f EXCEPT !.client = NoOne] /\ wire' = ClosedClient(f.client, wire)
    BY <1>3 DEF WritePacket
  <2>2. fields' \in Fields /\ fields'.server = f.server /\ fields'.state = f.state /\ fields'.client = NoOne
    BY <2>1 DEF Fields
  <2>3. CASE f.client = NoOne
    BY <1>1, <2>1, <2>2, <2>3 DEF ClosedClient
  <2>4. CASE f.client # NoOne
    <3> DEFINE c == f.client
    <3>1. c \in Bridge /\ wire' = [wire EXCEPT ![c] = [wire[c] EXCEPT !.link = "closed"]] /\ wire[c] \in Wires
      BY <1>1, <2>1, <2>4 DEF ClosedClient
    <3> HIDE DEF c
    <3>2. [wire[c] EXCEPT !.link = "closed"] \in Wires /\ [wire[c] EXCEPT !.link = "closed"].link = "closed"
          /\ [wire[c] EXCEPT !.link = "closed"].sent = wire[c].sent
      BY <3>1 DEF Wires, LinkIs
    <3>3. /\ wire' \in [Bridge -> Wires] /\ wire'[c].link = "closed" /\ wire'[c].sent = wire[c].sent
          /\ \A b \in Bridge : b # c => wire'[b] = wire[b]
      BY <1>1, <3>1, <3>2
    <3>4. QED
      BY <2>2, <3>3 DEF c
  <2>5. QED
    BY <2>3, <2>4
<1>4. QED
  BY <1>2, <1>3

\* The overlay's new state.
LEMMA SendKeeps ==
  ASSUME PadTypeOK, \A b \in Bridge : Wired(b), NEW s \in Buttons, SendState(s),
         UNCHANGED <<gen, started, runner, listening, pad, plays>>
  PROVE  fields' \in Fields /\ wire' \in [Bridge -> Wires] /\ fields'.state = s /\ \A b \in Bridge : Wired(b)'
<1>1. CASE s = fields.state
  BY <1>1 DEF SendState, PadTypeOK, Wired, Said
<1>2. CASE s # fields.state
  <2> DEFINE f == [fields EXCEPT !.state = s]
  <2>1. WritePacket(f, s)
    BY <1>2 DEF SendState
  <2>2. f \in Fields /\ f.client = fields.client /\ f.server = fields.server /\ f.state = s
    BY DEF PadTypeOK, Fields
  <2> HIDE DEF f
  <2>3. /\ fields' \in Fields /\ wire' \in [Bridge -> Wires]
        /\ fields'.server = f.server /\ fields'.state = f.state
        /\ \A b \in Bridge : b # f.client => wire'[b] = wire[b]
        /\ \/ /\ f.client \in Bridge /\ wire[f.client].link = "open" /\ fields'.client = f.client
              /\ wire'[f.client].link = "open" /\ wire'[f.client].sent = Append(wire[f.client].sent, s)
           \/ /\ fields'.client = NoOne
              /\ f.client \in Bridge => /\ wire'[f.client].link = "closed"
                                        /\ wire'[f.client].sent = wire[f.client].sent
    BY <2>1, <2>2, WriteFacts
  <2>4. ASSUME NEW b \in Bridge PROVE Wired(b)'
    <3>1. Wired(b) /\ b # NoOne /\ wire[b].sent \in Seq(Buttons)
      BY NoOneElse DEF PadTypeOK, Wires
    <3>2. CASE b # fields.client
      BY <2>2, <2>3, <3>1, <3>2 DEF Wired, Said
    <3>3. CASE b = fields.client /\ fields'.client = NoOne
      BY <2>2, <2>3, <3>1, <3>3 DEF Wired
    <3>4. CASE b = fields.client /\ fields'.client # NoOne
      <4>1. wire'[b].link = "open" /\ wire[b].link = "open" /\ wire'[b].sent = Append(wire[b].sent, s)
            /\ fields'.client = b
        BY <2>2, <2>3, <3>4
      <4>2. wire'[b].sent # <<>> /\ Last(wire'[b].sent) = s
        BY <3>1, <4>1, Appended
      <4>3. Said(b)' = fields'.state
        BY <2>2, <2>3, <4>2 DEF Said
      <4>4. QED
        BY <2>2, <2>3, <3>1, <4>1, <4>3 DEF Wired
    <3>5. QED
      BY <3>2, <3>3, <3>4
  <2>5. QED
    BY <2>2, <2>3, <2>4
<1>3. QED
  BY <1>1, <1>2

\* Neither server nor client is left.
LEMMA StopFacts ==
  ASSUME PadTypeOK, \A b \in Bridge : Wired(b), NEW s \in Buttons, StopLocked(s)
  PROVE  /\ fields' \in Fields /\ wire' \in [Bridge -> Wires] /\ listening' = {}
         /\ fields'.server = NoOne /\ fields'.client = NoOne /\ fields'.state = {}
         /\ \A b \in Bridge : /\ wire'[b].link \in {wire[b].link, "closed"} /\ wire'[b].link # "backlog"
                              /\ wire[b].link = "none" => wire'[b] = wire[b]
                              /\ wire'[b].link = "open" => wire[b].link = "open" /\ runner[b] = "join"
<1> DEFINE c == fields.client
           said == (IF s = fields.state THEN <<>> ELSE <<s>>) \o <<{}>>
           w == IF Reached(c) THEN [wire EXCEPT ![c].sent = @ \o said] ELSE wire
           x == ClosedClient(c, w)
<1>1. /\ wire' = ClosedServer(fields.server, x) /\ listening' = listening \ {fields.server}
      /\ fields' = [server |-> NoOne, client |-> NoOne, helper |-> NoOne, state |-> {}]
  BY DEF StopLocked
<1>2. fields' \in Fields /\ fields'.server = NoOne /\ fields'.client = NoOne /\ fields'.state = {}
  BY <1>1 DEF Fields, Buttons
<1>3. /\ c \in Bridge \cup {NoOne} /\ fields.server \in Bridge \cup {NoOne} /\ NoOne \notin Bridge
      /\ wire \in [Bridge -> Wires] /\ listening \subseteq Bridge
  BY NoOneElse DEF PadTypeOK, Fields
<1>4. listening' = {}
  BY <1>1, <1>3 DEF Wired
<1>5. said \in Seq(Buttons)
  <2>1. <<s>> \in Seq(Buttons) /\ <<{}>> \in Seq(Buttons) /\ <<>> \in Seq(Buttons)
    BY DEF Buttons
  <2>2. QED
    BY <2>1
<1> HIDE DEF said
<1>6. w \in [Bridge -> Wires] /\ \A b \in Bridge : w[b].link = wire[b].link /\ (b # c => w[b] = wire[b])
  <2>1. CASE Reached(c)
    <3>1. c \in Bridge /\ wire[c] \in Wires /\ wire[c].sent \in Seq(Buttons)
      BY <1>3, <2>1 DEF Reached, Wires
    <3>2. wire[c].sent \o said \in Seq(Buttons)
      BY <1>5, <3>1
    <3> DEFINE t == wire[c].sent \o said
    <3>3. w = [wire EXCEPT ![c] = [wire[c] EXCEPT !.sent = t]] /\ t \in Seq(Buttons)
      BY <1>3, <2>1, <3>1, <3>2
    <3> HIDE DEF t, w, c
    <3>4. [wire[c] EXCEPT !.sent = t] \in Wires /\ [wire[c] EXCEPT !.sent = t].link = wire[c].link
      BY <3>1, <3>3 DEF Wires
    <3>5. QED
      BY <1>3, <3>1, <3>3, <3>4
  <2>2. CASE ~Reached(c)
    BY <1>3, <2>2
  <2>3. QED
    BY <2>1, <2>2
<1> HIDE DEF w, x
<1>7. /\ x \in [Bridge -> Wires] /\ \A b \in Bridge : x[b].link = IF b = c THEN "closed" ELSE wire[b].link
      /\ \A b \in Bridge : b # c => x[b] = wire[b]
  <2>1. CASE c = NoOne
    BY <1>3, <1>6, <2>1 DEF x, ClosedClient
  <2>2. CASE c # NoOne
    <3>1. c \in Bridge /\ w[c] \in Wires /\ x = [w EXCEPT ![c] = [w[c] EXCEPT !.link = "closed"]]
      BY <1>3, <1>6, <2>2 DEF x, ClosedClient
    <3> HIDE DEF c
    <3>2. [w[c] EXCEPT !.link = "closed"] \in Wires /\ [w[c] EXCEPT !.link = "closed"].link = "closed"
      BY <3>1 DEF Wires, LinkIs
    <3>3. QED
      BY <1>6, <3>1, <3>2
  <2>3. QED
    BY <2>1, <2>2
<1>8. /\ wire' \in [Bridge -> Wires]
      /\ \A b \in Bridge : wire'[b].link = IF b = c \/ (b = fields.server /\ wire[b].link = "backlog") THEN "closed"
                                           ELSE wire[b].link
      /\ \A b \in Bridge : b # c /\ wire[b].link # "backlog" => wire'[b] = wire[b]
  <2> DEFINE v == fields.server
  <2>1. CASE v = NoOne \/ x[v].link # "backlog"
    BY <1>1, <1>3, <1>7, <2>1 DEF ClosedServer
  <2>2. CASE v # NoOne /\ x[v].link = "backlog"
    <3>1. v \in Bridge /\ x[v] \in Wires /\ wire' = [x EXCEPT ![v] = [x[v] EXCEPT !.link = "closed"]]
      BY <1>1, <1>3, <1>7, <2>2 DEF ClosedServer
    <3>2. v = fields.server
      OBVIOUS
    <3> HIDE DEF v
    <3>3. [x[v] EXCEPT !.link = "closed"] \in Wires /\ [x[v] EXCEPT !.link = "closed"].link = "closed"
      BY <3>1 DEF Wires, LinkIs
    <3>4. v # c /\ wire[v].link = "backlog"
      BY <1>7, <2>2, <3>1
    <3>5. QED
      BY <1>7, <3>1, <3>2, <3>3, <3>4
  <2>3. QED
    BY <2>1, <2>2
<1>9. ASSUME NEW b \in Bridge
      PROVE  /\ wire'[b].link \in {wire[b].link, "closed"} /\ wire'[b].link # "backlog"
             /\ wire[b].link = "none" => wire'[b] = wire[b]
             /\ wire'[b].link = "open" => wire[b].link = "open" /\ runner[b] = "join"
  <2>1. Wired(b)
    OBVIOUS
  <2>2. QED
    BY <1>8, <2>1 DEF Wired
<1>10. QED
  BY <1>2, <1>4, <1>8, <1>9

\* What is left of a bridge that is stopped, or replaced.
LEMMA StopKeeps ==
  ASSUME PadTypeOK, \A b \in Bridge : Wired(b), NEW s \in Buttons, StopLocked(s),
         UNCHANGED <<started, runner, pad, plays>>
  PROVE  /\ fields' \in Fields /\ wire' \in [Bridge -> Wires] /\ listening' \subseteq Bridge
         /\ fields'.state = {} /\ \A b \in Bridge : Wired(b)'
<1>1. /\ fields' \in Fields /\ wire' \in [Bridge -> Wires] /\ listening' = {}
      /\ fields'.server = NoOne /\ fields'.client = NoOne /\ fields'.state = {}
      /\ \A b \in Bridge : /\ wire'[b].link \in {wire[b].link, "closed"} /\ wire'[b].link # "backlog"
                           /\ wire[b].link = "none" => wire'[b] = wire[b]
                           /\ wire'[b].link = "open" => wire[b].link = "open" /\ runner[b] = "join"
  BY StopFacts
<1>2. ASSUME NEW b \in Bridge PROVE Wired(b)'
  <2>1. Wired(b) /\ b # NoOne
    BY NoOneElse
  <2>2. QED
    BY <1>1, <2>1 DEF Wired
<1>3. QED
  BY <1>1, <1>2

LEMMA StartKeeps ==
  ASSUME PadTypeOK, \A b \in Bridge : Wired(b), NEW w \in Window, Start(w)
  PROVE  /\ gen' \in Bridge \cup {NoOne} /\ started' \in 0..MaxBridges /\ runner' \in [Bridge -> RunnerAt]
         /\ fields' \in Fields /\ wire' \in [Bridge -> Wires] /\ listening' \subseteq Bridge
         /\ pad' = pad /\ plays' = plays
         /\ fields'.state \in {fields.state, {}} /\ \A b \in Bridge : Wired(b)'
<1>1. CASE gen # NoOne /\ runner[gen] # "done" /\ target[gen] = w
  <2>1. /\ gen' = gen /\ started' = started /\ runner' = runner /\ fields' = fields /\ wire' = wire
        /\ listening' = listening /\ pad' = pad /\ plays' = plays
    BY <1>1 DEF Start, threads, helpers
  <2>2. QED
    BY <2>1 DEF PadTypeOK, Wired, Said
<1>2. CASE ~(gen # NoOne /\ runner[gen] # "done" /\ target[gen] = w)
  <2>1. /\ started < MaxBridges /\ started' = started + 1 /\ gen' = started' /\ StopLocked(fields.state)
        /\ runner' = [runner EXCEPT ![started'] = "bind"] /\ pad' = pad /\ plays' = plays
    BY <1>2 DEF Start, helpers
  <2>2. fields.state \in Buttons
    BY DEF PadTypeOK, Fields
  <2>3. /\ fields' \in Fields /\ wire' \in [Bridge -> Wires] /\ listening' = {}
        /\ fields'.server = NoOne /\ fields'.client = NoOne /\ fields'.state = {}
        /\ \A b \in Bridge : /\ wire'[b].link \in {wire[b].link, "closed"} /\ wire'[b].link # "backlog"
                             /\ wire[b].link = "none" => wire'[b] = wire[b]
                             /\ wire'[b].link = "open" => wire[b].link = "open" /\ runner[b] = "join"
    BY <2>1, <2>2, StopFacts
  <2>4. started' \in Bridge /\ started' \in 0..MaxBridges /\ started' > started /\ started \in Nat
    BY <2>1, GamepadAssumption DEF PadTypeOK, Bridge
  <2>5. runner' \in [Bridge -> RunnerAt] /\ runner'[started'] = "bind" /\ \A b \in Bridge : b # started' => runner'[b] = runner[b]
    BY <2>1, <2>4 DEF PadTypeOK, RunnerAt
  <2>6. ASSUME NEW b \in Bridge PROVE Wired(b)'
    <3>1. Wired(b) /\ b # NoOne /\ b \in Nat
      BY NoOneElse
    <3>2. CASE b = started'
      <4>1. runner[b] = "none" /\ pad[b] = "none" /\ wire[b].link = "none" /\ wire'[b] = wire[b]
        BY <2>3, <2>4, <3>1, <3>2 DEF Wired, Early
      <4>2. QED
        BY <2>1, <2>3, <2>4, <2>5, <3>1, <3>2, <4>1 DEF Wired
    <3>3. CASE b # started'
      <4>1. b > started' => b > started
        BY <2>4, <3>1
      <4>2. QED
        BY <2>1, <2>3, <2>5, <3>1, <3>3, <4>1 DEF Wired
    <3>4. QED
      BY <3>2, <3>3
  <2>7. QED
    BY <2>1, <2>3, <2>4, <2>5, <2>6
<1>3. QED
  BY <1>1, <1>2

LEMMA StopAll ==
  ASSUME PadAll, NEW s \in Buttons, Stop(s)
  PROVE  /\ gen' \in Bridge \cup {NoOne} /\ started' \in 0..MaxBridges /\ runner' \in [Bridge -> RunnerAt]
         /\ fields' \in Fields /\ wire' \in [Bridge -> Wires] /\ listening' \subseteq Bridge
         /\ pad' = pad /\ plays' = plays
         /\ fields'.state = {} /\ \A b \in Bridge : Wired(b)'
<1>1. StopLocked(s) /\ gen' = NoOne /\ UNCHANGED <<started, runner, pad, plays>>
  BY DEF Stop, helpers
<1>2. PadTypeOK /\ \A b \in Bridge : Wired(b)
  BY DEF PadAll
<1>3. /\ fields' \in Fields /\ wire' \in [Bridge -> Wires] /\ listening' \subseteq Bridge
      /\ fields'.state = {} /\ \A b \in Bridge : Wired(b)'
  BY <1>1, <1>2, StopKeeps
<1>4. QED
  BY <1>1, <1>2, <1>3 DEF PadTypeOK

LEMMA NothingHeld == NoView \in Overlays /\ NoView.held = {} /\ {} \in Buttons
<1>1. <<>> \in [{} -> Control]
  OBVIOUS
<1>2. QED
  BY <1>1 DEF NoView, Overlays, Buttons

\* An overlay that appears, or that goes, has no controls held by the state of now.
LEMMA OverlaysKeep ==
  ASSUME PadAll, view' \in [Window -> Overlays],
         gen' \in Bridge \cup {NoOne}, started' \in 0..MaxBridges, runner' \in [Bridge -> RunnerAt],
         fields' \in Fields, wire' \in [Bridge -> Wires], listening' \subseteq Bridge,
         pad' = pad, plays' = plays, \A b \in Bridge : Wired(b)',
         \A w \in Window : view'[w].held \subseteq Touches(view'[w]),
         fields'.state # {} => \E w \in Window : view'[w].held = fields'.state
  PROVE  PadAll'
<1>1. PadTypeOK'
  BY DEF PadAll, PadTypeOK
<1>2. Shown'
  BY DEF Shown, Touches
<1>3. QED
  BY <1>1, <1>2 DEF PadAll

LEMMA ResumedKeeps == ASSUME PadAll, NEW w \in Window, WindowResumed(w) PROVE PadAll'
<1>1. PadTypeOK /\ Shown /\ (\A b \in Bridge : Wired(b)) /\ view \in [Window -> Overlays] /\ fields.state \in Buttons
  BY DEF PadAll, PadTypeOK, Fields
<1>2. CASE screen.enabled
  <2>1. view' = [view EXCEPT ![w] = [view[w] EXCEPT !.on = TRUE]] /\ Start(w)
    BY <1>1, <1>2 DEF WindowResumed
  <2>2. /\ gen' \in Bridge \cup {NoOne} /\ started' \in 0..MaxBridges /\ runner' \in [Bridge -> RunnerAt]
        /\ fields' \in Fields /\ wire' \in [Bridge -> Wires] /\ listening' \subseteq Bridge
        /\ pad' = pad /\ plays' = plays
        /\ fields'.state \in {fields.state, {}} /\ \A b \in Bridge : Wired(b)'
    BY <1>1, <2>1, StartKeeps
  <2>3. [view[w] EXCEPT !.on = TRUE] \in Overlays /\ [view[w] EXCEPT !.on = TRUE].at = view[w].at
        /\ [view[w] EXCEPT !.on = TRUE].held = view[w].held
    BY <1>1 DEF Overlays
  <2>4. view' \in [Window -> Overlays] /\ \A x \in Window : view'[x].at = view[x].at /\ view'[x].held = view[x].held
    BY <1>1, <2>1, <2>3
  <2>5. \A x \in Window : view'[x].held \subseteq Touches(view'[x])
    BY <1>1, <2>4 DEF Shown, Touches
  <2>6. fields'.state # {} => \E x \in Window : view'[x].held = fields'.state
    BY <1>1, <2>2, <2>4 DEF Shown
  <2>7. QED
    BY <2>2, <2>4, <2>5, <2>6, OverlaysKeep
<1>3. CASE ~screen.enabled
  <2>1. view' = [view EXCEPT ![w] = NoView] /\ Stop(IF view[w].on THEN {} ELSE fields.state)
    BY <1>3 DEF WindowResumed
  <2> DEFINE s == IF view[w].on THEN {} ELSE fields.state
  <2>2. s \in Buttons /\ Stop(s)
    BY <1>1, <2>1, NothingHeld
  <2> HIDE DEF s
  <2>3. /\ gen' \in Bridge \cup {NoOne} /\ started' \in 0..MaxBridges /\ runner' \in [Bridge -> RunnerAt]
        /\ fields' \in Fields /\ wire' \in [Bridge -> Wires] /\ listening' \subseteq Bridge
        /\ pad' = pad /\ plays' = plays
        /\ fields'.state = {} /\ \A b \in Bridge : Wired(b)'
    BY <2>2, StopAll
  <2>4. view' \in [Window -> Overlays] /\ \A x \in Window : view'[x] = view[x] \/ view'[x] = NoView
    BY <1>1, <2>1, NothingHeld
  <2>5. \A x \in Window : view'[x].held \subseteq Touches(view'[x])
    BY <1>1, <2>4, NothingHeld DEF Shown
  <2>6. QED
    BY <2>3, <2>4, <2>5, OverlaysKeep
<1>4. QED
  BY <1>2, <1>3

LEMMA PausedKeeps == ASSUME PadAll, NEW w \in Window, WindowPaused(w) PROVE PadAll'
<1>1. PadTypeOK /\ Shown /\ (\A b \in Bridge : Wired(b)) /\ view \in [Window -> Overlays] /\ fields.state \in Buttons
  BY DEF PadAll, PadTypeOK, Fields
<1>2. CASE w # screen.display
  BY <1>1, <1>2 DEF WindowPaused, PadIdle, threads, helpers, PadAll, PadTypeOK, Shown, Wired, Said
<1>3. CASE w = screen.display
  <2>1. view' = [view EXCEPT ![w] = NoView] /\ Stop(IF view[w].on THEN {} ELSE fields.state)
    BY <1>3 DEF WindowPaused
  <2> DEFINE s == IF view[w].on THEN {} ELSE fields.state
  <2>2. s \in Buttons /\ Stop(s)
    BY <1>1, <2>1, NothingHeld
  <2> HIDE DEF s
  <2>3. /\ gen' \in Bridge \cup {NoOne} /\ started' \in 0..MaxBridges /\ runner' \in [Bridge -> RunnerAt]
        /\ fields' \in Fields /\ wire' \in [Bridge -> Wires] /\ listening' \subseteq Bridge
        /\ pad' = pad /\ plays' = plays
        /\ fields'.state = {} /\ \A b \in Bridge : Wired(b)'
    BY <2>2, StopAll
  <2>4. view' \in [Window -> Overlays] /\ \A x \in Window : view'[x] = view[x] \/ view'[x] = NoView
    BY <1>1, <2>1, NothingHeld
  <2>5. \A x \in Window : view'[x].held \subseteq Touches(view'[x])
    BY <1>1, <2>4, NothingHeld DEF Shown
  <2>6. QED
    BY <2>3, <2>4, <2>5, OverlaysKeep
<1>4. QED
  BY <1>2, <1>3

LEMMA EnabledKeeps == ASSUME PadAll, PadEnabled PROVE PadAll'
<1>1. PadTypeOK /\ Shown /\ (\A b \in Bridge : Wired(b)) /\ view' = view /\ view \in [Window -> Overlays]
      /\ fields.state \in Buttons
  BY DEF PadAll, PadTypeOK, Fields, PadEnabled
<1>2. CASE ~screen.enabled
  BY <1>1, <1>2 DEF PadEnabled, PadIdle, threads, helpers, PadAll, PadTypeOK, Shown, Wired, Said
<1>3. CASE screen.enabled
  <2>1. Stop(fields.state)
    BY <1>3 DEF PadEnabled
  <2>2. /\ gen' \in Bridge \cup {NoOne} /\ started' \in 0..MaxBridges /\ runner' \in [Bridge -> RunnerAt]
        /\ fields' \in Fields /\ wire' \in [Bridge -> Wires] /\ listening' \subseteq Bridge
        /\ pad' = pad /\ plays' = plays
        /\ fields'.state = {} /\ \A b \in Bridge : Wired(b)'
    BY <1>1, <2>1, StopAll
  <2>3. \A x \in Window : view'[x].held \subseteq Touches(view'[x])
    BY <1>1 DEF Shown
  <2>4. QED
    BY <1>1, <2>2, <2>3, OverlaysKeep
<1>4. QED
  BY <1>2, <1>3

\* A window's overlay changes, and says so.
LEMMA SaysKeeps ==
  ASSUME PadAll, NEW w \in Window, NEW v \in Overlays, view' = [view EXCEPT ![w] = v], SendState(v.held),
         v.held \subseteq Touches(v), UNCHANGED <<gen, started, runner, listening, pad, plays>>
  PROVE  PadAll'
<1>1. PadTypeOK /\ Shown /\ (\A b \in Bridge : Wired(b)) /\ view \in [Window -> Overlays] /\ v.held \in Buttons
  BY DEF PadAll, PadTypeOK, Overlays
<1>2. fields' \in Fields /\ wire' \in [Bridge -> Wires] /\ fields'.state = v.held /\ \A b \in Bridge : Wired(b)'
  BY <1>1, SendKeeps
<1>3. view' \in [Window -> Overlays] /\ view'[w] = v /\ \A x \in Window : x # w => view'[x] = view[x]
  BY <1>1
<1>4. \A x \in Window : view'[x].held \subseteq Touches(view'[x])
  BY <1>1, <1>3 DEF Shown
<1>5. /\ gen' \in Bridge \cup {NoOne} /\ started' \in 0..MaxBridges /\ runner' \in [Bridge -> RunnerAt]
      /\ listening' \subseteq Bridge
  BY <1>1 DEF PadTypeOK
<1>6. QED
  BY <1>2, <1>3, <1>4, <1>5, OverlaysKeep

LEMMA DestroyedKeeps == ASSUME PadAll, NEW w \in Window, WindowDestroyed(w) PROVE PadAll'
<1>1. /\ view' = [view EXCEPT ![w] = NoView] /\ SendState({})
      /\ UNCHANGED <<gen, started, runner, listening, pad, plays>>
  BY DEF WindowDestroyed, threads, helpers
<1>2. NoView \in Overlays /\ NoView.held = {} /\ NoView.held \subseteq Touches(NoView)
  BY NothingHeld
<1>3. QED
  BY <1>1, <1>2, SaysKeeps

LEMMA ViewsKeeps ==
  ASSUME PadAll, NEW w \in Window, NEW v \in Overlays, Views(w, v), v.held \subseteq Touches(v)
  PROVE  PadAll'
<1>1. /\ view' = [view EXCEPT ![w] = v] /\ SendState(v.held)
      /\ UNCHANGED <<gen, started, runner, listening, pad, plays>>
  BY DEF Views, threads, helpers
<1>2. QED
  BY <1>1, SaysKeeps

LEMMA TouchKeeps == ASSUME PadAll, NEW w \in Window, OverlayStep(w) PROVE PadAll'
<1> DEFINE u == view[w]
<1>1. u \in Overlays /\ u.held \subseteq Touches(u)
  BY DEF PadAll, PadTypeOK, Shown
<1>2. PICK F \in SUBSET Finger : u.at \in [F -> Control]
  BY <1>1 DEF Overlays
<1>3. u.held \in Buttons /\ u = [on |-> u.on, at |-> u.at, held |-> u.held] /\ u.on \in BOOLEAN
      /\ DOMAIN u.at = F
  BY <1>1, <1>2 DEF Overlays
<1>0. ASSUME NEW X, NEW Y
      PROVE  [view[w] EXCEPT !.at = X, !.held = Y] = [on |-> u.on, at |-> X, held |-> Y]
  <2> HIDE DEF u
  <2>1. [u EXCEPT !.at = X, !.held = Y] = [on |-> u.on, at |-> X, held |-> Y]
    <3>1. PICK a, b, c : u = [on |-> a, at |-> b, held |-> c] /\ u.on = a
      BY <1>3
    <3>2. [u EXCEPT !.at = X, !.held = Y] = [[u EXCEPT !.at = X] EXCEPT !.held = Y]
      OBVIOUS
    <3>3. [[on |-> a, at |-> b, held |-> c] EXCEPT !.at = X] = [on |-> a, at |-> X, held |-> c]
      OBVIOUS
    <3>4. [[on |-> a, at |-> X, held |-> c] EXCEPT !.held = Y] = [on |-> a, at |-> X, held |-> Y]
      OBVIOUS
    <3>5. QED
      BY <3>1, <3>2, <3>3, <3>4
  <2>2. QED
    BY <2>1 DEF u
<1>4. CASE OverlayDown(w)
  <2>1. PICK f \in Finger \ DOMAIN u.at, c \in Control :
          Views(w, [view[w] EXCEPT !.at = [g \in DOMAIN @ \cup {f} |-> IF g = f THEN c ELSE @[g]],
                                   !.held = @ \cup {c}])
    BY <1>4 DEF OverlayDown
  <2> DEFINE at == [g \in F \cup {f} |-> IF g = f THEN c ELSE u.at[g]]
             v  == [on |-> u.on, at |-> at, held |-> u.held \cup {c}]
  <2>2. Views(w, v)
    <3>1. [view[w] EXCEPT !.at = [g \in DOMAIN @ \cup {f} |-> IF g = f THEN c ELSE @[g]],
                          !.held = @ \cup {c}]
            = [view[w] EXCEPT !.at = at, !.held = u.held \cup {c}]
      BY <1>3
    <3>2. [view[w] EXCEPT !.at = at, !.held = u.held \cup {c}] = v
      <4> HIDE DEF at, u
      <4>1. QED
        BY <1>0
    <3>3. QED
      BY <2>1, <3>1, <3>2
  <2>3. at \in [F \cup {f} -> Control] /\ F \cup {f} \in SUBSET Finger
    BY <1>2, <1>3, <2>1
  <2>4. v.at = at /\ v.held = u.held \cup {c} /\ v.on = u.on
    OBVIOUS
  <2>5. at[f] = c /\ DOMAIN at = F \cup {f} /\ \A g \in F : at[g] = u.at[g]
    BY <1>3, <2>1
  <2> HIDE DEF at
  <2>6. v \in Overlays
    BY <1>3, <2>1, <2>3 DEF Overlays, Buttons
  <2> HIDE DEF v
  <2>7. v.held \subseteq Touches(v)
    BY <1>1, <1>3, <2>4, <2>5 DEF Touches
  <2>8. QED
    BY <2>2, <2>6, <2>7, ViewsKeeps
<1>5. CASE OverlayMove(w)
  <2> DEFINE v == [on |-> u.on, at |-> u.at, held |-> u.held \cup Touches(u)]
  <2>1. Views(w, v)
    <3>1. Views(w, [view[w] EXCEPT !.held = @ \cup {view[w].at[f] : f \in DOMAIN view[w].at}])
      BY <1>5 DEF OverlayMove
    <3>2. [view[w] EXCEPT !.held = @ \cup {view[w].at[f] : f \in DOMAIN view[w].at}] = v
      BY <1>3 DEF Touches
    <3>3. QED
      BY <3>1, <3>2
  <2>2. v.at = u.at /\ v.held = u.held \cup Touches(u)
    OBVIOUS
  <2>3. Touches(u) \in Buttons
    BY <1>2, <1>3 DEF Touches, Buttons
  <2>4. v \in Overlays
    BY <1>2, <1>3, <2>3 DEF Overlays, Buttons
  <2> HIDE DEF v
  <2>5. v.held \subseteq Touches(v)
    BY <1>1, <2>2 DEF Touches
  <2>6. QED
    BY <2>1, <2>4, <2>5, ViewsKeeps
<1>6. CASE OverlayUp(w)
  <2>1. PICK f \in DOMAIN u.at :
          Views(w, [view[w] EXCEPT !.at = [g \in DOMAIN @ \ {f} |-> @[g]], !.held = @ \ {view[w].at[f]}])
    BY <1>6 DEF OverlayUp
  <2> DEFINE at == [g \in F \ {f} |-> u.at[g]]
             v  == [on |-> u.on, at |-> at, held |-> u.held \ {u.at[f]}]
  <2>2. Views(w, v)
    <3>1. [view[w] EXCEPT !.at = [g \in DOMAIN @ \ {f} |-> @[g]], !.held = @ \ {view[w].at[f]}]
            = [view[w] EXCEPT !.at = at, !.held = u.held \ {u.at[f]}]
      BY <1>3
    <3>2. [view[w] EXCEPT !.at = at, !.held = u.held \ {u.at[f]}] = v
      <4> HIDE DEF at, u
      <4>1. QED
        BY <1>0
    <3>3. QED
      BY <2>1, <3>1, <3>2
  <2>3. at \in [F \ {f} -> Control] /\ F \ {f} \in SUBSET Finger
    BY <1>2, <1>3
  <2>4. v.at = at /\ v.held = u.held \ {u.at[f]} /\ v.on = u.on
    OBVIOUS
  <2>5. DOMAIN at = F \ {f} /\ \A g \in F \ {f} : at[g] = u.at[g]
    OBVIOUS
  <2> HIDE DEF at
  <2>6. v \in Overlays
    BY <1>3, <2>3 DEF Overlays, Buttons
  <2> HIDE DEF v
  <2>7. v.held \subseteq Touches(v)
    BY <1>1, <1>3, <2>4, <2>5 DEF Touches
  <2>8. QED
    BY <2>2, <2>6, <2>7, ViewsKeeps
<1>7. CASE OverlayCancel(w)
  <2> DEFINE v == [on |-> u.on, at |-> <<>>, held |-> {}]
  <2>1. Views(w, v)
    BY <1>0, <1>7 DEF OverlayCancel, Neutralized
  <2>2. v \in Overlays /\ v.held = {}
    <3>1. <<>> \in [{} -> Control] /\ {} \in SUBSET Finger
      OBVIOUS
    <3>2. QED
      BY <1>3, <3>1 DEF Overlays, Buttons
  <2> HIDE DEF v
  <2>3. QED
    BY <2>1, <2>2, ViewsKeeps
<1>8. QED
  BY <1>4, <1>5, <1>6, <1>7 DEF OverlayStep

-----------------------------------------------------------------------------
(* GamepadBridge.java: the thread of a bridge.                              *)

\* A step that leaves the overlays alone, and the bridges of others.
LEMMA BridgeSteps ==
  ASSUME PadAll, UNCHANGED <<view, gen, started>>, fields' \in Fields, fields'.state = fields.state,
         runner' \in [Bridge -> RunnerAt], listening' \subseteq Bridge, wire' \in [Bridge -> Wires],
         pad' \in [Bridge -> PadAt], plays' \in [Bridge -> Buttons], \A b \in Bridge : Wired(b)'
  PROVE  PadAll'
<1>1. PadTypeOK'
  BY DEF PadAll, PadTypeOK
<1>2. Shown'
  BY DEF PadAll, Shown
<1>3. QED
  BY <1>1, <1>2 DEF PadAll

LEMMA ClaimKeeps == ASSUME PadAll, NEW b \in Bridge, ClaimServer(b) PROVE PadAll'
<1>1. /\ runner[b] = "bind" /\ UNCHANGED <<view, gen, started, wire, pad, plays>>
      /\ \/ /\ gen = b /\ runner' = [runner EXCEPT ![b] = "exec"] /\ fields' = [fields EXCEPT !.server = b]
            /\ listening' = listening \cup {b}
         \/ runner' = [runner EXCEPT ![b] = "finally"] /\ fields' = fields /\ listening' = listening
  BY DEF ClaimServer, Runs, RunnerRest, onScreen, helpers
<1>2. PadTypeOK /\ (\A c \in Bridge : Wired(c)) /\ b # NoOne /\ fields \in Fields
  BY NoOneElse DEF PadAll, PadTypeOK
<1>3. /\ fields' \in Fields /\ fields'.state = fields.state /\ fields'.client = fields.client
      /\ runner' \in [Bridge -> RunnerAt] /\ listening' \subseteq Bridge
      /\ \A c \in Bridge : c # b => runner'[c] = runner[c]
      /\ \/ gen = b /\ runner'[b] = "exec" /\ fields'.server = b /\ listening' = listening \cup {b}
         \/ runner'[b] = "finally" /\ fields' = fields /\ listening' = listening
  BY <1>1, <1>2 DEF PadTypeOK, RunnerAt, Fields
<1>4. ASSUME NEW c \in Bridge PROVE Wired(c)'
  <2>1. Wired(c)
    BY <1>2
  <2>2. CASE c = b
    BY <1>1, <1>3, <2>1, <2>2 DEF Wired, Said
  <2>3. CASE c # b
    BY <1>1, <1>2, <1>3, <2>1, <2>3 DEF Wired, Said
  <2>4. QED
    BY <2>2, <2>3
<1>5. wire' \in [Bridge -> Wires] /\ pad' \in [Bridge -> PadAt] /\ plays' \in [Bridge -> Buttons]
  BY <1>1, <1>2 DEF PadTypeOK
<1>6. UNCHANGED <<view, gen, started>>
  BY <1>1
<1>7. QED
  BY <1>3, <1>4, <1>5, <1>6, BridgeSteps

LEMMA ExecKeeps == ASSUME PadAll, NEW b \in Bridge, ExecHelper(b) PROVE PadAll'
<1>1. /\ runner[b] = "exec" /\ UNCHANGED <<view, gen, started, fields, listening, wire, plays>>
      /\ \/ runner' = [runner EXCEPT ![b] = "own"] /\ pad' = [pad EXCEPT ![b] = "create"]
         \/ runner' = [runner EXCEPT ![b] = "finally"] /\ pad' = pad
  BY DEF ExecHelper, Runs, RunnerRest, onScreen
<1>2. PadTypeOK /\ (\A c \in Bridge : Wired(c)) /\ fields \in Fields
  BY DEF PadAll, PadTypeOK
<1>3. /\ runner' \in [Bridge -> RunnerAt] /\ pad' \in [Bridge -> PadAt]
      /\ \A c \in Bridge : c # b => runner'[c] = runner[c] /\ pad'[c] = pad[c]
      /\ \/ runner'[b] = "own" /\ pad'[b] = "create"
         \/ runner'[b] = "finally" /\ pad'[b] = pad[b]
  BY <1>1, <1>2 DEF PadTypeOK, RunnerAt, PadAt, Early
<1>4. ASSUME NEW c \in Bridge PROVE Wired(c)'
  <2>1. Wired(c)
    BY <1>2
  <2>2. CASE c = b
    BY <1>1, <1>3, <2>1, <2>2 DEF Wired, Said, Early
  <2>3. CASE c # b
    BY <1>1, <1>3, <2>1, <2>3 DEF Wired, Said
  <2>4. QED
    BY <2>2, <2>3
<1>5. /\ fields' \in Fields /\ fields'.state = fields.state /\ listening' \subseteq Bridge /\ wire' \in [Bridge -> Wires]
      /\ plays' \in [Bridge -> Buttons] /\ UNCHANGED <<view, gen, started>>
  BY <1>1, <1>2 DEF PadTypeOK
<1>6. QED
  BY <1>3, <1>4, <1>5, BridgeSteps

LEMMA OwnKeeps == ASSUME PadAll, NEW b \in Bridge, OwnHelper(b) PROVE PadAll'
<1>1. /\ runner[b] = "own" /\ UNCHANGED <<view, gen, started, listening, wire, pad, plays>>
      /\ \/ runner' = [runner EXCEPT ![b] = "accept"] /\ fields' = [fields EXCEPT !.helper = b]
         \/ runner' = [runner EXCEPT ![b] = "finally"] /\ fields' = fields
  BY DEF OwnHelper, Runs, RunnerRest, onScreen, helpers
<1>2. PadTypeOK /\ (\A c \in Bridge : Wired(c)) /\ fields \in Fields
  BY DEF PadAll, PadTypeOK
<1>3. /\ runner' \in [Bridge -> RunnerAt] /\ runner'[b] \in {"accept", "finally"}
      /\ \A c \in Bridge : c # b => runner'[c] = runner[c]
      /\ fields' \in Fields /\ fields'.state = fields.state /\ fields'.server = fields.server
      /\ fields'.client = fields.client
  BY <1>1, <1>2 DEF PadTypeOK, RunnerAt, Fields
<1>4. ASSUME NEW c \in Bridge PROVE Wired(c)'
  <2>1. Wired(c)
    BY <1>2
  <2>2. CASE c = b
    BY <1>1, <1>3, <2>1, <2>2 DEF Wired, Said
  <2>3. CASE c # b
    BY <1>1, <1>3, <2>1, <2>3 DEF Wired, Said
  <2>4. QED
    BY <2>2, <2>3
<1>5. /\ listening' \subseteq Bridge /\ wire' \in [Bridge -> Wires] /\ pad' \in [Bridge -> PadAt]
      /\ plays' \in [Bridge -> Buttons] /\ UNCHANGED <<view, gen, started>>
  BY <1>1, <1>2 DEF PadTypeOK
<1>6. QED
  BY <1>3, <1>4, <1>5, BridgeSteps

\* A connection that changes its state only.
LEMMA LinkFacts ==
  ASSUME NEW b \in Bridge, NEW w \in [Bridge -> Wires], NEW l \in LinkIs
  PROVE  LET x == [w EXCEPT ![b].link = l]
         IN /\ x \in [Bridge -> Wires] /\ x[b].link = l /\ x[b].sent = w[b].sent
            /\ \A c \in Bridge : c # b => x[c] = w[c]
<1> DEFINE r == [w[b] EXCEPT !.link = l]
           x == [w EXCEPT ![b].link = l]
<1>1. r \in Wires /\ r.link = l /\ r.sent = w[b].sent
  BY DEF Wires
<1>2. x = [w EXCEPT ![b] = r]
  OBVIOUS
<1> HIDE DEF r, x
<1>3. x \in [Bridge -> Wires] /\ x[b] = r /\ \A c \in Bridge : c # b => x[c] = w[c]
  BY <1>1, <1>2
<1>4. QED
  BY <1>1, <1>3 DEF x

LEMMA AcceptKeeps == ASSUME PadAll, NEW b \in Bridge, AcceptPad(b) PROVE PadAll'
<1>1. /\ runner[b] = "accept" /\ UNCHANGED <<view, gen, started, fields, listening, pad, plays>>
      /\ \/ /\ wire[b].link = "backlog" /\ runner' = [runner EXCEPT ![b] = "join"]
            /\ wire' = [wire EXCEPT ![b].link = "open"]
         \/ runner' = [runner EXCEPT ![b] = "finally"] /\ wire' = wire
  BY DEF AcceptPad, Runs, RunnerRest, onScreen, helpers
<1>2. PadTypeOK /\ (\A c \in Bridge : Wired(c)) /\ fields \in Fields /\ wire \in [Bridge -> Wires]
  BY DEF PadAll, PadTypeOK
<1>3. /\ runner' \in [Bridge -> RunnerAt] /\ \A c \in Bridge : c # b => runner'[c] = runner[c]
  BY <1>1, <1>2 DEF PadTypeOK, RunnerAt
<1>4. /\ wire' \in [Bridge -> Wires] /\ \A c \in Bridge : c # b => wire'[c] = wire[c]
      /\ \/ wire[b].link = "backlog" /\ wire'[b].link = "open" /\ wire'[b].sent = wire[b].sent /\ runner'[b] = "join"
         \/ wire'[b] = wire[b] /\ runner'[b] = "finally"
  <2>1. CASE runner' = [runner EXCEPT ![b] = "finally"] /\ wire' = wire
    BY <1>2, <2>1 DEF PadTypeOK
  <2>2. CASE wire[b].link = "backlog" /\ runner' = [runner EXCEPT ![b] = "join"] /\ wire' = [wire EXCEPT ![b].link = "open"]
    <3>1. runner'[b] = "join"
      BY <1>2, <2>2 DEF PadTypeOK
    <3>2. "open" \in LinkIs
      BY DEF LinkIs
    <3>3. QED
      BY <1>2, <2>2, <3>1, <3>2, LinkFacts
  <2>3. QED
    BY <1>1, <2>1, <2>2
<1>5. ASSUME NEW c \in Bridge PROVE Wired(c)'
  <2>1. Wired(c)
    BY <1>2
  <2>2. CASE c = b
    BY <1>1, <1>4, <2>1, <2>2 DEF Wired, Said, Early
  <2>3. CASE c # b
    BY <1>1, <1>3, <1>4, <2>1, <2>3 DEF Wired, Said
  <2>4. QED
    BY <2>2, <2>3
<1>6. /\ fields' \in Fields /\ fields'.state = fields.state /\ listening' \subseteq Bridge /\ pad' \in [Bridge -> PadAt]
      /\ plays' \in [Bridge -> Buttons] /\ UNCHANGED <<view, gen, started>>
  BY <1>1, <1>2 DEF PadTypeOK
<1>7. QED
  BY <1>3, <1>4, <1>5, <1>6, BridgeSteps

LEMMA JoinKeeps == ASSUME PadAll, NEW b \in Bridge, JoinPad(b) PROVE PadAll'
<1>1. /\ runner[b] = "join" /\ runner' = [runner EXCEPT ![b] = "finally"]
      /\ UNCHANGED <<view, gen, started, listening, pad, plays>>
      /\ IF gen = b THEN WritePacket([fields EXCEPT !.client = b], fields.state)
                    ELSE wire' = ClosedClient(b, wire) /\ fields' = fields
  BY DEF JoinPad, Mine, Runs, RunnerRest, onScreen, helpers
<1>2. PadTypeOK /\ (\A c \in Bridge : Wired(c)) /\ fields \in Fields /\ wire \in [Bridge -> Wires] /\ b # NoOne
      /\ fields.state \in Buttons
  BY NoOneElse DEF PadAll, PadTypeOK, Fields
<1>3. /\ runner' \in [Bridge -> RunnerAt] /\ runner'[b] = "finally" /\ \A c \in Bridge : c # b => runner'[c] = runner[c]
  BY <1>1, <1>2 DEF PadTypeOK, RunnerAt
<1>4. listening' \subseteq Bridge /\ pad' \in [Bridge -> PadAt] /\ plays' \in [Bridge -> Buttons]
      /\ UNCHANGED <<view, gen, started>>
  BY <1>1, <1>2 DEF PadTypeOK
<1>5. CASE gen = b
  <2> DEFINE f == [fields EXCEPT !.client = b]
  <2>1. f \in Fields /\ f.client = b /\ f.state = fields.state /\ f.server = fields.server
    BY <1>2 DEF Fields
  <2>2. WritePacket(f, fields.state)
    BY <1>1, <1>5
  <2> HIDE DEF f
  <2>3. /\ fields' \in Fields /\ wire' \in [Bridge -> Wires]
        /\ fields'.server = f.server /\ fields'.state = f.state
        /\ \A c \in Bridge : c # f.client => wire'[c] = wire[c]
        /\ \/ /\ f.client \in Bridge /\ wire[f.client].link = "open" /\ fields'.client = f.client
              /\ wire'[f.client].link = "open" /\ wire'[f.client].sent = Append(wire[f.client].sent, fields.state)
           \/ /\ fields'.client = NoOne
              /\ f.client \in Bridge => /\ wire'[f.client].link = "closed"
                                        /\ wire'[f.client].sent = wire[f.client].sent
    BY <1>2, <2>1, <2>2, WriteFacts
  <2>4. ASSUME NEW c \in Bridge PROVE Wired(c)'
    <3>1. Wired(c) /\ wire[c].sent \in Seq(Buttons) /\ c # NoOne
      BY <1>2, NoOneElse DEF Wires
    <3>2. CASE c # b
      <4>1. fields.client # c
        BY <1>5, <3>1, <3>2 DEF Wired
      <4>2. QED
        BY <1>1, <1>3, <2>1, <2>3, <3>1, <3>2, <4>1 DEF Wired, Said
    <3>3. CASE c = b /\ fields'.client = NoOne
      <4>2. wire'[c].link = "closed" /\ wire'[c].sent = wire[c].sent
        BY <1>2, <2>1, <2>3, <3>3
      <4>3. pad[c] \notin Early
        BY <1>1, <3>1, <3>3 DEF Wired
      <4>4. QED
        BY <1>1, <1>3, <2>1, <2>3, <3>1, <3>3, <4>2, <4>3 DEF Wired
    <3>4. CASE c = b /\ fields'.client # NoOne
      <4>1. wire'[c].link = "open" /\ wire[c].link = "open" /\ wire'[c].sent = Append(wire[c].sent, fields.state)
            /\ fields'.client = c
        BY <2>1, <2>3, <3>4
      <4>2. wire'[c].sent # <<>> /\ Last(wire'[c].sent) = fields.state
        BY <1>2, <3>1, <4>1, Appended
      <4>3. Said(c)' = fields'.state
        BY <2>1, <2>3, <4>2 DEF Said
      <4>4. QED
        BY <1>1, <1>3, <1>5, <2>1, <2>3, <3>1, <3>4, <4>1, <4>3 DEF Wired
    <3>5. QED
      BY <3>2, <3>3, <3>4
  <2>5. fields'.state = fields.state
    BY <2>1, <2>3
  <2>6. QED
    BY <1>3, <1>4, <2>3, <2>4, <2>5, BridgeSteps
<1>6. CASE gen # b
  <2>1. wire' = [wire EXCEPT ![b].link = "closed"] /\ fields' = fields
    BY <1>1, <1>2, <1>6 DEF ClosedClient
  <2>2. wire' \in [Bridge -> Wires] /\ wire'[b].link = "closed" /\ wire'[b].sent = wire[b].sent
        /\ \A c \in Bridge : c # b => wire'[c] = wire[c]
    <3>1. "closed" \in LinkIs
      BY DEF LinkIs
    <3>2. QED
      BY <1>2, <2>1, <3>1, LinkFacts
  <2>3. ASSUME NEW c \in Bridge PROVE Wired(c)'
    <3>1. Wired(c)
      BY <1>2
    <3>2. CASE c # b
      BY <1>1, <1>3, <2>1, <2>2, <3>1, <3>2 DEF Wired, Said
    <3>3. CASE c = b
      BY <1>1, <1>3, <1>6, <2>1, <2>2, <3>1, <3>3 DEF Wired
    <3>4. QED
      BY <3>2, <3>3
  <2>4. fields' \in Fields /\ fields'.state = fields.state
    BY <1>2, <2>1
  <2>5. QED
    BY <1>3, <1>4, <2>2, <2>3, <2>4, BridgeSteps
<1>7. QED
  BY <1>5, <1>6

\* A server that closes.
LEMMA ClosedFacts ==
  ASSUME NEW b \in Bridge, PadTypeOK
  PROVE  /\ ClosedServer(b, wire) \in [Bridge -> Wires]
         /\ ClosedServer(b, wire)[b].link = IF wire[b].link = "backlog" THEN "closed" ELSE wire[b].link
         /\ ClosedServer(b, wire)[b].sent = wire[b].sent
         /\ \A c \in Bridge : c # b => ClosedServer(b, wire)[c] = wire[c]
<1>1. b # NoOne /\ wire \in [Bridge -> Wires] /\ "closed" \in LinkIs
  BY NoOneElse DEF PadTypeOK, LinkIs
<1>2. CASE wire[b].link # "backlog"
  BY <1>1, <1>2 DEF ClosedServer
<1>3. CASE wire[b].link = "backlog"
  <2>1. ClosedServer(b, wire) = [wire EXCEPT ![b].link = "closed"]
    BY <1>1, <1>3 DEF ClosedServer
  <2>2. QED
    BY <1>1, <1>3, <2>1, LinkFacts
<1>4. QED
  BY <1>2, <1>3

LEMMA UnlistenKeeps ==
  ASSUME PadAll, NEW b \in Bridge, listening' = listening \ {b}, wire' = ClosedServer(b, wire),
         UNCHANGED <<view, gen, started, fields, pad, plays>>, runner' \in [Bridge -> RunnerAt],
         runner'[b] = runner[b] \/ (runner[b] = "finally" /\ runner'[b] = "done"),
         \A c \in Bridge : c # b => runner'[c] = runner[c]
  PROVE  PadAll'
<1>1. PadTypeOK /\ (\A c \in Bridge : Wired(c))
  BY DEF PadAll
<1>2. /\ wire' \in [Bridge -> Wires] /\ wire'[b].sent = wire[b].sent
      /\ wire'[b].link = IF wire[b].link = "backlog" THEN "closed" ELSE wire[b].link
      /\ \A c \in Bridge : c # b => wire'[c] = wire[c]
  BY <1>1, ClosedFacts
<1>3. ASSUME NEW c \in Bridge PROVE Wired(c)'
  <2>1. Wired(c)
    BY <1>1
  <2>2. CASE c = b
    BY <1>2, <2>1, <2>2 DEF Wired, Said
  <2>3. CASE c # b
    BY <1>2, <2>1, <2>3 DEF Wired, Said
  <2>4. QED
    BY <2>2, <2>3
<1>4. /\ fields' \in Fields /\ fields'.state = fields.state /\ listening' \subseteq Bridge /\ pad' \in [Bridge -> PadAt]
      /\ plays' \in [Bridge -> Buttons] /\ UNCHANGED <<view, gen, started>>
  BY <1>1 DEF PadTypeOK
<1>5. QED
  BY <1>2, <1>3, <1>4, BridgeSteps

LEMMA FinallyKeeps == ASSUME PadAll, NEW b \in Bridge, RunFinally(b) PROVE PadAll'
<1>1. /\ runner[b] = "finally" /\ runner' = [runner EXCEPT ![b] = "done"]
      /\ UNCHANGED <<view, gen, started, fields, pad, plays>>
      /\ IF gen = b THEN UNCHANGED <<listening, wire>> ELSE listening' = listening \ {b} /\ wire' = ClosedServer(b, wire)
  BY DEF RunFinally, Runs, RunnerRest, onScreen, helpers
<1>2. PadTypeOK /\ (\A c \in Bridge : Wired(c))
  BY DEF PadAll
<1>3. runner' \in [Bridge -> RunnerAt] /\ runner'[b] = "done" /\ \A c \in Bridge : c # b => runner'[c] = runner[c]
  BY <1>1, <1>2 DEF PadTypeOK, RunnerAt
<1>4. CASE gen # b
  BY <1>1, <1>3, <1>4, UnlistenKeeps
<1>5. CASE gen = b
  <2>1. ASSUME NEW c \in Bridge PROVE Wired(c)'
    <3>1. Wired(c)
      BY <1>2
    <3>2. QED
      BY <1>1, <1>3, <1>5, <3>1 DEF Wired, Said
  <2>2. /\ fields' \in Fields /\ fields'.state = fields.state /\ listening' \subseteq Bridge /\ wire' \in [Bridge -> Wires]
        /\ pad' \in [Bridge -> PadAt] /\ plays' \in [Bridge -> Buttons] /\ UNCHANGED <<view, gen, started>>
    BY <1>1, <1>2, <1>5 DEF PadTypeOK
  <2>3. QED
    BY <1>3, <2>1, <2>2, BridgeSteps
<1>6. QED
  BY <1>4, <1>5

LEMMA WatcherKeeps == ASSUME PadAll, NEW b \in Bridge, Watcher(b) PROVE PadAll'
<1>1. /\ UNCHANGED <<view, gen, started, fields, runner, pad, plays>>
      /\ \/ listening' = listening \ {b} /\ wire' = ClosedServer(b, wire)
         \/ UNCHANGED <<listening, wire>>
  BY DEF Watcher, RunnerRest, onScreen, helpers
<1>2. CASE listening' = listening \ {b} /\ wire' = ClosedServer(b, wire)
  <2>1. runner' \in [Bridge -> RunnerAt] /\ runner'[b] = runner[b] /\ \A c \in Bridge : c # b => runner'[c] = runner[c]
    BY <1>1 DEF PadAll, PadTypeOK
  <2>2. QED
    BY <1>1, <1>2, <2>1, UnlistenKeeps
<1>3. CASE UNCHANGED <<listening, wire>>
  BY <1>1, <1>3 DEF PadAll, PadTypeOK, Shown, Wired, Said
<1>4. QED
  BY <1>1, <1>2, <1>3

-----------------------------------------------------------------------------
(* gamepad_helper.c.                                                        *)

\* A step of the helper of one bridge.
LEMMA PadSteps ==
  ASSUME PadAll, NEW b \in Bridge, UNCHANGED <<view, gen, started, fields, runner, listening>>,
         wire' \in [Bridge -> Wires], pad' \in [Bridge -> PadAt], plays' \in [Bridge -> Buttons],
         \A c \in Bridge : c # b => wire'[c] = wire[c] /\ pad'[c] = pad[c] /\ plays'[c] = plays[c],
         Wired(b)'
  PROVE  PadAll'
<1>1. ASSUME NEW c \in Bridge PROVE Wired(c)'
  <2>1. Wired(c)
    BY DEF PadAll
  <2>2. CASE c = b
    BY <2>2
  <2>3. CASE c # b
    BY <2>1, <2>3 DEF Wired, Said
  <2>4. QED
    BY <2>2, <2>3
<1>2. fields' \in Fields /\ fields'.state = fields.state /\ runner' \in [Bridge -> RunnerAt] /\ listening' \subseteq Bridge
      /\ UNCHANGED <<view, gen, started>>
  BY DEF PadAll, PadTypeOK
<1>3. QED
  BY <1>1, <1>2, BridgeSteps

HelperStill == UNCHANGED <<view, gen, started, fields, runner, listening>>

LEMMA RestStill == ASSUME UNCHANGED HelperRest PROVE HelperStill
BY DEF HelperRest, HelperStill, onScreen, threads

\* Where the helper goes, with its connection as it is, and its device as it is or at rest.
LEMMA GoesKeeps ==
  ASSUME PadAll, NEW b \in Bridge, HelperStill, wire' = wire, NEW to \in PadAt \ {"none", "loop"}, Ends(b, to),
         runner[b] \notin {"none", "bind", "exec"}, to \in Early => pad[b] \in Early,
         plays' = plays \/ plays' = [plays EXCEPT ![b] = {}],
         pad[b] = "loop" => plays' = [plays EXCEPT ![b] = {}]
  PROVE  PadAll'
<1>1. PadTypeOK /\ Wired(b)
  BY DEF PadAll
<1>2. pad' = [pad EXCEPT ![b] = to] /\ UNCHANGED <<view, gen, started, fields, runner, listening>>
  BY DEF Ends, HelperStill
<1>3. pad' \in [Bridge -> PadAt] /\ pad'[b] = to /\ \A c \in Bridge : c # b => pad'[c] = pad[c]
  BY <1>1, <1>2 DEF PadTypeOK
<1>4. plays' \in [Bridge -> Buttons] /\ plays'[b] \in {plays[b], {}} /\ \A c \in Bridge : c # b => plays'[c] = plays[c]
  BY <1>1 DEF PadTypeOK, Buttons
<1>5. plays'[b] = {}
  <2>1. CASE pad[b] = "loop"
    BY <1>1, <2>1 DEF PadTypeOK
  <2>2. CASE pad[b] # "loop"
    BY <1>1, <1>4, <2>2 DEF Wired
  <2>3. QED
    BY <2>1, <2>2
<1>6. Wired(b)'
  BY <1>1, <1>2, <1>3, <1>5 DEF Wired
<1>7. wire' \in [Bridge -> Wires] /\ \A c \in Bridge : c # b => wire'[c] = wire[c]
  BY <1>1 DEF PadTypeOK
<1>8. QED
  BY <1>2, <1>3, <1>4, <1>6, <1>7, PadSteps

LEMMA HelperRuns ==
  ASSUME PadAll, NEW b \in Bridge, pad[b] # "none"
  PROVE  runner[b] \notin {"none", "bind", "exec"}
BY DEF PadAll, Wired

LEMMA CreateKeeps == ASSUME PadAll, NEW b \in Bridge, CreateDevice(b) PROVE PadAll'
<1>1. pad[b] = "create" /\ UNCHANGED HelperRest /\ wire' = wire /\ plays' = plays /\ (Ends(b, "find") \/ Ends(b, "dead"))
  BY DEF CreateDevice
<1>2. HelperStill /\ runner[b] \notin {"none", "bind", "exec"}
  BY <1>1, RestStill, HelperRuns
<1>3. "find" \in PadAt \ {"none", "loop"} /\ "dead" \in PadAt \ {"none", "loop"} /\ "dead" \notin Early /\ pad[b] \in Early
  BY <1>1 DEF PadAt, Early
<1>4. CASE Ends(b, "find")
  BY <1>1, <1>2, <1>3, <1>4, GoesKeeps
<1>5. CASE Ends(b, "dead")
  BY <1>1, <1>2, <1>3, <1>5, GoesKeeps
<1>6. QED
  BY <1>1, <1>4, <1>5

LEMMA FindKeeps == ASSUME PadAll, NEW b \in Bridge, FindNode(b) PROVE PadAll'
<1>1. /\ pad[b] = "find" /\ UNCHANGED HelperRest /\ wire' = wire
      /\ \/ (Ends(b, "inject") \/ Ends(b, "connect")) /\ plays' = plays
         \/ Ends(b, "dead") /\ plays' = [plays EXCEPT ![b] = {}]
  BY DEF FindNode, Destroyed
<1>2. HelperStill /\ runner[b] \notin {"none", "bind", "exec"}
  BY <1>1, RestStill, HelperRuns
<1>3. /\ "inject" \in PadAt \ {"none", "loop"} /\ "connect" \in PadAt \ {"none", "loop"}
      /\ "dead" \in PadAt \ {"none", "loop"} /\ "dead" \notin Early /\ pad[b] \in Early
  BY <1>1 DEF PadAt, Early
<1>4. CASE Ends(b, "inject") /\ plays' = plays
  BY <1>1, <1>2, <1>3, <1>4, GoesKeeps
<1>5. CASE Ends(b, "connect") /\ plays' = plays
  BY <1>1, <1>2, <1>3, <1>5, GoesKeeps
<1>6. CASE Ends(b, "dead") /\ plays' = [plays EXCEPT ![b] = {}]
  BY <1>1, <1>2, <1>3, <1>6, GoesKeeps
<1>7. QED
  BY <1>1, <1>4, <1>5, <1>6

LEMMA InjectKeeps == ASSUME PadAll, NEW b \in Bridge, InjectNode(b) PROVE PadAll'
<1>1. /\ pad[b] = "inject" /\ UNCHANGED HelperRest /\ wire' = wire
      /\ \/ Ends(b, "connect") /\ plays' = plays
         \/ Ends(b, "dead") /\ plays' = [plays EXCEPT ![b] = {}]
  BY DEF InjectNode, Destroyed
<1>2. HelperStill /\ runner[b] \notin {"none", "bind", "exec"}
  BY <1>1, RestStill, HelperRuns
<1>3. /\ "connect" \in PadAt \ {"none", "loop"}
      /\ "dead" \in PadAt \ {"none", "loop"} /\ "dead" \notin Early /\ pad[b] \in Early
  BY <1>1 DEF PadAt, Early
<1>4. CASE Ends(b, "connect") /\ plays' = plays
  BY <1>1, <1>2, <1>3, <1>4, GoesKeeps
<1>5. CASE Ends(b, "dead") /\ plays' = [plays EXCEPT ![b] = {}]
  BY <1>1, <1>2, <1>3, <1>5, GoesKeeps
<1>6. QED
  BY <1>1, <1>4, <1>5

LEMMA ConnectPadKeeps == ASSUME PadAll, NEW b \in Bridge, ConnectPad(b) PROVE PadAll'
<1>1. /\ pad[b] = "connect" /\ UNCHANGED HelperRest /\ plays' = plays
      /\ \/ b \in listening /\ Ends(b, "loop") /\ wire' = [wire EXCEPT ![b].link = "backlog"]
         \/ Ends(b, "remove") /\ wire' = wire
  BY DEF ConnectPad
<1>2. HelperStill /\ runner[b] \notin {"none", "bind", "exec"}
  BY <1>1, RestStill, HelperRuns
<1>3. CASE Ends(b, "remove") /\ wire' = wire
  <2>1. "remove" \in PadAt \ {"none", "loop"} /\ "remove" \notin Early
    BY DEF PadAt, Early
  <2>2. QED
    BY <1>1, <1>2, <1>3, <2>1, GoesKeeps
<1>4. CASE b \in listening /\ Ends(b, "loop") /\ wire' = [wire EXCEPT ![b].link = "backlog"]
  <2>1. PadTypeOK /\ Wired(b) /\ wire \in [Bridge -> Wires] /\ "backlog" \in LinkIs
    BY DEF PadAll, PadTypeOK, LinkIs
  <2>2. /\ wire' \in [Bridge -> Wires] /\ wire'[b].link = "backlog" /\ wire'[b].sent = wire[b].sent
        /\ \A c \in Bridge : c # b => wire'[c] = wire[c]
    BY <1>4, <2>1, LinkFacts
  <2>3. pad' \in [Bridge -> PadAt] /\ pad'[b] = "loop" /\ \A c \in Bridge : c # b => pad'[c] = pad[c]
    BY <1>4, <2>1 DEF Ends, PadTypeOK, PadAt
  <2>4. UNCHANGED <<view, gen, started, fields, runner, listening>>
    BY <1>2 DEF HelperStill
  <2>5. wire[b].link = "none" /\ wire[b].sent = <<>> /\ plays[b] = {}
    BY <1>1, <2>1 DEF Wired, Early
  <2>6. Wired(b)'
    BY <1>1, <1>2, <1>4, <2>1, <2>2, <2>3, <2>4, <2>5 DEF Wired, Early
  <2>7. plays' \in [Bridge -> Buttons] /\ \A c \in Bridge : c # b => plays'[c] = plays[c]
    BY <1>1, <2>1 DEF PadTypeOK
  <2>8. QED
    BY <2>2, <2>3, <2>4, <2>6, <2>7, PadSteps
<1>5. QED
  BY <1>1, <1>3, <1>4

LEMMA Played ==
  ASSUME NEW S, NEW s \in Seq(S), s # <<>>
  PROVE  /\ Tail(s) \in Seq(S) /\ Head(s) \in S
         /\ IF Tail(s) = <<>> THEN Last(s) = Head(s) ELSE Last(Tail(s)) = Last(s)
<1>1. /\ Len(s) \in Nat /\ Len(s) > 0 /\ Head(s) = s[1] /\ Tail(s) \in Seq(S) /\ Len(Tail(s)) = Len(s) - 1
      /\ (\A n \in 1..Len(s) - 1 : Tail(s)[n] = s[n + 1]) /\ Head(s) \in S
  OBVIOUS
<1>2. Last(s) = s[Len(s)] /\ Last(Tail(s)) = Tail(s)[Len(s) - 1]
  BY <1>1 DEF Last
<1>3. CASE Tail(s) = <<>>
  <2>1. Len(<<>>) = 0
    OBVIOUS
  <2>2. Len(s) = 1
    <3>1. Len(Tail(s)) = 0
      BY <1>3, <2>1
    <3>2. Len(Tail(s)) = Len(s) - 1 /\ Len(s) \in Nat
      BY <1>1
    <3>3. QED
      BY <3>1, <3>2
  <2>3. QED
    BY <1>1, <1>2, <1>3, <2>2
<1>4. CASE Tail(s) # <<>>
  <2>1. Len(s) # 1
    BY <1>1, <1>4
  <2>2. Len(s) - 1 \in 1..Len(s) - 1 /\ (Len(s) - 1) + 1 = Len(s)
    BY <1>1, <2>1
  <2>3. Tail(s)[Len(s) - 1] = s[Len(s)]
    BY <1>1, <2>2
  <2>4. QED
    BY <1>1, <1>2, <1>4, <2>3
<1>5. QED
  BY <1>3, <1>4

LEMMA EmitKeeps == ASSUME PadAll, NEW b \in Bridge, EmitState(b) PROVE PadAll'
<1>1. /\ pad[b] = "loop" /\ wire[b].sent # <<>> /\ plays' = [plays EXCEPT ![b] = Head(wire[b].sent)]
      /\ wire' = [wire EXCEPT ![b].sent = Tail(@)] /\ pad' = pad
      /\ UNCHANGED <<view, gen, started, fields, runner, listening>>
  BY RestStill DEF EmitState, HelperStill
<1>2. PadTypeOK /\ Wired(b) /\ wire \in [Bridge -> Wires] /\ wire[b] \in Wires /\ wire[b].sent \in Seq(Buttons)
  BY DEF PadAll, PadTypeOK, Wires
<1> DEFINE s == wire[b].sent
           r == [wire[b] EXCEPT !.sent = Tail(s)]
<1>3. /\ Tail(s) \in Seq(Buttons) /\ Head(s) \in Buttons
      /\ IF Tail(s) = <<>> THEN Last(s) = Head(s) ELSE Last(Tail(s)) = Last(s)
  BY <1>1, <1>2, Played
<1>4. r \in Wires /\ r.link = wire[b].link /\ r.sent = Tail(s) /\ wire' = [wire EXCEPT ![b] = r]
  BY <1>1, <1>2, <1>3 DEF Wires
<1> HIDE DEF r
<1>5. wire' \in [Bridge -> Wires] /\ wire'[b] = r /\ \A c \in Bridge : c # b => wire'[c] = wire[c]
  BY <1>2, <1>4
<1>6. plays' \in [Bridge -> Buttons] /\ plays'[b] = Head(s) /\ \A c \in Bridge : c # b => plays'[c] = plays[c]
  BY <1>1, <1>2, <1>3 DEF PadTypeOK
<1>7. Said(b)' = Said(b)
  BY <1>1, <1>3, <1>4, <1>5, <1>6 DEF Said
<1>8. Wired(b)'
  BY <1>1, <1>2, <1>4, <1>5, <1>7 DEF Wired
<1>9. pad' \in [Bridge -> PadAt] /\ \A c \in Bridge : c # b => pad'[c] = pad[c]
  BY <1>1, <1>2 DEF PadTypeOK
<1>10. QED
  BY <1>1, <1>5, <1>6, <1>8, <1>9, PadSteps

LEMMA EndKeeps ==
  ASSUME PadAll, NEW b \in Bridge, ReadEnds(b) \/ RemoveNode(b) \/ DestroyDevice(b) \/ PadKilled(b)
  PROVE  PadAll'
<1>1. UNCHANGED HelperRest /\ wire' = wire /\ pad[b] # "none"
  BY DEF ReadEnds, RemoveNode, DestroyDevice, PadKilled, Alive
<1>2. HelperStill /\ runner[b] \notin {"none", "bind", "exec"}
  BY <1>1, RestStill, HelperRuns
<1>3. \A to \in {"remove", "destroy", "dead"} : to \in PadAt \ {"none", "loop"} /\ to \notin Early
  BY DEF PadAt, Early
<1>4. CASE ReadEnds(b)
  <2>1. Ends(b, "remove") /\ plays' = [plays EXCEPT ![b] = {}]
    BY <1>4 DEF ReadEnds
  <2>2. QED
    BY <1>1, <1>2, <1>3, <2>1, GoesKeeps
<1>5. CASE RemoveNode(b)
  <2>1. Ends(b, "destroy") /\ plays' = plays /\ pad[b] # "loop"
    BY <1>5 DEF RemoveNode
  <2>2. QED
    BY <1>1, <1>2, <1>3, <2>1, GoesKeeps
<1>6. CASE DestroyDevice(b) \/ PadKilled(b)
  <2>1. Ends(b, "dead") /\ plays' = [plays EXCEPT ![b] = {}]
    BY <1>6 DEF DestroyDevice, PadKilled, Destroyed
  <2>2. QED
    BY <1>1, <1>2, <1>3, <2>1, GoesKeeps
<1>7. QED
  BY <1>4, <1>5, <1>6

-----------------------------------------------------------------------------
(* The gamepad: the whole.                                                  *)

PlanSpace ==
  [grabs : Nat, pads : Nat, uses : SUBSET Window, windows : Nat, touches : Nat,
   stalls : Nat, deaths : Nat, tops : Nat, conf : Confs, reports : SUBSET Proc,
   forks : Nat, exits : Nat, refusals : Nat]

Kinds == {"windows", "touches", "tops", "forks", "exits", "refusals", "deaths", "stalls"}

LEMMA SpendKeeps ==
  ASSUME plan \in PlanSpace, NEW kind \in Kinds, Spend(kind)
  PROVE  plan' \in PlanSpace
<1>1. plan' = [plan EXCEPT ![kind] = plan[kind] - 1] /\ plan[kind] > 0
  BY DEF Spend
<1>2. plan[kind] \in Nat
  BY DEF PlanSpace, Kinds
<1>3. PICK n \in Nat : n = plan[kind] - 1
  BY <1>1, <1>2
<1>4. plan' = [plan EXCEPT ![kind] = n]
  BY <1>1, <1>3
<1>5. QED
  BY <1>3, <1>4 DEF PlanSpace, Kinds

LEMMA PlanStays == ASSUME plan \in PlanSpace, [Next]_vars PROVE plan' \in PlanSpace
<1>1. plan' = plan \/ \E kind \in Kinds : Spend(kind)
  <2>1. CASE PadUser
    BY <2>1 DEF PadUser, Kinds
  <2>2. CASE TopNext
    BY <2>2 DEF TopNext, Kinds
  <2>3. CASE ~PadUser /\ ~TopNext
    BY <2>3 DEF Next, vars, Kinds
  <2>4. QED
    BY <2>1, <2>2, <2>3
<1>2. QED
  BY <1>1, SpendKeeps

PadUserSteps ==
  \/ \E w \in Window : WindowResumed(w) \/ WindowPaused(w) \/ WindowDestroyed(w) \/ OverlayStep(w)
  \/ PadEnabled

LEMMA PadUserKeeps == ASSUME PadAll, PadUserSteps PROVE PadAll'
<1>1. CASE PadEnabled
  BY <1>1, EnabledKeeps
<1>2. CASE \E w \in Window : WindowResumed(w) \/ WindowPaused(w) \/ WindowDestroyed(w) \/ OverlayStep(w)
  BY <1>2, ResumedKeeps, PausedKeeps, DestroyedKeeps, TouchKeeps
<1>3. QED
  BY <1>1, <1>2 DEF PadUserSteps

LEMMA PadNextKeeps == ASSUME PadAll, PadNext PROVE PadAll'
<1>1. PICK b \in Bridge : BridgeStep(b) \/ PadHelperStep(b) \/ PadKilled(b)
  BY DEF PadNext
<1>2. CASE BridgeStep(b)
  BY <1>2, ClaimKeeps, ExecKeeps, OwnKeeps, AcceptKeeps, JoinKeeps, FinallyKeeps, WatcherKeeps DEF BridgeStep
<1>3. CASE PadHelperStep(b)
  BY <1>3, CreateKeeps, FindKeeps, InjectKeeps, ConnectPadKeeps, EmitKeeps, EndKeeps DEF PadHelperStep
<1>4. CASE PadKilled(b)
  BY <1>4, EndKeeps
<1>5. QED
  BY <1>1, <1>2, <1>3, <1>4

LEMMA PadStays == ASSUME PadAll, UNCHANGED padVars PROVE PadAll'
BY DEF padVars, onScreen, threads, helpers, PadAll, PadTypeOK, Shown, Wired, Said

LEMMA PadStarts == ASSUME Init PROVE PadAll /\ plan \in PlanSpace
<1>1. /\ view = [w \in Window |-> NoView] /\ gen = NoOne /\ started = 0
      /\ fields = [server |-> NoOne, client |-> NoOne, helper |-> NoOne, state |-> {}]
      /\ runner = [b \in Bridge |-> "none"] /\ listening = {}
      /\ wire = [b \in Bridge |-> [link |-> "none", sent |-> <<>>]]
      /\ pad = [b \in Bridge |-> "none"] /\ plays = [b \in Bridge |-> {}]
  BY DEF Init, PadInit
<1>2. NoView \in Overlays /\ NoView.held = {} /\ {} \in Buttons /\ <<>> \in Seq(Buttons)
  BY NothingHeld
<1>3. started \in 0..MaxBridges /\ NoOne \notin Bridge
  BY <1>1, GamepadAssumption
<1>4. fields \in Fields /\ fields.state = {} /\ fields.server = NoOne /\ fields.client = NoOne
  BY <1>1, <1>2 DEF Fields
<1>5. wire \in [Bridge -> Wires] /\ \A b \in Bridge : wire[b].link = "none" /\ wire[b].sent = <<>>
  BY <1>1, <1>2 DEF Wires, LinkIs
<1>6. PadTypeOK
  BY <1>1, <1>2, <1>3, <1>4, <1>5 DEF PadTypeOK, RunnerAt, PadAt, Early
<1>7. Shown
  BY <1>1, <1>2, <1>4 DEF Shown
<1>8. \A b \in Bridge : Wired(b)
  BY <1>1, <1>3, <1>4, <1>5 DEF Wired, Early
<1>9. plan \in PlanSpace
  BY PlansAssumption DEF Init, PlanSpace
<1>10. QED
  BY <1>6, <1>7, <1>8, <1>9 DEF PadAll

\* A connection of the gamepad is its generation's or closed, and its client was sent the
\* state of now last (GamepadBridge.java, runBridge and writePacketLocked; gamepad_helper.c,
\* main).
THEOREM PadAlways == Spec => []PadAll
<1> DEFINE I == PadAll /\ plan \in PlanSpace
<1>1. Init => I
  BY PadStarts
<1>2. I /\ [Next]_vars => I'
  <2>1. SUFFICES ASSUME I, [Next]_vars PROVE PadAll'
    BY PlanStays
  <2>2. PadUserSteps \/ PadNext \/ UNCHANGED padVars
    <3>1. plan.uses \subseteq Window
      BY <2>1 DEF PlanSpace
    <3>2. CASE PadUser
      BY <3>1, <3>2 DEF PadUser, PadUserSteps
    <3>3. CASE ~PadUser
      BY <2>1, <3>3 DEF Next, vars
    <3>4. QED
      BY <3>2, <3>3
  <2>3. QED
    BY <2>1, <2>2, PadUserKeeps, PadNextKeeps, PadStays
<1>3. I => PadAll
  OBVIOUS
<1> HIDE DEF I
<1>4. QED
  BY <1>1, <1>2, <1>3, PTL DEF Spec

\* What waits and lives is at work for the bridge of now.
LEMMA WaitingHelper ==
  ASSUME PadAll, Settled, NEW b \in Bridge, Alive(b)
  PROVE  /\ gen = b /\ app.up /\ pad[b] = "loop" /\ wire[b].sent = <<>>
         /\ wire[b].link = "backlog" \/ fields.client = b
<1>1. /\ app.up => runner[b] \in {"none", "done"}
                   \/ (runner[b] = "accept" /\ b \in listening /\ wire[b].link # "backlog")
      /\ pad[b] = "loop" /\ wire[b].sent = <<>> /\ wire[b].link # "closed" /\ app.up
  BY DEF Settled, Waits
<1>2. Wired(b) /\ wire[b].link \in LinkIs
  BY DEF PadAll, PadTypeOK, Wires
<1>3. wire[b].link \in {"backlog", "open"} /\ runner[b] # "join"
  BY <1>1, <1>2 DEF Wired, LinkIs
<1>4. QED
  BY <1>1, <1>2, <1>3 DEF Wired

\* No helper that holds the input or a device is left by those who started it
\* (InputGrab.java, closeAllQuietly; GamepadBridge.java, runBridge).
THEOREM NobodyIsLeft == Spec => []NobodyLeft
<1>1. GrabAll /\ PadAll => NobodyLeft
  <2>1. PadAll => HelpersEnd
    BY WaitingHelper DEF HelpersEnd
  <2>2. QED
    BY <2>1, NoOrphans DEF NobodyLeft
<1>2. QED
  BY <1>1, GrabAlways, PadAlways, PTL

\* When nothing is left to run, the device of the overlay shows its state, and no button is
\* down on a device without a finger on the overlay of the bridge of now
\* (VirtualGamepadView.java, onTouchEvent; GamepadBridge.java, writePacketLocked;
\* gamepad_helper.c, main).
THEOREM PadIsObeyed == Spec => []PadObeys
<1>1. PadAll => PadObeys
  <2>1. SUFFICES ASSUME PadAll, Settled, NEW b \in Bridge
                 PROVE  /\ gen = b /\ fields.client = b /\ pad[b] = "loop" /\ app.up => plays[b] = fields.state
                        /\ plays[b] # {} => ~Untouched(b)
    BY DEF PadObeys
  <2>2. Wired(b) /\ Shown
    BY <2>1 DEF PadAll
  <2>3. ASSUME fields.client = b, pad[b] = "loop" PROVE plays[b] = fields.state
    <3>1. Alive(b)
      BY <2>3 DEF Alive
    <3>2. wire[b].sent = <<>>
      BY <2>1, <3>1, WaitingHelper
    <3>3. QED
      BY <2>2, <2>3, <3>2 DEF Wired, Said
  <2>4. ASSUME plays[b] # {} PROVE ~Untouched(b)
    <3>1. pad[b] = "loop" /\ Alive(b) /\ wire[b].link # "backlog"
      BY <2>2, <2>4 DEF Wired, Alive
    <3>2. gen = b /\ app.up /\ fields.client = b
      BY <2>1, <3>1, WaitingHelper
    <3>3. fields.state # {}
      BY <2>3, <2>4, <3>1, <3>2
    <3>4. PICK w \in Window : view[w].held = fields.state /\ view[w].held \subseteq Touches(view[w])
      BY <2>2, <3>3 DEF Shown
    <3>5. DOMAIN view[w].at # {}
      BY <3>3, <3>4 DEF Touches
    <3>6. QED
      BY <3>2, <3>5 DEF Untouched
  <2>5. QED
    BY <2>3, <2>4
<1>2. QED
  BY <1>1, PadAlways, PTL
=============================================================================
