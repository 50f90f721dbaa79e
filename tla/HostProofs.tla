----------------------------- MODULE HostProofs -----------------------------
(***************************************************************************)
(* The files of the host that name the nodes, for any nodes, endpoints,    *)
(* texts and commands side by side.  Why they are right: a plan of         *)
(* /etc/hosts that is renamed into place was compared with the file and    *)
(* only an edit after that comparison can be lost; a writer of the SSH     *)
(* files that was alone all the time read the nodes as they still are.     *)
(***************************************************************************)
EXTENDS Host, FiniteSetTheorems, TLAPS

Text == [text : Texts, block : SUBSET Nodes]
Entries == UNION {[S -> Endpoints \cup {0}] : S \in SUBSET Nodes}
Fragment == {NoFragment, Foreign} \cup [is : {"ours"}, entries : Entries]
Todos == {<<"fragment", "include">>, <<"fragment">>, <<"include">>,
          <<"exclude", "unlink">>, <<"exclude">>, <<"unlink">>}

Runs == {NoRun}
        \cup [at : {"staged", "checked", "rename"}, before : Text, after : Text]
        \cup [at : {"ssh"}, action : {"install", "remove"}, alone : BOOLEAN]
        \cup [at : {"writing"}, alone : BOOLEAN, todo : Todos, new : Fragment]

TypeOK ==
  /\ endpoint \in [Nodes -> Endpoints \cup {0}] /\ resolved \subseteq Nodes
  /\ hosts \in Text /\ edited \in Texts /\ raced \in BOOLEAN
  /\ fragment \in Fragment /\ include \in {"none", "unmarked", "ours"}
  /\ disturbed \in BOOLEAN /\ synced \in BOOLEAN
  /\ run \in [Slots -> Runs]

\* A plan of /etc/hosts changes the block only; before its rename the text is
\* still the one it was made from.
Planned(c) ==
  /\ run[c].at \in {"staged", "checked", "rename"} => run[c].after.text = run[c].before.text
  /\ run[c].at = "rename" /\ ~raced => run[c].before.text = hosts.text

\* A writer that is alone.
Alone(c) ==
  c \in Writers =>
    /\ run[c].alone => Writers = {c}
    /\ ~disturbed => run[c].alone

\* What it was told fits the nodes there are, and what it has still to write
\* is what is missing.
Fitting(c) ==
  /\ run[c].at = "ssh" /\ run[c].alone /\ run[c].action = "remove" => Committed = {}
  /\ run[c].at = "writing" /\ run[c].alone =>
     LET r == run[c]
     IN /\ r.todo[1] \in {"fragment", "include"} => Committed # {}
        /\ r.todo[1] \in {"unlink", "exclude"} => Committed = {}
        /\ r.todo[1] = "fragment" => r.new = Published
        /\ r.todo[1] # "fragment" => r.new = NoFragment
        /\ r.todo = <<"fragment">> => include = "ours"
        /\ r.todo = <<"include">> => fragment = Published
        /\ r.todo = <<"exclude">> => fragment = NoFragment
        /\ r.todo = <<"unlink">> => include # "ours" /\ fragment.is # "none"
        /\ r.todo = <<"exclude", "unlink">> => fragment.is # "none"

Inv ==
  /\ TypeOK
  /\ Committed \subseteq resolved
  /\ \A c \in Slots : Planned(c) /\ Alone(c) /\ Fitting(c)
  /\ synced => Writers = {}
  /\ OutsideKept /\ AliasesCurrent /\ IncludeResolves

-----------------------------------------------------------------------------
LEMMA InitInv == HostInit => Inv
  <1> SUFFICES ASSUME HostInit PROVE Inv
    OBVIOUS
  <1>0. FilesInit
    BY DEF HostInit
  <1>1. TypeOK
    BY <1>0 DEF TypeOK, FilesInit, Text, Fragment, Runs
  <1>2. Committed = {} /\ Writers = {} /\ \A c \in Slots : run[c].at = "idle"
    BY <1>0 DEF FilesInit, Committed, Writers, NoRun
  <1>3. \A c \in Slots : Planned(c) /\ Alone(c) /\ Fitting(c)
    BY <1>2 DEF Planned, Alone, Fitting
  <1>4. OutsideKept /\ AliasesCurrent /\ IncludeResolves
    BY <1>0 DEF FilesInit, OutsideKept,
       AliasesCurrent, IncludeResolves
  <1> QED
    BY <1>1, <1>2, <1>3, <1>4 DEF Inv

\* A step that leaves the deployment and the SSH files alone keeps what their
\* writers know; a killed command is one writer less.
LEMMA WritersKept ==
    ASSUME Inv, UNCHANGED <<endpoint, resolved, sshvars>>,
           \A c \in Slots : c \in Writers' => run'[c] = run[c] /\ c \in Writers
    PROVE  /\ Committed' \subseteq resolved'
           /\ \A c \in Slots : (Alone(c) /\ Fitting(c))'
           /\ (synced => Writers = {})'
           /\ (AliasesCurrent /\ IncludeResolves)'
  <1>1. Writers' \subseteq Writers
    BY DEF Writers
  <1>2. Committed' = Committed /\ Published' = Published
    BY DEF Committed, Published
  <1>3. ASSUME NEW c \in Slots PROVE (Alone(c) /\ Fitting(c))'
    <2>1. CASE c \in Writers'
      BY <1>1, <1>2, <2>1 DEF Inv, Alone, Fitting, sshvars
    <2>2. CASE c \notin Writers'
      BY <2>2 DEF Alone, Fitting, Writers
    <2> QED
      BY <2>1, <2>2
  <1> QED
    BY <1>1, <1>2, <1>3 DEF Inv, AliasesCurrent, IncludeResolves, AliasesCurrent,
       IncludeResolves, sshvars

LEMMA HostsCommandsInv == ASSUME Inv, HostsCommands PROVE Inv'
  <1>0. TypeOK /\ OutsideKept /\ \A c \in Slots : Planned(c)
    BY DEF Inv
  <1>1. ASSUME NEW c \in Slots, NEW action \in {"install", "uninstall"}, HostsBegin(c, action) PROVE Inv'
    <2> DEFINE after == HostsPlan(action, hosts, Committed)
               plan == [at |-> "staged", before |-> hosts, after |-> after]
    <2>1. after \in Text /\ after.text = hosts.text
      BY <1>0 DEF TypeOK, HostsPlan, Text, Committed
    <2>2. run' = [run EXCEPT ![c] = plan] /\ UNCHANGED <<endpoint, resolved, hostvars, sshvars>>
      BY <1>1 DEF HostsBegin
    <2>3. plan \in Runs /\ plan.at = "staged" /\ plan.after.text = plan.before.text
      BY <1>0, <2>1 DEF TypeOK, Runs
    <2> HIDE DEF plan
    <2>4. TypeOK' /\ OutsideKept' /\ \A d \in Slots : Planned(d)'
      BY <1>0, <2>2, <2>3 DEF TypeOK, OutsideKept, Planned, hostvars, sshvars
    <2>5. \A d \in Slots : d \in Writers' => run'[d] = run[d] /\ d \in Writers
      BY <1>0, <2>2, <2>3 DEF TypeOK, Writers
    <2> QED
      BY <2>2, <2>4, <2>5, WritersKept DEF Inv
  <1>2. ASSUME NEW c \in Slots, HostsCheck(c) PROVE Inv'
    <2>1. PICK new : /\ run' = [run EXCEPT ![c] = new] /\ new \in Runs /\ new.at \in {"idle", "checked", "rename"}
                     /\ new.at \in {"checked", "rename"} =>
                          new.before = run[c].before /\ new.after = run[c].after /\ hosts = run[c].before
      <3> DEFINE new == IF ~Unchanged(c) THEN NoRun
                        ELSE [run[c] EXCEPT !.at = IF run[c].at = "staged" THEN "checked" ELSE "rename"]
      <3>1. run[c].at \in {"staged", "checked"} /\ run' = [run EXCEPT ![c] = new]
        <4>1. CASE Unchanged(c)
          BY <1>2, <4>1 DEF HostsCheck
        <4>2. CASE ~Unchanged(c)
          BY <1>2, <4>2 DEF HostsCheck
        <4> QED
          BY <4>1, <4>2
      <3>2. run[c] \in [at : {"staged", "checked", "rename"}, before : Text, after : Text]
        BY <1>0, <3>1 DEF TypeOK, Runs, NoRun
      <3>3. new \in Runs /\ new.at \in {"idle", "checked", "rename"}
        BY <3>1, <3>2 DEF Runs, NoRun
      <3>4. new.at \in {"checked", "rename"} =>
              new.before = run[c].before /\ new.after = run[c].after /\ hosts = run[c].before
        BY <3>2 DEF NoRun, Unchanged
      <3> QED
        BY <3>1, <3>3, <3>4
    <2>2. UNCHANGED <<endpoint, resolved, hostvars, sshvars>> /\ run[c].at \in {"staged", "checked"}
      BY <1>2 DEF HostsCheck
    <2>4. TypeOK' /\ OutsideKept' /\ \A d \in Slots : Planned(d)'
      BY <1>0, <2>1, <2>2 DEF TypeOK, OutsideKept, Planned, hostvars, sshvars
    <2>5. \A d \in Slots : d \in Writers' => run'[d] = run[d] /\ d \in Writers
      BY <1>0, <2>1 DEF TypeOK, Writers
    <2> QED
      BY <2>2, <2>4, <2>5, WritersKept DEF Inv
  <1>3. ASSUME NEW c \in Slots, HostsRename(c) PROVE Inv'
    <2>1. run[c].at = "rename" /\ hosts' = run[c].after /\ run' = [run EXCEPT ![c] = NoRun]
          /\ UNCHANGED <<endpoint, resolved, edited, raced, sshvars>>
      BY <1>3 DEF HostsRename
    <2>2. run[c].after \in Text /\ run[c].after.text = run[c].before.text
      BY <1>0, <2>1 DEF TypeOK, Runs, NoRun, Planned
    <2>3. ~raced => run[c].after.text = hosts.text
      BY <1>0, <2>1, <2>2 DEF Planned
    <2>4. TypeOK' /\ OutsideKept'
      BY <1>0, <2>1, <2>2, <2>3 DEF TypeOK, Runs, OutsideKept, sshvars
    <2>5. \A d \in Slots : Planned(d)'
      BY <1>0, <2>1, <2>3 DEF TypeOK, Planned, NoRun
    <2>6. \A d \in Slots : d \in Writers' => run'[d] = run[d] /\ d \in Writers
      BY <1>0, <2>1 DEF TypeOK, Writers, NoRun
    <2> QED
      BY <2>1, <2>4, <2>5, <2>6, WritersKept DEF Inv
  <1>4. CASE EditHosts
    <2>1. PICK text \in Texts : hosts' = [hosts EXCEPT !.text = text] /\ edited' = text
      BY <1>4 DEF EditHosts
    <2>2. raced' = (raced \/ \E c \in Slots : run[c].at = "rename") /\ UNCHANGED <<endpoint, resolved, run, sshvars>>
      BY <1>4 DEF EditHosts
    <2>3. TypeOK' /\ OutsideKept' /\ \A d \in Slots : Planned(d)'
      BY <1>0, <2>1, <2>2 DEF TypeOK, Text, OutsideKept, Planned, sshvars
    <2>4. \A d \in Slots : d \in Writers' => run'[d] = run[d] /\ d \in Writers
      BY <2>2 DEF Writers
    <2> QED
      BY <2>2, <2>3, <2>4, WritersKept DEF Inv
  <1> QED
    BY <1>1, <1>2, <1>3, <1>4 DEF HostsCommands

\* A lifecycle command has changed the deployment; its SSH files come next.
LEMMA BeginsInv ==
    ASSUME Inv, NEW c \in Slots, NEW action \in {"install", "remove"}, run[c].at = "idle",
           WriterBegins(c, action), UNCHANGED hostvars,
           endpoint' \in [Nodes -> Endpoints \cup {0}], resolved' \subseteq Nodes,
           Committed' \subseteq resolved', action = "remove" => Committed' = {}
    PROVE  Inv'
  <1> DEFINE started == [at |-> "ssh", action |-> action, alone |-> Writers = {}]
  <1>0. TypeOK /\ OutsideKept /\ IncludeResolves /\ \A d \in Slots : Planned(d) /\ Alone(d) /\ Fitting(d)
    BY DEF Inv
  <1>1. /\ started \in Runs /\ started.at = "ssh" /\ started.action = action
        /\ started.alone <=> Writers = {}
    BY DEF Runs
  <1>2. /\ run' \in [Slots -> Runs] /\ run'[c] = started
        /\ \A d \in Slots \ {c} : IF d \in Writers THEN run'[d] = [run[d] EXCEPT !.alone = FALSE]
                                  ELSE run'[d] = run[d]
    <2>1. run' = [d \in Slots |-> CASE d = c -> started
                                    [] d \in Writers -> [run[d] EXCEPT !.alone = FALSE]
                                    [] OTHER -> run[d]]
      BY DEF WriterBegins
    <2>2. c \notin Writers
      BY DEF Writers
    <2>3. ASSUME NEW d \in Writers PROVE [run[d] EXCEPT !.alone = FALSE] \in Runs
      <3>1. d \in Slots /\ run[d].at \in {"ssh", "writing"}
        BY DEF Writers
      <3>2. run[d] \in Runs
        BY <1>0, <3>1 DEF TypeOK
      <3> DEFINE r == run[d]
      <3> HIDE DEF r
      <3>3. r \in Runs /\ r.at \in {"ssh", "writing"}
        BY <3>1, <3>2 DEF r
      <3>4. [r EXCEPT !.alone = FALSE] \in Runs
        BY <3>3, ZenonT(60) DEF Runs, NoRun
      <3> QED
        BY <3>4 DEF r
    <2> HIDE DEF started
    <2> QED
      BY <1>0, <1>1, <2>1, <2>2, <2>3 DEF TypeOK
  <1>3. /\ disturbed' = (disturbed \/ Writers # {}) /\ synced' = FALSE
        /\ UNCHANGED <<fragment, include, hosts, edited, raced>>
    BY DEF WriterBegins, hostvars
  <1>4. Writers' = Writers \cup {c} /\ c \notin Writers
        /\ \A d \in Writers : run'[d].at = run[d].at /\ run'[d].alone = FALSE
    <2>1. c \notin Writers /\ c \in Writers'
      BY <1>1, <1>2 DEF Writers
    <2>2. ASSUME NEW d \in Writers PROVE run'[d].at = run[d].at /\ run'[d].alone = FALSE
      <3>1. d \in Slots /\ d # c /\ run'[d] = [run[d] EXCEPT !.alone = FALSE]
        BY <1>2, <2>1 DEF Writers
      <3> QED
        BY <1>0, <3>1 DEF Writers, TypeOK, Runs, NoRun
    <2>3. \A d \in Slots : d # c /\ d \notin Writers => run'[d] = run[d]
      BY <1>2
    <2> QED
      BY <2>1, <2>2, <2>3 DEF Writers
  <1>5. TypeOK'
    BY <1>0, <1>2, <1>3 DEF TypeOK
  <1>6. ASSUME NEW d \in Slots PROVE (Planned(d) /\ Alone(d) /\ Fitting(d))'
    <2>1. CASE d = c
      <3> HIDE DEF started
      <3>1. run'[c].at = "ssh" /\ run'[c].action = action /\ (run'[c].alone <=> Writers = {})
        BY <1>1, <1>2
      <3>2. Planned(c)'
        BY <3>1 DEF Planned
      <3>3. Alone(c)'
        BY <1>3, <1>4, <3>1 DEF Alone
      <3>4. Fitting(c)'
        BY <3>1 DEF Fitting
      <3> QED
        BY <2>1, <3>2, <3>3, <3>4
    <2>2. CASE d \in Writers
      BY <1>3, <1>4, <2>2 DEF Planned, Alone, Fitting, Writers
    <2>3. CASE d # c /\ d \notin Writers
      <3>1. run'[d] = run[d] /\ run[d].at \notin {"ssh", "writing"} /\ d \notin Writers'
        BY <1>2, <1>4, <2>3 DEF Writers
      <3> QED
        BY <1>0, <1>3, <3>1 DEF Planned, Alone, Fitting
    <2> QED
      BY <2>1, <2>2, <2>3
  <1>7. OutsideKept' /\ AliasesCurrent' /\ IncludeResolves'
    BY <1>0, <1>3 DEF OutsideKept, AliasesCurrent, IncludeResolves, OutsideKept, AliasesCurrent,
       IncludeResolves
  <1> QED
    BY <1>3, <1>5, <1>6, <1>7 DEF Inv

\* A writer of the SSH files has finished: if it was alone they must be right.
LEMMA EndsInv ==
    ASSUME Inv, NEW c \in Writers, NEW ok \in BOOLEAN, Ends(c, ok),
           UNCHANGED <<endpoint, resolved, hostvars>>,
           fragment' \in Fragment, include' \in {"none", "unmarked", "ours"},
           ok /\ run[c].alone =>
             (IF Committed = {} THEN fragment' = NoFragment /\ include' # "ours"
              ELSE fragment' = Published /\ include' = "ours"),
           ~(ok /\ run[c].alone) /\ ~disturbed /\ include' = "ours" => fragment'.is = "ours"
    PROVE  Inv'
  <1>0. TypeOK /\ OutsideKept /\ c \in Slots /\ \A d \in Slots : Planned(d) /\ Alone(d) /\ Fitting(d)
    BY DEF Inv, Writers
  <1>1. /\ run' = [run EXCEPT ![c] = NoRun] /\ synced' = (ok /\ run[c].alone)
        /\ disturbed' = (disturbed /\ ~(ok /\ run[c].alone))
        /\ UNCHANGED <<endpoint, resolved, hosts, edited, raced>>
    BY DEF Ends, hostvars
  <1>2. Writers' = Writers \ {c} /\ run'[c] = NoRun /\ \A d \in Slots : d # c => run'[d] = run[d]
    BY <1>0, <1>1 DEF Writers, TypeOK, NoRun
  <1>3. Committed' = Committed /\ Published' = Published
    BY <1>1 DEF Committed, Published
  <1>4. run[c].alone \in BOOLEAN
    BY <1>0 DEF TypeOK, Runs, NoRun, Writers
  <1>5. TypeOK'
    BY <1>0, <1>1, <1>4 DEF TypeOK, Runs
  <1>6. \A d \in Writers : d # c => run[d].alone = FALSE /\ run[c].alone = FALSE
    <2> SUFFICES ASSUME NEW d \in Writers, d # c PROVE run[d].alone = FALSE /\ run[c].alone = FALSE
      OBVIOUS
    <2>1. d \in Slots /\ run[d].alone \in BOOLEAN
      BY <1>0 DEF TypeOK, Runs, NoRun, Writers
    <2> QED
      BY <1>0, <1>4, <2>1 DEF Alone
  <1>7. ASSUME NEW d \in Slots PROVE (Planned(d) /\ Alone(d) /\ Fitting(d))'
    <2>1. CASE d = c
      <3>1. run'[c].at = "idle" /\ c \notin Writers'
        BY <1>2 DEF NoRun
      <3> QED
        BY <2>1, <3>1 DEF Planned, Alone, Fitting
    <2>2. CASE d # c /\ d \in Writers
      <3>1. run'[d] = run[d] /\ run[d].alone = FALSE /\ run[c].alone = FALSE /\ disturbed
        BY <1>0, <1>2, <1>6, <2>2 DEF Alone
      <3>2. run[d].at \in {"ssh", "writing"}
        BY <2>2 DEF Writers
      <3> QED
        BY <1>1, <3>1, <3>2 DEF Planned, Alone, Fitting
    <2>3. CASE d # c /\ d \notin Writers
      <3>1. run'[d] = run[d] /\ run[d].at \notin {"ssh", "writing"} /\ d \notin Writers'
        BY <1>2, <2>3 DEF Writers
      <3> QED
        BY <1>0, <1>1, <3>1 DEF Planned, Alone, Fitting
    <2> QED
      BY <2>1, <2>2, <2>3
  <1>8. (synced => Writers = {})'
    BY <1>0, <1>1, <1>2, <1>6
  <1>9. OutsideKept' /\ AliasesCurrent'
    BY <1>0, <1>1, <1>3 DEF OutsideKept, AliasesCurrent, OutsideKept, AliasesCurrent
  <1>10. IncludeResolves'
    <2>1. CASE ok /\ run[c].alone
      <3>1. include' = "ours" => fragment' = Published
        BY <2>1
      <3> QED
        BY <3>1 DEF IncludeResolves, Published
    <2>2. CASE ~(ok /\ run[c].alone)
      BY <1>1, <2>2 DEF IncludeResolves
    <2> QED
      BY <2>1, <2>2
  <1>11. Committed' \subseteq resolved'
    BY <1>1, <1>3 DEF Inv
  <1> QED
    BY <1>5, <1>7, <1>8, <1>9, <1>10, <1>11 DEF Inv

\* A writer goes on.
LEMMA WritesInv ==
    ASSUME Inv, NEW c \in Writers, NEW new \in Runs, new.at = "writing", new.alone = run[c].alone,
           run' = [run EXCEPT ![c] = new],
           UNCHANGED <<endpoint, resolved, hostvars, disturbed, synced>>,
           fragment' \in Fragment, include' \in {"none", "unmarked", "ours"},
           Fitting(c)',
           ~disturbed /\ include' = "ours" => fragment'.is = "ours"
    PROVE  Inv'
  <1>0. TypeOK /\ OutsideKept /\ c \in Slots /\ \A d \in Slots : Planned(d) /\ Alone(d) /\ Fitting(d)
    BY DEF Inv, Writers
  <1>1. Writers' = Writers /\ run'[c] = new /\ \A d \in Slots : d # c => run'[d] = run[d]
    BY <1>0 DEF Writers, TypeOK
  <1>2. Committed' = Committed /\ Published' = Published
    BY DEF Committed, Published
  <1>3. ~synced
    BY DEF Inv
  <1>4. TypeOK'
    BY <1>0 DEF TypeOK, hostvars
  <1>5. ASSUME NEW d \in Slots PROVE (Planned(d) /\ Alone(d) /\ Fitting(d))'
    <2>1. CASE d = c
      BY <1>0, <1>1, <2>1 DEF Planned, Alone
    <2>2. CASE d # c
      <3>1. Planned(d)' /\ Alone(d)'
        BY <1>0, <1>1, <2>2 DEF Planned, Alone, hostvars
      <3>2. d \in Writers => ~run[d].alone
        BY <1>0, <2>2 DEF Alone
      <3>3. Fitting(d)'
        BY <1>1, <2>2, <3>2 DEF Fitting, Writers
      <3> QED
        BY <3>1, <3>3
    <2> QED
      BY <2>1, <2>2
  <1>6. OutsideKept' /\ AliasesCurrent' /\ IncludeResolves'
    BY <1>0, <1>3 DEF OutsideKept, AliasesCurrent, IncludeResolves, OutsideKept, AliasesCurrent,
       IncludeResolves, hostvars
  <1> QED
    BY <1>1, <1>2, <1>3, <1>4, <1>5, <1>6 DEF Inv

LEMMA PublishedType == ASSUME TypeOK PROVE Published \in Fragment
  <1>1. Committed \in SUBSET Nodes
    BY DEF Committed
  <1>2. [n \in Committed |-> endpoint[n]] \in [Committed -> Endpoints \cup {0}]
    BY <1>1 DEF TypeOK
  <1>3. [n \in Committed |-> endpoint[n]] \in Entries
    BY <1>1, <1>2 DEF Entries
  <1> QED
    BY <1>3 DEF Published, Fragment

LEMMA TodoLists ==
    ASSUME NEW t \in Todos
    PROVE  /\ Len(t) = 1 => t \in {<<"fragment">>, <<"include">>, <<"exclude">>, <<"unlink">>}
           /\ Len(t) # 1 => t \in {<<"fragment", "include">>, <<"exclude", "unlink">>}
           /\ t = <<"fragment", "include">> => Tail(t) = <<"include">>
           /\ t = <<"exclude", "unlink">> => Tail(t) = <<"unlink">>
           /\ Head(t) = t[1]
  <1>1. Len(t) = 1 => t \in {<<"fragment">>, <<"include">>, <<"exclude">>, <<"unlink">>}
    BY DEF Todos
  <1>2. Len(t) # 1 => t \in {<<"fragment", "include">>, <<"exclude", "unlink">>}
    BY DEF Todos
  <1>3. t = <<"fragment", "include">> => Tail(t) = <<"include">>
    OBVIOUS
  <1>4. t = <<"exclude", "unlink">> => Tail(t) = <<"unlink">>
    OBVIOUS
  <1>5. Head(t) = t[1]
    BY DEF Todos
  <1> QED
    BY <1>1, <1>2, <1>3, <1>4, <1>5

LEMMA SshReadInv == ASSUME Inv, NEW c \in Slots, SshRead(c) PROVE Inv'
  <1>0. TypeOK /\ IncludeResolves /\ Fitting(c) /\ c \in Writers /\ run[c].at = "ssh"
    BY DEF Inv, SshRead, Writers
  <1>1. run[c] \in [at : {"ssh"}, action : {"install", "remove"}, alone : BOOLEAN]
    BY <1>0 DEF TypeOK, Runs, NoRun
  <1>2. UNCHANGED <<endpoint, resolved, hostvars, fragment, include>>
    BY DEF SshRead
  <1>3. fragment' \in Fragment /\ include' \in {"none", "unmarked", "ours"}
    BY <1>0, <1>2 DEF TypeOK
  <1>4. ~disturbed /\ include' = "ours" => fragment'.is = "ours"
    BY <1>0, <1>2 DEF IncludeResolves
  <1>5. CASE Ends(c, FALSE)
    BY <1>0, <1>2, <1>3, <1>4, <1>5, EndsInv
  <1> DEFINE todo == Todo(run[c].action)
  <1>6. CASE ~Ends(c, FALSE) /\ todo = <<>>
    <2>1. Ends(c, TRUE) /\ (run[c].action = "install" => Committed # {})
      BY <1>6 DEF SshRead
    <2>2. run[c].action = "install" => fragment = Published /\ include = "ours"
      BY <1>6 DEF Todo, Order, Changes
    <2>3. run[c].action = "remove" => fragment = NoFragment /\ include # "ours"
      BY <1>0, <1>6 DEF Todo, Order, Changes, TypeOK, Fragment, NoFragment, Foreign
    <2>4. run[c].alone => (IF Committed = {} THEN fragment' = NoFragment /\ include' # "ours"
                           ELSE fragment' = Published /\ include' = "ours")
      BY <1>0, <1>1, <1>2, <2>1, <2>2, <2>3 DEF Fitting
    <2> QED
      BY <1>0, <1>2, <1>3, <1>4, <2>1, <2>4, EndsInv
  <1>7. CASE ~Ends(c, FALSE) /\ todo # <<>>
    <2> DEFINE new == [at |-> "writing", alone |-> run[c].alone, todo |-> todo,
                       new |-> IF Head(todo) = "fragment" THEN Published ELSE NoFragment]
    <2>1. /\ run' = [run EXCEPT ![c] = new] /\ UNCHANGED <<disturbed, synced>>
          /\ run[c].action = "install" => Committed # {}
      BY <1>0, <1>7 DEF SshRead, TypeOK
    <2>2. todo \in Todos
      BY <1>1, <1>7 DEF Todo, Order, Todos
    <2>3. new \in Runs /\ new.at = "writing" /\ new.alone = run[c].alone
      BY <1>0, <1>1, <2>2, PublishedType DEF Runs, Fragment
    <2>4. Committed' = Committed /\ Published' = Published /\ run'[c] = new
      BY <1>0, <1>2, <2>1 DEF Committed, Published, TypeOK
    <2>5. Fitting(c)'
      <3>1. CASE run[c].action = "install"
        <4>1. \/ todo = <<"fragment", "include">>
              \/ todo = <<"fragment">> /\ include = "ours"
              \/ todo = <<"include">> /\ fragment = Published
          BY <1>7, <3>1 DEF Todo, Order, Changes
        <4>2. /\ run'[c].at = "writing" /\ run'[c].todo = todo
              /\ run'[c].new = IF todo[1] = "fragment" THEN Published ELSE NoFragment
          BY <2>4, <4>1
        <4> HIDE DEF new, todo
        <4>3. CASE todo = <<"fragment", "include">>
          BY <1>2, <2>1, <2>4, <3>1, <4>2, <4>3 DEF Fitting
        <4>4. CASE todo = <<"fragment">> /\ include = "ours"
          BY <1>2, <2>1, <2>4, <3>1, <4>2, <4>4 DEF Fitting
        <4>5. CASE todo = <<"include">> /\ fragment = Published
          BY <1>2, <2>1, <2>4, <3>1, <4>2, <4>5 DEF Fitting
        <4> QED
          BY <4>1, <4>3, <4>4, <4>5
      <3>2. CASE run[c].action = "remove"
        <4>1. \/ todo = <<"exclude", "unlink">> /\ fragment.is # "none"
              \/ todo = <<"exclude">> /\ fragment.is = "none"
              \/ todo = <<"unlink">> /\ include # "ours" /\ fragment.is # "none"
          BY <1>7, <3>2 DEF Todo, Order, Changes
        <4>2. fragment.is = "none" => fragment = NoFragment
          BY <1>0 DEF TypeOK, Fragment, NoFragment, Foreign
        <4>3. run[c].alone => Committed = {}
          BY <1>0, <3>2 DEF Fitting
        <4>4. /\ run'[c].at = "writing" /\ run'[c].todo = todo /\ run'[c].new = NoFragment
              /\ run'[c].alone = run[c].alone
          BY <2>4, <4>1
        <4> HIDE DEF new, todo
        <4>5. CASE todo = <<"exclude", "unlink">> /\ fragment.is # "none"
          BY <1>2, <2>4, <4>3, <4>4, <4>5 DEF Fitting
        <4>6. CASE todo = <<"exclude">> /\ fragment.is = "none"
          BY <1>2, <2>4, <4>2, <4>3, <4>4, <4>6 DEF Fitting
        <4>7. CASE todo = <<"unlink">> /\ include # "ours" /\ fragment.is # "none"
          BY <1>2, <2>4, <4>3, <4>4, <4>7 DEF Fitting
        <4> QED
          BY <4>1, <4>5, <4>6, <4>7
      <3> QED
        BY <1>1, <3>1, <3>2
    <2> HIDE DEF new
    <2> QED
      BY <1>0, <1>2, <1>3, <1>4, <2>1, <2>3, <2>5, WritesInv
  <1> QED
    BY <1>5, <1>6, <1>7

LEMMA SshWriteInv == ASSUME Inv, NEW c \in Slots, SshWrite(c) PROVE Inv'
  <1>0. TypeOK /\ IncludeResolves /\ Alone(c) /\ Fitting(c) /\ c \in Writers /\ run[c].at = "writing"
    BY DEF Inv, SshWrite, Writers
  <1> DEFINE r == run[c]
             step == Head(r.todo)
             ok == ~(step = "unlink" /\ fragment.is = "none")
  <1>1. r \in [at : {"writing"}, alone : BOOLEAN, todo : Todos, new : Fragment]
    BY <1>0 DEF TypeOK, Runs, NoRun
  <1>2. /\ fragment' = IF step \in {"fragment", "unlink"} THEN r.new ELSE fragment
        /\ include' = CASE step = "include" -> "ours" [] step = "exclude" -> "none" [] OTHER -> include
        /\ UNCHANGED <<endpoint, resolved, hostvars>>
    BY DEF SshWrite
  <1>3. fragment' \in Fragment /\ include' \in {"none", "unmarked", "ours"}
    BY <1>0, <1>1, <1>2 DEF TypeOK
  <1>4. ~r.alone => disturbed
    BY <1>0 DEF Alone
  <1>5. Committed' = Committed /\ Published' = Published
    BY <1>2 DEF Committed, Published
  <1>6. CASE Len(r.todo) = 1
    <2>1. Ends(c, ok)
      BY <1>6 DEF SshWrite
    <2>2. r.todo \in {<<"fragment">>, <<"include">>, <<"exclude">>, <<"unlink">>} /\ step = r.todo[1]
      BY <1>1, <1>6, TodoLists
    <2>3. ok \in BOOLEAN
      OBVIOUS
    <2>4. r.alone => (IF Committed = {} THEN fragment' = NoFragment /\ include' # "ours"
                      ELSE fragment' = Published /\ include' = "ours")
      <3> HAVE r.alone
      <3>1. CASE r.todo = <<"fragment">>
        BY <1>0, <1>2, <3>1 DEF Fitting
      <3>2. CASE r.todo = <<"include">>
        BY <1>0, <1>2, <3>2 DEF Fitting
      <3>3. CASE r.todo = <<"exclude">>
        BY <1>0, <1>2, <3>3 DEF Fitting
      <3>4. CASE r.todo = <<"unlink">>
        BY <1>0, <1>2, <3>4 DEF Fitting
      <3> QED
        BY <2>2, <3>1, <3>2, <3>3, <3>4
    <2>5. ~(ok /\ r.alone) /\ ~disturbed /\ include' = "ours" => fragment'.is = "ours"
      BY <1>0, <1>2, <1>4, <2>4, <2>2 DEF Fitting, IncludeResolves
    <2> QED
      BY <1>0, <1>2, <1>3, <2>1, <2>3, <2>4, <2>5, EndsInv
  <1>7. CASE Len(r.todo) # 1
    <2> DEFINE new == [r EXCEPT !.todo = Tail(@), !.new = NoFragment]
    <2>1. run' = [run EXCEPT ![c] = new] /\ UNCHANGED <<disturbed, synced>>
      BY <1>0, <1>7 DEF SshWrite, TypeOK
    <2>2. \/ r.todo = <<"fragment", "include">> /\ Tail(r.todo) = <<"include">>
          \/ r.todo = <<"exclude", "unlink">> /\ Tail(r.todo) = <<"unlink">>
      BY <1>1, <1>7, TodoLists
    <2>3. new \in Runs /\ new.at = "writing" /\ new.alone = r.alone /\ new.new = NoFragment
          /\ new.todo = Tail(r.todo)
      BY <1>1, <2>2 DEF Runs, Todos, Fragment
    <2>4. run'[c] = new
      BY <1>0, <2>1 DEF TypeOK
    <2> HIDE DEF new
    <2>5. Fitting(c)'
      <3>1. CASE r.todo = <<"fragment", "include">>
        <4>1. new.todo = <<"include">> /\ step = "fragment"
          BY <2>2, <2>3, <3>1
        <4>2. r.alone => fragment' = Published /\ Committed # {}
          BY <1>0, <1>2, <3>1, <4>1 DEF Fitting
        <4> QED
          BY <1>5, <2>3, <2>4, <4>1, <4>2 DEF Fitting
      <3>2. CASE r.todo = <<"exclude", "unlink">>
        <4>1. new.todo = <<"unlink">> /\ step = "exclude"
          BY <2>2, <2>3, <3>2
        <4>2. r.alone => include' = "none" /\ fragment'.is # "none" /\ Committed = {}
          BY <1>0, <1>2, <3>2, <4>1 DEF Fitting
        <4> QED
          BY <1>5, <2>3, <2>4, <4>1, <4>2 DEF Fitting
      <3> QED
        BY <2>2, <3>1, <3>2
    <2>6. ~disturbed /\ include' = "ours" => fragment'.is = "ours"
      <3>1. CASE r.todo = <<"fragment", "include">>
        <4>1. r.alone => fragment' = Published
          BY <1>0, <1>2, <3>1 DEF Fitting
        <4> QED
          BY <1>4, <4>1 DEF Published
      <3>2. CASE r.todo = <<"exclude", "unlink">>
        BY <1>2, <3>2
      <3> QED
        BY <2>2, <3>1, <3>2
    <2> QED
      BY <1>0, <1>2, <1>3, <2>1, <2>3, <2>5, <2>6, WritesInv
  <1> QED
    BY <1>6, <1>7

\* When every node the deployment lists is destroyed, none is left.
LEMMA DestroyInv == ASSUME Inv, NEW c \in Slots, NEW S \in SUBSET Nodes, Destroy(c, S) PROVE Inv'
  <1>0. TypeOK /\ Committed \subseteq resolved /\ resolved \subseteq Nodes
    BY DEF Inv, TypeOK
  <1> DEFINE action == ActionAfterDestroy(S)
  <1>1. /\ run[c].at = "idle" /\ S \subseteq Committed
        /\ endpoint' = [n \in Nodes |-> IF S = {} \/ n \in S THEN 0 ELSE endpoint[n]]
        /\ WriterBegins(c, action) /\ UNCHANGED <<resolved, hostvars>>
    BY DEF Destroy
  <1>2. endpoint' \in [Nodes -> Endpoints \cup {0}]
    BY <1>0, <1>1 DEF TypeOK
  <1>3. Committed' = IF S = {} THEN {} ELSE Committed \ S
    BY <1>1 DEF Committed
  <1>4. ASSUME action = "remove" PROVE Committed' = {}
    <2>1. CASE S = {}
      BY <1>3, <2>1
    <2>2. CASE S # {}
      <3>1. ~(Cardinality(S) < Cardinality(resolved)) /\ S \subseteq resolved
        BY <1>0, <1>1, <1>4, <2>2 DEF ActionAfterDestroy
      <3>2. IsFiniteSet(resolved)
        BY <1>0, NodesAssumption, FS_Subset
      <3>3. S = resolved
        BY <3>1, <3>2, FS_Subset, FS_CardinalityType
      <3> QED
        BY <1>0, <1>3, <2>2, <3>3
    <2> QED
      BY <2>1, <2>2
  <1>5. action \in {"install", "remove"}
    BY DEF ActionAfterDestroy
  <1>6. Committed' \subseteq resolved' /\ resolved' \subseteq Nodes
    BY <1>0, <1>1, <1>3
  <1> QED
    BY <1>1, <1>2, <1>4, <1>5, <1>6, BeginsInv

LEMMA LifecycleInv == ASSUME Inv, LifecycleCommands PROVE Inv'
  <1>0. TypeOK /\ Committed \subseteq resolved
    BY DEF Inv
  <1>1. ASSUME NEW c \in Slots, NEW S \in SUBSET Nodes, Up(c, S) PROVE Inv'
    <2>1. PICK v \in Endpoints : endpoint' = [n \in Nodes |-> IF n \in S THEN v ELSE endpoint[n]]
      BY <1>1 DEF Up
    <2>2. run[c].at = "idle" /\ resolved' = resolved \cup S /\ WriterBegins(c, "install") /\ UNCHANGED hostvars
      BY <1>1 DEF Up
    <2>3. endpoint' \in [Nodes -> Endpoints \cup {0}] /\ resolved' \subseteq Nodes
      BY <1>0, <2>1, <2>2 DEF TypeOK
    <2>4. Committed' \subseteq resolved'
      BY <1>0, <2>1, <2>2 DEF Committed
    <2> QED
      BY <2>2, <2>3, <2>4, BeginsInv
  <1>2. ASSUME NEW c \in Slots, Purge(c) PROVE Inv'
    <2>1. /\ run[c].at = "idle" /\ endpoint' = [n \in Nodes |-> 0] /\ resolved' = {}
          /\ WriterBegins(c, "remove") /\ UNCHANGED hostvars
      BY <1>2 DEF Purge
    <2>2. Committed' = {} /\ endpoint' \in [Nodes -> Endpoints \cup {0}]
      BY <2>1 DEF Committed
    <2> QED
      BY <2>1, <2>2, BeginsInv
  <1>3. ASSUME NEW c \in Slots, SshTimeout(c) PROVE Inv'
    <2>1. c \in Writers /\ Ends(c, FALSE) /\ UNCHANGED <<endpoint, resolved, hostvars, fragment, include>>
      BY <1>3 DEF SshTimeout, Writers
    <2>2. fragment' \in Fragment /\ include' \in {"none", "unmarked", "ours"}
      BY <1>0, <2>1 DEF TypeOK
    <2>3. ~disturbed /\ include' = "ours" => fragment'.is = "ours"
      BY <2>1 DEF Inv, IncludeResolves
    <2> QED
      BY <2>1, <2>2, <2>3, EndsInv
  <1>4. ASSUME NEW c \in Slots, Kill(c) PROVE Inv'
    <2>1. run' = [run EXCEPT ![c] = NoRun] /\ UNCHANGED <<endpoint, resolved, hostvars, sshvars>>
      BY <1>4 DEF Kill
    <2>2. TypeOK' /\ OutsideKept' /\ \A d \in Slots : Planned(d)'
      BY <1>0, <2>1 DEF Inv, TypeOK, Runs, OutsideKept, Planned, NoRun, hostvars, sshvars
    <2>3. \A d \in Slots : d \in Writers' => run'[d] = run[d] /\ d \in Writers
      BY <1>0, <2>1 DEF TypeOK, Writers, NoRun
    <2> QED
      BY <2>1, <2>2, <2>3, WritersKept DEF Inv
  <1> QED
    BY <1>1, <1>2, <1>3, <1>4, DestroyInv, SshReadInv, SshWriteInv DEF LifecycleCommands

LEMMA NextInv == Inv /\ [HostNext]_<<part, vars, files>> => Inv'
  <1> SUFFICES ASSUME Inv, [HostNext]_<<part, vars, files>> PROVE Inv'
    OBVIOUS
  <1>1. CASE UNCHANGED files
    <2>1. \A d \in Slots : d \in Writers' => run'[d] = run[d] /\ d \in Writers
      BY <1>1 DEF Writers, files
    <2>2. UNCHANGED <<endpoint, resolved, sshvars>>
      BY <1>1 DEF files, sshvars
    <2>3. TypeOK' /\ OutsideKept' /\ \A d \in Slots : Planned(d)'
      BY <1>1 DEF Inv, TypeOK, OutsideKept, Planned, files
    <2> QED
      BY <2>1, <2>2, <2>3, WritersKept DEF Inv
  <1>2. CASE LifecycleCommands \/ HostsCommands
    BY <1>2, LifecycleInv, HostsCommandsInv
  <1> QED
    BY <1>1, <1>2 DEF HostNext, NetworkStep, FileStep

\* The invariant, and with it the shape of every file and plan (hostconfig.go
\* Prepare and Apply, sshconfig.go InstallMany and Remove).
THEOREM Invariance == HostSpec => []Inv
  BY InitInv, NextInv, PTL DEF HostSpec

\* An edit of /etc/hosts that a plan did not see is never overwritten by it,
\* but for the moment between the last comparison and the rename
\* (hostconfig.go ApplyHelper, atomicReplace).
THEOREM EditsKept == HostSpec => []OutsideKept
  <1>1. Inv => OutsideKept
    BY DEF Inv
  <1> QED
    BY <1>1, Invariance, PTL

\* The SSH files of a command that reports them up to date are those of the
\* deployment, also after its last node is destroyed (main.go
\* reconcileLifecycleSSHConfig, destroyLeavesDeploymentNodes).
THEOREM AliasesRight == HostSpec => []AliasesCurrent
  <1>1. Inv => AliasesCurrent
    BY DEF Inv
  <1> QED
    BY <1>1, Invariance, PTL

\* The user's SSH configuration never includes a fragment that is not there
\* (sshconfig.go InstallMany, Remove: what is included is written first and
\* removed last).
THEOREM IncludeRight == HostSpec => []IncludeResolves
  <1>1. Inv => IncludeResolves
    BY DEF Inv
  <1> QED
    BY <1>1, Invariance, PTL

\* The network of a host whose files farrow also writes is the network of
\* HostNetwork: what is proved of the one holds of the other (setup.go and
\* main.go call the installers, hostconfig and sshconfig apart).
THEOREM NetworkOfTheHost == HostSpec => Spec
  <1>1. HostInit => Init
    BY DEF HostInit
  <1>2. [HostNext]_<<part, vars, files>> => [Next]_vars
    BY DEF HostNext, NetworkStep, FileStep
  <1> QED
    BY <1>1, <1>2, PTL DEF HostSpec, Spec
=============================================================================
