------------------------------ MODULE GitStore ------------------------------
(***************************************************************************)
(* A git object (gitstore.Service).  Every server process keeps the state  *)
(* of a repository in memory and loads state.json before each command,     *)
(* which merges its maps into the ones in memory, and saves the result     *)
(* afterwards.  Commit ids count the commits: c1, c2, ...; a commit is     *)
(* kept here as its parent's number.                                       *)
(***************************************************************************)
EXTENDS Integers, Sequences, FiniteSets

NoHead == "none"

CONSTANTS GitServers,
          RefNames,      \* branches and tags
          Main,          \* the branch HEAD is at first
          MaxCommits,    \* bound on the commits of a repository
          MaxExecs       \* bound on the commands

ASSUME GitAssumption == /\ Main \in RefNames /\ NoHead \notin RefNames
                        /\ MaxCommits \in Nat /\ MaxExecs \in Nat

VARIABLES hasBlob,   \* whether a blob store is configured
          blob,      \* state.json
          mem,       \* server -> the state it keeps
          exec,      \* server -> whether it is between load and save
          execs      \* how many commands there were

gitVars == <<hasBlob, blob, mem, exec, execs>>

Absent == -1    \* no such key; 0 is the empty commit id
NewRepo == [parents |-> <<>>, refs |-> [n \in RefNames |-> Absent], head |-> Main]
NoFile == [NewRepo EXCEPT !.head = NoHead]

GitInit == /\ hasBlob \in BOOLEAN
           /\ blob = NoFile
           /\ mem = [s \in GitServers |-> NewRepo]
           /\ exec = [s \in GitServers |-> FALSE]
           /\ execs = 0

\* st.Branches[name], which is empty for a name that is absent.
Ref(st, n) == IF st.refs[n] = Absent THEN 0 ELSE st.refs[n]

\* The file's commits replace the ones in memory, its refs are merged.
Merge_CommitsReplaced(file, st) ==
  [parents |-> file.parents,
   head |-> IF file.head = NoHead THEN st.head ELSE file.head,
   refs |-> [n \in RefNames |-> IF file.refs[n] = Absent THEN st.refs[n]
                                ELSE file.refs[n]]]

\* json.Unmarshal into the state in memory: keys of the file replace keys of
\* the maps, and the others stay.
Merge(file, st) ==
  [parents |-> [k \in 1 .. (IF Len(file.parents) < Len(st.parents)
                            THEN Len(st.parents) ELSE Len(file.parents)) |->
                  IF k <= Len(file.parents) THEN file.parents[k]
                                           ELSE st.parents[k]],
   refs |-> [n \in RefNames |-> IF file.refs[n] = Absent THEN st.refs[n]
                                ELSE file.refs[n]],
   head |-> IF file.head = NoHead THEN st.head ELSE file.head]

\* What a command works on: an error of the load is dropped.
Loaded(s) == {mem[s]} \cup (IF hasBlob THEN {Merge(blob, mem[s])} ELSE {})

-----------------------------------------------------------------------------
\* The commands that change the repository (a tag is written like a branch);
\* the others leave it as loaded.
Repoint(st, n, c) == [st.refs EXCEPT ![n] = c]

GitCommit(st) ==
  [st EXCEPT !.parents = Append(@, Ref(st, st.head)),
             !.refs = Repoint(st, st.head, Len(st.parents) + 1)]
GitBranch(st, n) == [st EXCEPT !.refs = Repoint(st, n, Ref(st, st.head))]
GitCheckout(st, n) ==
  LET at == IF st.refs[n] = Absent THEN Ref(st, st.head) ELSE st.refs[n]
  IN  [st EXCEPT !.refs = Repoint(st, n, at), !.head = n]

Commands(st) ==
  {st} \cup {GitBranch(st, n) : n \in RefNames}
       \cup {GitCheckout(st, n) : n \in RefNames}
       \cup (IF Len(st.parents) < MaxCommits THEN {GitCommit(st)} ELSE {})

\* Exec, under the mutex of the server: load and apply ...
GitExec(s) == \E st \in Loaded(s) : \E new \in Commands(st) :
  /\ ~exec[s] /\ execs < MaxExecs
  /\ execs' = execs + 1
  /\ mem' = [mem EXCEPT ![s] = new]
  /\ exec' = [exec EXCEPT ![s] = TRUE]
  /\ UNCHANGED <<hasBlob, blob>>

\* ... a missing argument, InfoRefs and upload-pack end after the load ...
GitLoadOnly(s) == \E st \in Loaded(s) :
  /\ ~exec[s]
  /\ mem' = [mem EXCEPT ![s] = st]
  /\ UNCHANGED <<hasBlob, blob, exec, execs>>

\* ... and the rest save.  A save that fails leaves memory as it is.
GitSave(s) ==
  /\ exec[s]
  /\ blob' \in {blob, mem[s]} /\ (~hasBlob => blob' = blob)
  /\ exec' = [exec EXCEPT ![s] = FALSE]
  /\ UNCHANGED <<hasBlob, mem, execs>>

GitRestart(s) ==
  /\ mem' = [mem EXCEPT ![s] = NewRepo]
  /\ exec' = [exec EXCEPT ![s] = FALSE]
  /\ UNCHANGED <<hasBlob, blob, execs>>

GitNext == \E s \in GitServers :
  GitExec(s) \/ GitLoadOnly(s) \/ GitSave(s) \/ GitRestart(s)

GitSpec == GitInit /\ [][GitNext]_gitVars

-----------------------------------------------------------------------------
\* The state as it is at every commit, branch, checkout, save and load of
\* every server, and in the file.
Sound(st) == /\ \A n \in RefNames : st.refs[n] \in Absent .. Len(st.parents)
             /\ \A k \in 1 .. Len(st.parents) : st.parents[k] \in 0 .. k - 1

\* Refs resolve and parents are older than their commits, in the file and in
\* the memory of every server, however their loads and saves interleave and
\* fail: "log", which follows the first parents of HEAD until there is none
\* (service.go:136), ends.
LogTerminates == Sound(blob) /\ \A s \in GitServers : Sound(mem[s])
=============================================================================
