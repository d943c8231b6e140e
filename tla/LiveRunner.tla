------------------------------- MODULE LiveRunner -------------------------------
(* The runner of the live tests (scripts/live_test_runner.py): one invocation  *)
(* after another, or two at once, each with a results file that the next one   *)
(* takes its artifacts from.  The subtasks stand for one that makes a thing,   *)
(* whose name is an artifact until it has been taken away, and that makes no   *)
(* other while there is one; the modules of the arms say how each does that.   *)
EXTENDS Naturals

CONSTANTS
  MaxRuns,      \* bound: invocations
  MaxFaults,    \* bound: failures, interrupts and kills
  MaxTouches    \* bound: commits, edits of the tree and of results files, changes of the HMC

RunnerAssumption == {MaxRuns, MaxFaults, MaxTouches} \subseteq Nat /\ MaxRuns > 0

Runs == 1..MaxRuns
None == 0
Paths == {"own", "round2"}  \* test-results-round2.json is where a subset finds its context

VARIABLES
  (* the HMC and the checkout *)
  things,    \* the runs whose thing is there
  flying,    \* the runs whose create outlived its call
  limited,   \* the HMC cannot make the thing, and answers as is declared
  commit,    \* HEAD
  dirty,     \* src or scripts are modified
  catalog,   \* the commit at which the catalog has the limit confirmed, or None
  (* the files *)
  doc,       \* the results files
  obs,       \* the observations files beside them
  (* the invocations *)
  pc,        \* the step of each
  path,      \* its destination
  subset,    \* it runs a subtask or a group
  known,     \* it has loaded the limit from the catalog
  arts,      \* the run whose thing its artifacts name, or None
  witness,   \* the run whose baseline the artifacts have, or None
  seen,      \* whose document was at the destination when it was restored
  made,      \* the create was accepted
  row,       \* "none", "passed", "failed", "gap" or "known"
  (* history *)
  loaded,    \* the commit each was started from, None when the tree was modified
  lost,      \* the runs whose document was not written, or was overwritten by one beside it
  moved,     \* the checkout changed under a run
  harm,      \* a run took away a thing that was not its own
  faults, touches

checkout == <<commit, dirty>>
went == <<path, subset, known>>
hold == <<arts, witness, seen>>
past == <<loaded, lost, moved, harm>>
vars == <<things, flying, limited, checkout, catalog, doc, obs, pc, went, hold, made, row, past, faults, touches>>

\* A results document: whose it is, the thing and the baseline it names, the rows, whether the
\* run was stopped, and whether the next run's configuration and HMC are the same.
NoDoc == [by |-> None, names |-> None, witness |-> None, row |-> "none", partial |-> FALSE, fits |-> TRUE]
NoObs == [by |-> None, commit |-> None, row |-> "none"]

Fault(c) == (c => faults < MaxFaults) /\ faults' = faults + (IF c THEN 1 ELSE 0)
Goes(i, next) == pc' = [pc EXCEPT ![i] = next]
Running(i) == pc[i] \in {"task", "clean"}

-----------------------------------------------------------------------------
(* The start of an invocation.                                                *)

\* _parse_arguments: the subtasks, and a destination that git ignores.
Arguments(i) ==
  \E p \in Paths, s \in BOOLEAN :
    path' = [path EXCEPT ![i] = p] /\ subset' = [subset EXCEPT ![i] = s]

\* _load_known_gaps: a limit counts as known when it was confirmed with this code.
KnownLimit == catalog = commit /\ ~dirty

Start(i) ==
  /\ pc[i] = "idle" /\ (i > 1 => pc[i - 1] # "idle") /\ Goes(i, "restore")
  /\ Arguments(i) /\ known' = [known EXCEPT ![i] = KnownLimit]
  /\ loaded' = [loaded EXCEPT ![i] = IF dirty THEN None ELSE commit]
  /\ UNCHANGED <<things, flying, limited, checkout, catalog, doc, obs, hold, made, row, lost, moved, harm, faults, touches>>

\* The destination comes first, for a subset then the shared file; the first that exists.
Prior(i) ==
  IF doc[path[i]].by # None THEN doc[path[i]]
  ELSE IF subset[i] THEN doc["round2"] ELSE NoDoc

\* A document of this configuration, this HMC and decodable artifacts.
Same(d) == d.fits

\* _restore_artifacts_from_results: a destination that cannot be restored is not overwritten;
\* a baseline witness belongs to one invocation.
Restore(i) ==
  /\ pc[i] = "restore"
  /\ LET d == Prior(i) IN
       IF d.by # None /\ ~Same(d) /\ doc[path[i]].by # None THEN Goes(i, "refused") /\ UNCHANGED <<arts, witness>>
       ELSE /\ Goes(i, "task") /\ witness' = [witness EXCEPT ![i] = None]
            /\ arts' = [arts EXCEPT ![i] = IF Same(d) THEN d.names ELSE None]
  /\ seen' = [seen EXCEPT ![i] = doc[path[i]].by]
  /\ UNCHANGED <<things, flying, limited, checkout, catalog, doc, obs, went, made, row, past, faults, touches>>

-----------------------------------------------------------------------------
(* The subtask.                                                               *)

Row(i, r) == row' = [row EXCEPT ![i] = r]

\* A thing that an earlier run left, and a limit that is known, are not tried again.
Skip(i) ==
  /\ pc[i] = "task" /\ (arts[i] # None \/ known[i])
  /\ Row(i, IF arts[i] # None THEN "failed" ELSE "known") /\ Goes(i, "write")
  /\ witness' = [witness EXCEPT ![i] = i]
  /\ UNCHANGED <<things, flying, limited, checkout, catalog, doc, obs, went, arts, seen, made, past, faults, touches>>

\* record_with_expected: a refusal that is declared is a gap.
Gap(i) ==
  /\ arts' = [arts EXCEPT ![i] = None]
  /\ \E g \in BOOLEAN : Fault(~g) /\ Row(i, IF g THEN "gap" ELSE "failed")
  /\ Goes(i, "write") /\ UNCHANGED <<things, flying, made>>

\* _dispatch_problems: a call that the schema does not admit is a failure of the harness, and
\* reaches no HMC.
Rejected(i) ==
  /\ Fault(TRUE) /\ arts' = [arts EXCEPT ![i] = i] /\ Goes(i, "clean")
  /\ UNCHANGED <<things, flying, made, row>>

\* RunState.call: it raises nothing, and what is sent may be carried out later.
Sent(i) ==
  \E did, pass \in BOOLEAN :
    /\ (pass => did) /\ Fault(~pass) /\ arts' = [arts EXCEPT ![i] = i] /\ Goes(i, "clean")
    /\ things' = IF did THEN things \cup {i} ELSE things
    /\ flying' \in {flying, IF did THEN flying ELSE flying \cup {i}}
    /\ made' = [made EXCEPT ![i] = pass] /\ UNCHANGED row

Create(i) ==
  /\ pc[i] = "task" /\ arts[i] = None /\ ~known[i]
  /\ witness' = [witness EXCEPT ![i] = i]
  /\ Rejected(i) \/ (limited /\ Gap(i)) \/ (~limited /\ Sent(i))
  /\ UNCHANGED <<limited, checkout, catalog, doc, obs, went, seen, past, touches>>

\* record_verified: a scenario passes when all of its assertions hold and its cleanup did.  The
\* name is given up when the thing was read to be gone.
Clean(i) ==
  /\ pc[i] = "clean" /\ Goes(i, "write")
  /\ \E gone \in BOOLEAN :
       /\ (~gone => faults < MaxFaults) /\ faults' = faults + (IF gone THEN 0 ELSE 1)
       /\ things' \in {things \ {arts[i]}, IF gone THEN things \ {arts[i]} ELSE things}
       /\ Row(i, IF gone /\ made[i] THEN "passed" ELSE "failed")
       /\ arts' = [arts EXCEPT ![i] = IF gone THEN None ELSE @]
  /\ harm' = (harm \/ (arts[i] \in things /\ arts[i] # i))
  /\ UNCHANGED <<flying, limited, checkout, catalog, doc, obs, went, witness, seen, made, loaded, lost, moved, touches>>

-----------------------------------------------------------------------------
(* The results and the observations.                                          *)

Document(i, partial) ==
  doc' = [doc EXCEPT ![path[i]] =
           [by |-> i, names |-> arts[i], witness |-> witness[i], row |-> row[i],
            partial |-> partial, fits |-> TRUE]]

\* What a run that wrote to the same file meanwhile had left is written over.
Overwrites(i) ==
  IF doc[path[i]].by = seen[i] THEN {} ELSE {doc[path[i]].names} \ {None, arts[i]}

\* _write_results: the file is replaced as a whole, or not at all.
Write(i) ==
  /\ pc[i] = "write"
  /\ \E ok \in BOOLEAN :
       /\ Fault(~ok) /\ Goes(i, IF ok THEN "emit" ELSE "stopped")
       /\ IF ok THEN Document(i, FALSE) /\ lost' = lost \cup Overwrites(i)
          ELSE UNCHANGED doc /\ lost' = lost \cup {i}
  /\ UNCHANGED <<things, flying, limited, checkout, catalog, obs, went, hold, made, row, loaded, moved, harm, touches>>

\* An exception or an interrupt writes what there is, and is raised again.
Interrupt(i) ==
  /\ Running(i) /\ \E ok \in BOOLEAN :
       /\ faults + (IF ok THEN 1 ELSE 2) <= MaxFaults
       /\ faults' = faults + (IF ok THEN 1 ELSE 2)
       /\ IF ok THEN Document(i, TRUE) /\ lost' = lost \cup Overwrites(i)
          ELSE UNCHANGED doc /\ lost' = lost \cup {i}
  /\ Goes(i, "stopped")
  /\ UNCHANGED <<things, flying, limited, checkout, catalog, obs, went, hold, made, row, loaded, moved, harm, touches>>

Kill(i) ==
  /\ pc[i] \in {"restore", "task", "clean", "write", "emit"} /\ Fault(TRUE) /\ Goes(i, "stopped")
  /\ lost' = (IF pc[i] = "emit" THEN lost ELSE lost \cup {i})
  /\ UNCHANGED <<things, flying, limited, checkout, catalog, doc, obs, went, hold, made, row, loaded, moved, harm, touches>>

\* _emit_observations: a gap or a verified row, of a tree that is clean, at the HEAD of now.
Emit(i) ==
  /\ pc[i] = "emit" /\ Goes(i, "end")
  /\ \E ok \in BOOLEAN :
       /\ (ok => ~dirty /\ row[i] \in {"passed", "failed", "gap"}) /\ Fault(~dirty /\ ~ok)
       /\ obs' = IF ok THEN [obs EXCEPT ![path[i]] = [by |-> i, commit |-> commit, row |-> row[i]]] ELSE obs
  /\ UNCHANGED <<things, flying, limited, checkout, catalog, doc, went, hold, made, row, past, touches>>

-----------------------------------------------------------------------------
(* What others do: the catalog, the checkout, the files and the HMC.          *)

\* A gap of an observations file is promoted into the catalog.
Promote ==
  /\ \E p \in Paths : obs[p].row = "gap" /\ catalog' = obs[p].commit
  /\ UNCHANGED <<things, flying, limited, checkout, doc, obs, pc, went, hold, made, row, past, faults, touches>>

Land ==
  /\ \E i \in flying : things' = things \cup {i} /\ flying' = flying \ {i} /\ pc[i] \in {"task", "clean"}
  /\ UNCHANGED <<limited, checkout, catalog, doc, obs, pc, went, hold, made, row, past, faults, touches>>

Touch ==
  /\ touches < MaxTouches /\ touches' = touches + 1
  /\ \/ /\ commit' = commit + 1 /\ UNCHANGED dirty
        /\ moved' = moved \cup {i \in Runs : pc[i] \notin {"idle", "end", "stopped", "refused"}} /\ UNCHANGED <<doc, limited>>
     \/ /\ dirty' = ~dirty /\ UNCHANGED commit
        /\ moved' = moved \cup {i \in Runs : pc[i] \notin {"idle", "end", "stopped", "refused"}} /\ UNCHANGED <<doc, limited>>
     \/ \E p \in Paths : /\ doc[p].by # None /\ doc[p].fits /\ doc' = [doc EXCEPT ![p].fits = FALSE]
                         /\ UNCHANGED <<checkout, moved, limited>>
     \/ limited' = ~limited /\ UNCHANGED <<checkout, moved, doc>>
  /\ UNCHANGED <<things, flying, catalog, obs, pc, went, hold, made, row, loaded, lost, harm, faults>>

Init ==
  /\ things = {} /\ flying = {} /\ limited \in BOOLEAN /\ commit = 1 /\ dirty = FALSE /\ catalog = None
  /\ doc = [p \in Paths |-> NoDoc] /\ obs = [p \in Paths |-> NoObs]
  /\ pc = [i \in Runs |-> "idle"] /\ path = [i \in Runs |-> "own"] /\ subset = [i \in Runs |-> FALSE]
  /\ known = [i \in Runs |-> FALSE] /\ arts = [i \in Runs |-> None] /\ witness = [i \in Runs |-> None] /\ seen = [i \in Runs |-> None]
  /\ made = [i \in Runs |-> FALSE] /\ row = [i \in Runs |-> "none"] /\ loaded = [i \in Runs |-> None]
  /\ lost = {} /\ moved = {} /\ harm = FALSE /\ faults = 0 /\ touches = 0

Next ==
  \/ \E i \in Runs :
       \/ Start(i) \/ Restore(i) \/ Skip(i) \/ Create(i) \/ Clean(i)
       \/ Write(i) \/ Interrupt(i) \/ Kill(i) \/ Emit(i)
  \/ Promote \/ Land \/ Touch

Spec == Init /\ [][Next]_vars

-----------------------------------------------------------------------------
(* Properties.                                                                *)

RunnerTypeOK ==
  /\ things \cup flying \cup lost \cup moved \subseteq Runs /\ {limited, dirty, harm} \subseteq BOOLEAN
  /\ pc \in [Runs -> {"idle", "restore", "refused", "task", "clean", "write", "emit", "stopped", "end"}]
  /\ path \in [Runs -> Paths] /\ {arts, witness, seen} \subseteq [Runs -> Runs \cup {None}]
  /\ {subset, known, made} \subseteq [Runs -> BOOLEAN]
  /\ row \in [Runs -> {"none", "passed", "failed", "gap", "known"}]
  /\ \A p \in Paths : doc[p].by \in Runs \cup {None} /\ obs[p].by \in Runs \cup {None}

\* An observation is one that its run recorded, and a run whose thing is gone when it passed;
\* it names the commit that was started from, unless the checkout moved meanwhile; no run that
\* was stopped has one.  A limit that is skipped as known was observed with this code.
RunnerClean ==
  /\ \A p \in Paths, i \in Runs :
       obs[p].by = i =>
         /\ obs[p].row = row[i] /\ pc[i] = "end" /\ (row[i] = "passed" => i \notin things)
         /\ obs[p].commit = loaded[i] \/ i \in moved
  /\ \A i \in Runs : row[i] = "known" => \E j \in Runs : row[j] = "gap" /\ (loaded[j] = loaded[i] \/ j \in moved)

\* A thing that a run left is named by a results file, whatever runs came after, unless its own
\* was never written, or one that was started before replaced it.
RunnerLeftTold ==
  \A i \in Runs : i \in things /\ pc[i] \in {"end", "stopped"} =>
    i \in lost \/ \E p \in Paths : doc[p].names = i

\* No run takes away the thing of another, and none passes on another's baseline as its own.
RunnerOwn == ~harm /\ \A p \in Paths : doc[p].witness \in {None, doc[p].by}
=============================================================================
