---------------------------- MODULE ExperimentRuns ----------------------------
(***************************************************************************)
(* What experiments leave on disk: `routeguard benchmark`                  *)
(* (experiments/runner.py, tracking/run.py) claims a run directory, writes *)
(* the manifest, one file of records per (seed, system) pair and the       *)
(* report; `routeguard evaluate` and `plot` (cli.py) write the report, or  *)
(* its figures, again from all the records or from one file of them;       *)
(* scripts/publish_results.py replaces the published results by those of   *)
(* one run.  Commands of several users run side by side, raise, or are     *)
(* killed at any step.                                                     *)
(*                                                                         *)
(* All runs are of one experiment, hence one published directory.  A       *)
(* record is counted, not described: a report is known by how many records *)
(* of each file it was computed from.                                      *)
(*                                                                         *)
(* A definition commented as a slip is not part of the model: it is the    *)
(* definition that follows it with a plausible mistake, and PROJECT.json   *)
(* names the property that is violated when it is used instead.            *)
(***************************************************************************)
EXTENDS Integers

CONSTANTS
    Runners,   \* the shells benchmarks are started from
    Second,    \* the second in which the benchmarks of a runner start
    Jobs,      \* (seed, system) pairs of the experiment
    TestSize,  \* items of the test split
    None,      \* a part of the report or a note that is not there
    MaxRuns,   \* bound: benchmarks started
    MaxEvaluations  \* bound: reports written again

ASSUME SecondAssumption == Second \in [Runners -> Nat]
ASSUME SizeAssumption == Jobs \in Nat \ {0} /\ TestSize \in Nat \ {0}
ASSUME BoundAssumption == MaxRuns \in Nat \ {0} /\ MaxEvaluations \in Nat

\* <name>_<timestamp>_<sha>, and the suffix that tells runs of one second apart.
Directories == {Second[r] : r \in Runners} \X (0 .. MaxRuns - 1)
ASSUME NoneAssumption == None \notin Directories

\* The parts of a report: processed/, and the tables and figures, which are optional.
Kinds == {"metrics", "figures"}
NoReport == [k \in Kinds |-> None]

VARIABLES
    exists,    \* the run directories
    manifest,  \* the status each manifest.json gives its run
    raw,       \* the records that can be read from each raw/<system>_seed<k>.jsonl, -1: no file
    report,    \* how many records of each file a part of the report was computed from
    pc, dir, job,
    written,   \* records written to the open file, of which the last ones may be buffered
    part,      \* the next part of the report or of the publication
    end,       \* history: how the benchmark of each directory ended
    owners,    \* history: the benchmarks that use each directory
    publisher, source, published, provenance,
    started,   \* benchmarks started
    evaluated  \* reports written again

run == <<exists, manifest, raw, report, end, owners>>
locals == <<pc, dir, job, written>>
publication == <<publisher, source, published, provenance, part>>
vars == <<run, locals, publication, started, evaluated>>

Files == 1 .. Jobs
Records(d) == [j \in Files |-> IF raw[d][j] > 0 THEN raw[d][j] ELSE 0]

Init ==
    /\ exists = {}
    /\ manifest = [d \in Directories |-> "none"]
    /\ raw = [d \in Directories |-> [j \in Files |-> -1]]
    /\ report = [d \in Directories |-> NoReport]
    /\ end = [d \in Directories |-> "none"]
    /\ owners = [d \in Directories |-> 0]
    /\ pc = [r \in Runners |-> "idle"]
    /\ dir = [r \in Runners |-> None]
    /\ job = [r \in Runners |-> 1]
    /\ written = [r \in Runners |-> 0]
    /\ publisher = "idle" /\ source = None /\ part = 1
    /\ published = NoReport /\ provenance = None
    /\ started = 0 /\ evaluated = 0

Goto(r, label) ==
    /\ pc' = [pc EXCEPT ![r] = label]
    /\ UNCHANGED <<dir, job, written>>

\* The process ends, and what it had in memory or buffered with it.
Exit(r) ==
    /\ pc' = [pc EXCEPT ![r] = "idle"]
    /\ dir' = [dir EXCEPT ![r] = None]
    /\ job' = [job EXCEPT ![r] = 1]
    /\ written' = [written EXCEPT ![r] = 0]

-----------------------------------------------------------------------------
(* RunDirectory and the manifest. *)

Start(r) ==
    /\ pc[r] = "idle"
    /\ started < MaxRuns
    /\ started' = started + 1
    /\ Goto(r, "name")
    /\ UNCHANGED <<run, publication, evaluated>>

\* `while self.path.exists()`: the first suffix that is free.
FreeName(r) == <<Second[r], CHOOSE n \in 0 .. MaxRuns - 1 : /\ <<Second[r], n>> \notin exists
                                                        /\ \A m \in 0 .. n - 1 :
                                                              <<Second[r], m>> \in exists>>

ChooseName(r) ==
    /\ pc[r] = "name"
    /\ dir' = [dir EXCEPT ![r] = FreeName(r)]
    /\ pc' = [pc EXCEPT ![r] = "mkdir"]
    /\ UNCHANGED <<run, job, written, publication, started, evaluated>>

\* mkdir(parents=True, exist_ok=True), and config.yaml.
MakeDirectory(r) ==
    /\ pc[r] = "mkdir"
    /\ exists' = exists \cup {dir[r]}
    /\ owners' = [owners EXCEPT ![dir[r]] = @ + 1]
    /\ end' = [end EXCEPT ![dir[r]] = "running"]
    /\ Goto(r, "begin")
    /\ UNCHANGED <<manifest, raw, report, publication, started, evaluated>>

\* write_text truncates the manifest, then fills it.
OpenManifest(r) ==
    /\ \/ pc[r] = "begin" /\ Goto(r, "begun")
       \/ pc[r] = "fail" /\ Goto(r, "failing")
       \/ pc[r] = "complete" /\ Goto(r, "completing")
    /\ manifest' = [manifest EXCEPT ![dir[r]] = "torn"]
    /\ UNCHANGED <<exists, raw, report, end, owners, publication, started, evaluated>>

\* The first manifest is written before its status is set, which only the last one has.
WriteManifest(r) ==
    /\ \/ /\ pc[r] = "begun" /\ Goto(r, "job")
          /\ manifest' = [manifest EXCEPT ![dir[r]] = "no status"]
          /\ UNCHANGED end
       \/ /\ pc[r] = "failing" /\ Exit(r)
          /\ manifest' = [manifest EXCEPT ![dir[r]] = "failed"]
          /\ end' = [end EXCEPT ![dir[r]] = "raised"]
       \/ /\ pc[r] = "completing" /\ Goto(r, "metrics")
          /\ manifest' = [manifest EXCEPT ![dir[r]] = "completed"]
          /\ UNCHANGED end
    /\ UNCHANGED <<exists, raw, report, owners, publication, started, evaluated>>

-----------------------------------------------------------------------------
(* BenchmarkRunner.run: the systems, under every seed. *)

\* JsonlWriter opens the next file for writing; after the last one the run is complete.
NextJob(r) ==
    /\ pc[r] = "job"
    /\ IF job[r] <= Jobs
          THEN /\ raw' = [raw EXCEPT ![dir[r]][job[r]] = 0]
               /\ Goto(r, "items")
          ELSE Goto(r, "complete") /\ UNCHANGED raw
    /\ UNCHANGED <<exists, manifest, report, end, owners, publication, started, evaluated>>

\* run_system, after it has fitted the pipeline: one record per test item.  The file is
\* buffered: some of the records, up to this one, have reached the disk.
WriteRecord(r) ==
    /\ pc[r] = "items"
    /\ written[r] < TestSize
    /\ written' = [written EXCEPT ![r] = @ + 1]
    /\ \E n \in raw[dir[r]][job[r]] .. written'[r] : raw' = [raw EXCEPT ![dir[r]][job[r]] = n]
    /\ UNCHANGED <<exists, manifest, report, end, owners, pc, dir, job, publication,
                   started, evaluated>>

\* Slip: the writer is left to the garbage collector.
Unflushed(r) == raw

\* JsonlWriter.__exit__ closes the file, which writes what is buffered.
Flushed(r) == [raw EXCEPT ![dir[r]][job[r]] = written[r]]

CloseFile(r) ==
    /\ pc[r] = "items"
    /\ written[r] = TestSize
    /\ raw' = Flushed(r)
    /\ job' = [job EXCEPT ![r] = @ + 1]
    /\ written' = [written EXCEPT ![r] = 0]
    /\ pc' = [pc EXCEPT ![r] = "job"]
    /\ UNCHANGED <<exists, manifest, report, end, owners, dir, publication, started, evaluated>>

\* Slip: `except Exception`, which KeyboardInterrupt is not.
RaiseUnrecorded(r) ==
    /\ pc[r] \in {"job", "items"}
    /\ raw' = IF pc[r] = "items" THEN Flushed(r) ELSE raw
    /\ Exit(r)
    /\ end' = [end EXCEPT ![dir[r]] = "raised"]
    /\ UNCHANGED <<exists, manifest, report, owners, publication, started, evaluated>>

\* Anything raised by a system or an interrupt: `except BaseException`, with the file closed.
Raise(r) ==
    /\ pc[r] \in {"job", "items"}
    /\ raw' = IF pc[r] = "items" THEN Flushed(r) ELSE raw
    /\ Goto(r, "fail")
    /\ UNCHANGED <<exists, manifest, report, end, owners, publication, started, evaluated>>

\* load_records of every file of the run, which nothing changes any more.
Loaded(d) == Records(d)

\* build_report writes the metrics first.
WriteReport(r) ==
    /\ pc[r] \in Kinds
    /\ \/ report' = [report EXCEPT ![dir[r]][pc[r]] = Loaded(dir[r])]
       \/ pc[r] = "figures" /\ UNCHANGED report
    /\ IF pc[r] = "metrics" THEN Goto(r, "figures") ELSE Exit(r)
    /\ end' = [end EXCEPT ![dir[r]] = IF pc[r] = "figures" THEN "finished" ELSE @]
    /\ UNCHANGED <<exists, manifest, raw, owners, publication, started, evaluated>>

\* The try is around the systems only.  Anything raised before it, by its handler or after it
\* (resource_stats, write_json, the report, an interrupt) leaves the manifest as it is.
Outside(r) ==
    \/ pc[r] \in {"begin", "begun", "fail", "failing", "complete", "completing"} \cup Kinds
    \/ pc[r] = "job" /\ job[r] = 1

RaiseOutside(r) ==
    /\ Outside(r)
    /\ Exit(r)
    /\ end' = [end EXCEPT ![dir[r]] = "aborted"]
    /\ UNCHANGED <<exists, manifest, raw, report, owners, publication, started, evaluated>>

-----------------------------------------------------------------------------
(* routeguard evaluate and plot, of a benchmark that is over.  The records do not change any   *)
(* more, so that their steps could not be told from one.  A record torn by a kill makes them   *)
(* raise before they write anything.                                                           *)

\* _resolve_run: every file under raw/, or the one that is named.
Sources == {Files} \cup {{j} : j \in Files}

\* What these files add to a report; those that were not read add nothing.
Counted(d, files) == [j \in Files |-> IF j \in files THEN Records(d)[j] ELSE 0]

\* Written over the report of the run, whichever files were read.
Rewrite(d, files, kinds) ==
    report' = [report EXCEPT ![d] = [k \in Kinds |->
                  IF k \in kinds THEN Counted(d, files) ELSE @[k]]]

\* The metrics and tables, and the figures if they are asked for; plot writes the figures alone.
Evaluate(d) ==
    /\ d \in exists /\ end[d] # "running"
    /\ evaluated < MaxEvaluations
    /\ evaluated' = evaluated + 1
    /\ \E files \in Sources, kinds \in {{"metrics"}, {"figures"}, Kinds} :
          /\ \E j \in files : raw[d][j] > 0
          /\ Rewrite(d, files, kinds)
    /\ UNCHANGED <<exists, manifest, raw, end, owners, locals, publication, started>>

-----------------------------------------------------------------------------
(* scripts/publish_results.py: publish. *)

\* manifest.get("status", "completed") == "completed".
MayPublish(d) == manifest[d] \in {"no status", "completed"}

Publish(d) ==
    /\ publisher = "idle"
    /\ MayPublish(d)
    /\ source' = d
    /\ publisher' = "clear"
    /\ UNCHANGED <<run, locals, published, provenance, part, started, evaluated>>

\* Slip: the directory of an earlier publication is written over.
ClearNothing ==
    /\ publisher = "clear"
    /\ publisher' = "copy"
    /\ UNCHANGED <<run, locals, source, published, provenance, part, started, evaluated>>

\* shutil.rmtree(out), which deletes the files in any order.
Clear ==
    /\ publisher = "clear"
    /\ \/ /\ \E k \in Kinds : published[k] # None /\ published' = [published EXCEPT ![k] = None]
          /\ UNCHANGED <<provenance, publisher>>
       \/ /\ provenance # None /\ provenance' = None
          /\ UNCHANGED <<published, publisher>>
       \/ /\ published = NoReport /\ provenance = None
          /\ publisher' = "copy"
          /\ UNCHANGED <<published, provenance>>
    /\ UNCHANGED <<run, locals, source, part, started, evaluated>>

\* The parts of the report that are there, in this order.
Order == <<"figures", "metrics">>
Copy ==
    /\ publisher = "copy"
    /\ LET k == Order[part] IN
       published' = [published EXCEPT ![k] =
              IF report[source][k] = None THEN @ ELSE source]
    /\ part' = part + 1
    /\ publisher' = IF part = 2 THEN "note" ELSE "copy"
    /\ UNCHANGED <<run, locals, source, provenance, started, evaluated>>

\* PROVENANCE.json, last.
Note ==
    /\ publisher = "note"
    /\ provenance' = source
    /\ publisher' = "idle" /\ source' = None /\ part' = 1
    /\ UNCHANGED <<run, locals, published, started, evaluated>>

-----------------------------------------------------------------------------
(* A process is killed: what it had buffered is gone. *)

KillBenchmark(r) ==
    /\ pc[r] # "idle"
    /\ Exit(r)
    /\ end' = IF pc[r] \in {"name", "mkdir"} THEN end ELSE [end EXCEPT ![dir[r]] = "killed"]
    /\ UNCHANGED <<exists, manifest, raw, report, owners, publication, started, evaluated>>

KillPublisher ==
    /\ publisher # "idle"
    /\ publisher' = "idle" /\ source' = None /\ part' = 1
    /\ UNCHANGED <<run, locals, published, provenance, started, evaluated>>

-----------------------------------------------------------------------------
Step(r) ==
    \/ ChooseName(r)
    \/ MakeDirectory(r)
    \/ OpenManifest(r)
    \/ WriteManifest(r)
    \/ NextJob(r)
    \/ WriteRecord(r)
    \/ CloseFile(r)
    \/ WriteReport(r)

Next ==
    \/ \E r \in Runners : Start(r) \/ Step(r) \/ Raise(r) \/ RaiseOutside(r) \/ KillBenchmark(r)
    \/ \E d \in Directories : Evaluate(d) \/ Publish(d)
    \/ Clear \/ Copy \/ Note \/ KillPublisher

\* A benchmark goes on until it is done, raises or is killed.
Spec == Init /\ [][Next]_vars /\ \A r \in Runners : WF_vars(Step(r))

-----------------------------------------------------------------------------
(* Properties. *)

Counts == [Files -> 0 .. TestSize]

\* The directories, the processes and the publication hold what the code puts there.
TypeOK ==
    /\ exists \subseteq Directories
    /\ manifest \in [Directories -> {"none", "torn", "no status", "failed", "completed"}]
    /\ raw \in [Directories -> [Files -> -1 .. TestSize]]
    /\ report \in [Directories -> [Kinds -> Counts \cup {None}]]
    /\ end \in [Directories -> {"none", "running", "raised", "aborted", "killed", "finished"}]
    /\ owners \in [Directories -> Nat]
    /\ pc \in [Runners -> {"idle", "name", "mkdir", "begin", "begun", "job", "items", "fail",
                            "failing", "complete", "completing"} \cup Kinds]
    /\ dir \in [Runners -> Directories \cup {None}]
    /\ job \in [Runners -> 1 .. Jobs + 1]
    /\ written \in [Runners -> 0 .. TestSize]
    /\ publisher \in {"idle", "clear", "copy", "note"}
    /\ source \in Directories \cup {None}
    /\ part \in 1 .. 3
    /\ published \in [Kinds -> {None} \cup Directories]
    /\ provenance \in {None} \cup Directories
    /\ started \in 0 .. MaxRuns
    /\ evaluated \in 0 .. MaxEvaluations

\* tests/unit/test_tools_rag_tracking.py, test_tracking: two runs of one experiment never share
\* a directory, in which each would truncate the other's records.
OneRunPerDirectory == \A d \in Directories : owners[d] <= 1

\* docs/reproducibility.md: raw/ holds "one record per test item".  Of a run whose manifest says
\* completed every record of every seed and system can be read.  Whatever report it has, the
\* benchmark's or one written when it was over, counts something, and no file in part: all
\* of its records, or none where `evaluate` was given another file.
CompletedIsWhole ==
    \A d \in Directories : manifest[d] = "completed" =>
        /\ \A j \in Files : raw[d][j] = TestSize
        /\ \A k \in Kinds : report[d][k] # None =>
              /\ \A j \in Files : report[d][k][j] \in {0, TestSize}
              /\ \E j \in Files : report[d][k][j] # 0

\* A benchmark whose systems all end, or one of which raises, leaves a verdict in its manifest.
\* What keeps it from one is a kill, or an exception or an interrupt outside the try.
VerdictReached ==
    \A d \in Directories :
        manifest[d] = "no status" ~> \/ manifest[d] \in {"failed", "completed"}
                                     \/ end[d] \in {"killed", "aborted"}

\* publish_results.py: "every number in the README can be traced back to a run".  Whatever is
\* published next to a provenance note is from the run the note names, also after
\* publications of other runs, of which some were killed half way.
TracesToItsRun ==
    provenance # None =>
        \A k \in Kinds : published[k] # None => published[k] = provenance

\* publish_results.py: "Copy the reported tables and figures of finished runs".
OnlyFinishedPublished == provenance # None => end[provenance] = "finished"
=============================================================================
