------------------------- MODULE ExperimentRunsProofs -------------------------
(***************************************************************************)
(* What is published is of the run its note names, whatever is killed.     *)
(* Benchmarks that start in different seconds have directories of their    *)
(* own, and what a completed one leaves behind is whole: both need that    *)
(* assumption, and fail without it.                                        *)
(***************************************************************************)
EXTENDS ExperimentRuns, FiniteSetTheorems, TLAPS

-----------------------------------------------------------------------------
(* The publication. *)

\* While files are copied the note of the last publication is gone, and what is there
\* has been copied from the run being published.
PublicationInv ==
    /\ published = [k \in Kinds |-> published[k]]
    /\ publisher \in {"idle", "clear", "copy", "note"}
    /\ publisher = "copy" => part \in {1, 2}
    /\ publisher \in {"idle", "clear"} => part = 1
    /\ publisher # "idle" => source \in Directories
    /\ publisher \in {"copy", "note"} =>
          /\ provenance = None
          /\ \A k \in Kinds : published[k] # None => published[k] = source
    /\ TracesToItsRun

LEMMA PublicationStarts == Init => PublicationInv
BY DEF Init, PublicationInv, TracesToItsRun, NoReport, Kinds

LEMMA PublicationStep == PublicationInv /\ [Next]_vars => PublicationInv'
<1>. SUFFICES ASSUME PublicationInv, [Next]_vars
              PROVE  PublicationInv'
  OBVIOUS
<1>. USE DEF PublicationInv, TracesToItsRun
<1>1. ASSUME UNCHANGED publication
      PROVE  PublicationInv'
  BY <1>1 DEF publication
<1>2. ASSUME NEW d \in Directories, Publish(d)
      PROVE  PublicationInv'
  BY <1>2 DEF Publish
<1>3. CASE Clear
  BY <1>3 DEF Clear, NoReport
<1>4. CASE Copy
  <2>1. Order[part] \in Kinds
    BY <1>4 DEF Copy, Order, Kinds
  <2>. QED
    BY <1>4, <2>1 DEF Copy
<1>5. CASE Note
  BY <1>5 DEF Note
<1>6. CASE KillPublisher
  BY <1>6 DEF KillPublisher
<1>7. ASSUME NEW r \in Runners,
             Start(r) \/ Step(r) \/ Raise(r) \/ RaiseOutside(r) \/ KillBenchmark(r)
      PROVE  UNCHANGED publication
  BY <1>7 DEF Start, Step, Raise, RaiseOutside, KillBenchmark, ChooseName, MakeDirectory,
              OpenManifest, WriteManifest, NextJob, WriteRecord, CloseFile, WriteReport,
              publication
<1>8. ASSUME NEW d \in Directories, Evaluate(d)
      PROVE  UNCHANGED publication
  BY <1>8 DEF Evaluate
<1>9. CASE UNCHANGED vars
  BY <1>1, <1>9 DEF vars
<1>. QED
  BY <1>1, <1>2, <1>3, <1>4, <1>5, <1>6, <1>7, <1>8, <1>9 DEF Next

\* publish_results.py: what is published next to a provenance note is from the run the note
\* names, for any number of runs and publications, and wherever they are killed.
THEOREM Traceable == Spec => []TracesToItsRun
<1>1. PublicationInv => TracesToItsRun
  BY DEF PublicationInv
<1>. QED
  BY PublicationStarts, PublicationStep, <1>1, PTL DEF Spec

-----------------------------------------------------------------------------
(* The run directories, if no two benchmarks start in one second. *)

DistinctSeconds == \A r, s \in Runners : Second[r] = Second[s] => r = s

\* The benchmark has a directory of its own.
Working(r) == pc[r] \notin {"idle", "name", "mkdir"}

\* A directory is as old as its suffix, so that a new one is free when it is chosen, and
\* still is when it is made: nobody else looks for one with this second.
Names ==
    /\ \A d \in exists : d[2] < started
    /\ \A r \in Runners :
          /\ pc[r] = "name" =>
                /\ started > 0
                /\ \A d \in exists : d[1] = Second[r] => d[2] < started - 1
          /\ pc[r] = "mkdir" =>
                dir[r] \in Directories \ exists /\ dir[r][1] = Second[r] /\ dir[r][2] < started
          /\ Working(r) => dir[r] \in exists /\ dir[r][1] = Second[r]

\* Nothing is in a directory before it is made, and it is made once.
Fresh ==
    /\ \A d \in Directories \ exists :
          manifest[d] = "none" /\ report[d] = NoReport /\ owners[d] = 0
    /\ \A d \in exists : owners[d] = 1

\* What a benchmark has left behind so far.
Progress(r) ==
    /\ ~Working(r) => job[r] = 1 /\ written[r] = 0
    /\ Working(r) =>
          /\ end[dir[r]] = "running"
          /\ pc[r] \notin Kinds => manifest[dir[r]] # "completed" /\ report[dir[r]] = NoReport
          /\ pc[r] # "fail" /\ pc[r] # "failing" =>
                \A j \in Files : j < job[r] => raw[dir[r]][j] = TestSize
          /\ pc[r] = "items" => job[r] \in Files
          /\ pc[r] \in {"complete", "completing"} \cup Kinds => job[r] = Jobs + 1

\* CompletedIsWhole, of one directory.
Whole(d) == manifest[d] = "completed" =>
    /\ \A j \in Files : raw[d][j] = TestSize
    /\ \A k \in Kinds : report[d][k] # None =>
          /\ \A j \in Files : report[d][k][j] \in {0, TestSize}
          /\ \E j \in Files : report[d][k][j] # 0

RunInv ==
    /\ TypeOK
    /\ Names
    /\ Fresh
    /\ \A r \in Runners : Progress(r)
    /\ \A d \in Directories : Whole(d)

LEMMA RunStarts == Init => RunInv
<1>. SUFFICES ASSUME Init
              PROVE  RunInv
  OBVIOUS
<1>. USE SizeAssumption, BoundAssumption DEF Init
<1>1. TypeOK
  BY DEF TypeOK, NoReport, Kinds, Counts, Files
<1>2. Names /\ Fresh /\ \A d \in Directories : Whole(d)
  BY DEF Names, Fresh, Working, Whole
<1>3. \A r \in Runners : Progress(r)
  BY DEF Progress, Working
<1>. QED
  BY <1>1, <1>2, <1>3 DEF RunInv

\* A set of naturals has a least element.
LEMMA Least ==
    ASSUME NEW S \in SUBSET Nat, S # {}
    PROVE  \E x \in S : \A y \in S : x <= y
<1>. DEFINE Segments == {0 .. x : x \in S}
<1>1. Segments \subseteq FiniteSubsetsOf(Nat) /\ Segments # {}
  <2>1. ASSUME NEW x \in S
        PROVE  0 .. x \in FiniteSubsetsOf(Nat)
    <3>1. IsFiniteSet(0 .. x)
      BY FS_Interval
    <3>. QED
      BY <3>1 DEF FiniteSubsetsOf
  <2>. QED
    BY <2>1
<1>2. IsWellFoundedOn(StrictSubsetOrdering(Nat), FiniteSubsetsOf(Nat))
  BY FS_StrictSubsetOrderingWellFounded
<1>. HIDE DEF Segments
<1>3. PICK U \in Segments : \A V \in Segments : ~(<<V, U>> \in StrictSubsetOrdering(Nat))
  BY <1>1, <1>2, WFMin, Zenon
<1>. USE DEF Segments
<1>4. PICK x \in S : U = 0 .. x
  BY <1>3
<1>5. ASSUME NEW y \in S, y < x
      PROVE  FALSE
  <2>1. 0 .. y \subseteq 0 .. x /\ 0 .. y # 0 .. x
    <3>1. x \in 0 .. x /\ x \notin 0 .. y
      BY <1>5
    <3>. QED
      BY <1>5, <3>1
  <2>2. <<0 .. y, 0 .. x>> \in StrictSubsetOrdering(Nat)
    BY <2>1 DEF StrictSubsetOrdering
  <2>. QED
    BY <1>3, <1>4, <2>2
<1>. QED
  BY <1>5

\* The name chosen is free, and its suffix is below the number of benchmarks started.
LEMMA FreeNameIsFree ==
    ASSUME TypeOK, Names, NEW r \in Runners, pc[r] = "name"
    PROVE  /\ FreeName(r) \in Directories \ exists
           /\ FreeName(r)[1] = Second[r]
           /\ FreeName(r)[2] < started
<1>. DEFINE Free == {n \in 0 .. MaxRuns - 1 : <<Second[r], n>> \notin exists}
            suffix == CHOOSE n \in 0 .. MaxRuns - 1 :
                         /\ <<Second[r], n>> \notin exists
                         /\ \A m \in 0 .. n - 1 : <<Second[r], m>> \in exists
<1>1. started \in 0 .. MaxRuns /\ started > 0 /\ MaxRuns \in Nat
  BY BoundAssumption DEF TypeOK, Names
<1>2. started - 1 \in Free
  <2>1. <<Second[r], started - 1>> \notin exists
    <3>1. SUFFICES ASSUME <<Second[r], started - 1>> \in exists
                   PROVE  FALSE
      OBVIOUS
    <3>2. started - 1 < started - 1
      BY <3>1 DEF Names
    <3>. QED
      BY <1>1, <3>2
  <2>. QED
    BY <1>1, <2>1
<1>3. Free \in SUBSET Nat /\ Free # {}
  BY <1>1, <1>2
<1>4. PICK n \in Free : \A m \in Free : n <= m
  <2>. HIDE DEF Free
  <2>. QED
    BY <1>3, Least
<1>5. n <= started - 1
  BY <1>2, <1>4
<1>6. \A m \in 0 .. n - 1 : <<Second[r], m>> \in exists
  <2>1. ASSUME NEW m \in 0 .. n - 1, <<Second[r], m>> \notin exists
        PROVE  FALSE
    <3>1. m \in Free /\ m < n
      BY <1>1, <1>4, <2>1
    <3>2. n <= m
      BY <1>4, <3>1
    <3>. QED
      BY <1>1, <3>1, <3>2
  <2>. QED
    BY <2>1
<1>7. /\ suffix \in 0 .. MaxRuns - 1
      /\ <<Second[r], suffix>> \notin exists
      /\ \A m \in 0 .. suffix - 1 : <<Second[r], m>> \in exists
  <2>1. n \in 0 .. MaxRuns - 1 /\ <<Second[r], n>> \notin exists
    BY <1>4
  <2>. QED
    BY <1>6, <2>1
<1>8. FreeName(r) = <<Second[r], suffix>>
  BY DEF FreeName
<1>. HIDE DEF suffix
<1>9. suffix <= started - 1
  <2>1. SUFFICES ASSUME started - 1 < suffix
                 PROVE  FALSE
    BY <1>1, <1>7
  <2>2. started - 1 \in 0 .. suffix - 1
    BY <1>1, <1>7, <2>1
  <2>3. <<Second[r], started - 1>> \in exists
    BY <1>7, <2>2
  <2>. QED
    BY <1>2, <2>3
<1>. QED
  BY <1>1, <1>7, <1>8, <1>9 DEF Directories

\* What a benchmark does in its own directory concerns nobody else's, which is another one.
LEMMA OwnDirectory ==
    ASSUME DistinctSeconds, RunInv, NEW r \in Runners, Working(r),
           UNCHANGED <<exists, owners, started>>,
           \A s \in Runners \ {r} : /\ pc'[s] = pc[s]   /\ dir'[s] = dir[s]
                                    /\ job'[s] = job[s] /\ written'[s] = written[s],
           \A d \in Directories \ {dir[r]} : /\ manifest'[d] = manifest[d] /\ raw'[d] = raw[d]
                                             /\ report'[d] = report[d]     /\ end'[d] = end[d],
           pc'[r] \notin {"name", "mkdir"},
           pc'[r] # "idle" => dir'[r] = dir[r]
    PROVE  /\ Names'
           /\ Fresh'
           /\ \A s \in Runners \ {r} : Progress(s)'
           /\ \A d \in Directories \ {dir[r]} : Whole(d)'
<1>1. TypeOK /\ Names /\ Fresh
  BY DEF RunInv
<1>2. dir[r] \in exists /\ dir[r][1] = Second[r] /\ exists \subseteq Directories
  BY <1>1 DEF Names, TypeOK
<1>3. Names'
  <2>1. \A s \in Runners \ {r} : Working(s)' = Working(s)
    BY DEF Working
  <2>. QED
    BY <1>1, <1>2, <2>1 DEF Names, Working
<1>4. Fresh'
  BY <1>1, <1>2 DEF Fresh
<1>5. ASSUME NEW s \in Runners \ {r}
      PROVE  Progress(s)'
  <2>1. Progress(s) /\ Working(s)' = Working(s)
    BY DEF Working, RunInv
  <2>2. CASE Working(s)
    <3>1. dir[s] \in Directories \ {dir[r]}
      BY <1>1, <1>2, <2>2 DEF DistinctSeconds, Names
    <3>. QED
      BY <2>1, <2>2, <3>1 DEF Progress
  <2>. QED
    BY <2>1, <2>2 DEF Progress
<1>6. \A d \in Directories \ {dir[r]} : Whole(d)'
  BY DEF Whole, RunInv
<1>. QED
  BY <1>3, <1>4, <1>5, <1>6

Labels == {"idle", "name", "mkdir", "begin", "begun", "job", "items", "fail", "failing",
           "complete", "completing"} \cup Kinds

\* Going to a statement, or leaving, keeps the types of what a process has in memory.
LEMMA LocalTypes ==
    ASSUME TypeOK, NEW r \in Runners,
           Exit(r) \/ \E label \in Labels : Goto(r, label)
    PROVE  /\ pc' \in [Runners -> Labels]
           /\ dir' \in [Runners -> Directories \cup {None}]
           /\ job' \in [Runners -> 1 .. Jobs + 1]
           /\ written' \in [Runners -> 0 .. TestSize]
<1>1. /\ pc \in [Runners -> Labels]
      /\ dir \in [Runners -> Directories \cup {None}]
      /\ job \in [Runners -> 1 .. Jobs + 1]
      /\ written \in [Runners -> 0 .. TestSize]
  BY DEF TypeOK, Labels
<1>2. 1 \in 1 .. Jobs + 1 /\ 0 \in 0 .. TestSize /\ "idle" \in Labels
  BY SizeAssumption DEF Labels
<1>3. CASE Exit(r)
  BY <1>1, <1>2, <1>3 DEF Exit
<1>4. ASSUME NEW label \in Labels, Goto(r, label)
      PROVE  pc' \in [Runners -> Labels] /\ UNCHANGED <<dir, job, written>>
  BY <1>1, <1>4 DEF Goto
<1>. QED
  BY <1>1, <1>3, <1>4

\* A file of a directory gets some records.
LEMMA FileWritten ==
    ASSUME TypeOK, NEW d \in Directories, NEW j \in Files, NEW n \in -1 .. TestSize
    PROVE  LET new == [raw EXCEPT ![d][j] = n] IN
           /\ new \in [Directories -> [Files -> -1 .. TestSize]]
           /\ new[d][j] = n
           /\ \A i \in Files \ {j} : new[d][i] = raw[d][i]
           /\ \A e \in Directories \ {d} : new[e] = raw[e]
<1>1. raw \in [Directories -> [Files -> -1 .. TestSize]]
  BY DEF TypeOK
<1>. DEFINE row == [raw[d] EXCEPT ![j] = n]
<1>2. row \in [Files -> -1 .. TestSize] /\ row[j] = n /\ \A i \in Files \ {j} : row[i] = raw[d][i]
  BY <1>1
<1>3. [raw EXCEPT ![d][j] = n] = [raw EXCEPT ![d] = row]
  OBVIOUS
<1>. HIDE DEF row
<1>. QED
  BY <1>1, <1>2, <1>3

\* A part of the report is computed from the records.
LEMMA PartWritten ==
    ASSUME TypeOK, NEW d \in Directories, NEW k \in Kinds
    PROVE  LET new == [report EXCEPT ![d][k] = Records(d)] IN
           /\ new \in [Directories -> [Kinds -> Counts \cup {None}]]
           /\ new[d][k] = Records(d)
           /\ \A i \in Kinds \ {k} : new[d][i] = report[d][i]
           /\ \A e \in Directories \ {d} : new[e] = report[e]
<1>1. report \in [Directories -> [Kinds -> Counts \cup {None}]]
  BY DEF TypeOK
<1>2. Records(d) \in Counts
  <2>1. \A j \in Files : raw[d][j] \in -1 .. TestSize
    BY DEF TypeOK
  <2>2. \A j \in Files : (IF raw[d][j] > 0 THEN raw[d][j] ELSE 0) \in 0 .. TestSize
    BY <2>1, SizeAssumption
  <2>. QED
    BY <2>2 DEF Records, Counts
<1>. DEFINE row == [report[d] EXCEPT ![k] = Records(d)]
<1>3. row \in [Kinds -> Counts \cup {None}] /\ row[k] = Records(d)
      /\ \A i \in Kinds \ {k} : row[i] = report[d][i]
  BY <1>1, <1>2
<1>4. [report EXCEPT ![d][k] = Records(d)] = [report EXCEPT ![d] = row]
  OBVIOUS
<1>. HIDE DEF row
<1>. QED
  BY <1>1, <1>3, <1>4

-----------------------------------------------------------------------------
(* Every step keeps RunInv: of each action, the types, its effect on the directory of the    *)
(* benchmark (Progress and Whole), and OwnDirectory for all the others.                      *)

LEMMA InMemory ==
    ASSUME TypeOK, NEW r \in Runners
    PROVE  job[r] \in 1 .. Jobs + 1 /\ written[r] \in 0 .. TestSize
BY DEF TypeOK

LEMMA OpenManifestStep ==
    ASSUME DistinctSeconds, RunInv, NEW r \in Runners, OpenManifest(r)
    PROVE  RunInv'
<1>. USE SizeAssumption
<1>1. /\ TypeOK /\ Names /\ Progress(r) /\ Working(r)
      /\ \A e \in Directories : Whole(e)
  BY DEF RunInv, Working, OpenManifest, Kinds
<1>. PICK d \in Directories : d = dir[r]
  BY <1>1 DEF Names, TypeOK
<1>3. TypeOK'
  <2>1. /\ pc' \in [Runners -> Labels]
        /\ dir' \in [Runners -> Directories \cup {None}]
        /\ job' \in [Runners -> 1 .. Jobs + 1]
        /\ written' \in [Runners -> 0 .. TestSize]
    BY <1>1, LocalTypes DEF OpenManifest, Labels
  <2>2. manifest' \in [Directories -> {"none", "torn", "no status", "failed", "completed"}]
    BY <1>1 DEF TypeOK, OpenManifest
  <2>. QED
    BY <1>1, <2>1, <2>2 DEF TypeOK, OpenManifest, Labels, publication
<1>4. /\ Names'
      /\ Fresh'
      /\ \A s \in Runners \ {r} : Progress(s)'
      /\ \A e \in Directories \ {d} : Whole(e)'
  <2>1. /\ UNCHANGED <<exists, owners, started>>
        /\ \A s \in Runners \ {r} : /\ pc'[s] = pc[s]   /\ dir'[s] = dir[s]
                                    /\ job'[s] = job[s] /\ written'[s] = written[s]
    BY <1>1 DEF TypeOK, OpenManifest, Goto
  <2>2. /\ \A e \in Directories \ {d} : /\ manifest'[e] = manifest[e] /\ raw'[e] = raw[e]
                                       /\ report'[e] = report[e]     /\ end'[e] = end[e]
    BY <1>1 DEF TypeOK, OpenManifest
  <2>3. pc'[r] \notin {"name", "mkdir"} /\ (pc'[r] # "idle" => dir'[r] = dir[r])
    BY <1>1 DEF TypeOK, OpenManifest, Goto
  <2>. QED
    BY <1>1, <2>1, <2>2, <2>3, OwnDirectory
<1>5. Progress(r)'
  BY <1>1 DEF TypeOK, OpenManifest, Goto, Progress, Working, Kinds
<1>6. Whole(d)'
  BY <1>1 DEF TypeOK, OpenManifest, Whole
<1>. QED
  BY <1>3, <1>4, <1>5, <1>6 DEF RunInv

LEMMA WriteManifestStep ==
    ASSUME DistinctSeconds, RunInv, NEW r \in Runners, WriteManifest(r)
    PROVE  RunInv'
<1>. USE SizeAssumption
<1>1. /\ TypeOK /\ Names /\ Progress(r) /\ Working(r)
      /\ \A e \in Directories : Whole(e)
  BY DEF RunInv, Working, WriteManifest, Kinds
<1>. PICK d \in Directories : d = dir[r]
  BY <1>1 DEF Names, TypeOK
<1>3. TypeOK'
  <2>1. /\ pc' \in [Runners -> Labels]
        /\ dir' \in [Runners -> Directories \cup {None}]
        /\ job' \in [Runners -> 1 .. Jobs + 1]
        /\ written' \in [Runners -> 0 .. TestSize]
    <3>1. Exit(r) \/ \E label \in Labels : Goto(r, label)
      BY DEF WriteManifest, Labels, Kinds
    <3>. QED
      BY <1>1, <3>1, LocalTypes
  <2>2. manifest' \in [Directories -> {"none", "torn", "no status", "failed", "completed"}]
    BY <1>1 DEF TypeOK, WriteManifest
  <2>3. end' \in [Directories -> {"none", "running", "raised", "aborted", "killed", "finished"}]
    BY <1>1 DEF TypeOK, WriteManifest
  <2>. QED
    BY <1>1, <2>1, <2>2, <2>3 DEF TypeOK, WriteManifest, Labels, publication
<1>4. /\ Names'
      /\ Fresh'
      /\ \A s \in Runners \ {r} : Progress(s)'
      /\ \A e \in Directories \ {d} : Whole(e)'
  <2>1. /\ UNCHANGED <<exists, owners, started>>
        /\ \A s \in Runners \ {r} : /\ pc'[s] = pc[s]   /\ dir'[s] = dir[s]
                                    /\ job'[s] = job[s] /\ written'[s] = written[s]
    BY <1>1 DEF TypeOK, WriteManifest, Goto, Exit
  <2>2. /\ \A e \in Directories \ {d} : /\ manifest'[e] = manifest[e] /\ raw'[e] = raw[e]
                                       /\ report'[e] = report[e]     /\ end'[e] = end[e]
    BY <1>1 DEF TypeOK, WriteManifest
  <2>3. pc'[r] \notin {"name", "mkdir"} /\ (pc'[r] # "idle" => dir'[r] = dir[r])
    BY <1>1 DEF TypeOK, WriteManifest, Goto, Exit
  <2>. QED
    BY <1>1, <2>1, <2>2, <2>3, OwnDirectory
<1>5. Progress(r)'
  <2>1. CASE pc[r] = "begun"
    BY <1>1, <2>1 DEF TypeOK, WriteManifest, Goto, Progress, Working, Kinds
  <2>2. CASE pc[r] = "failing"
    <3>1. pc'[r] = "idle" /\ job'[r] = 1 /\ written'[r] = 0
      BY <1>1, <2>2 DEF TypeOK, WriteManifest, Exit
    <3>. QED
      BY <3>1 DEF Progress, Working
  <2>3. CASE pc[r] = "completing"
    BY <1>1, <2>3 DEF TypeOK, WriteManifest, Goto, Progress, Working, Kinds
  <2>. QED
    BY <2>1, <2>2, <2>3 DEF WriteManifest
<1>6. Whole(d)'
  <2>1. CASE pc[r] = "completing"
    <3>1. (\A j \in Files : raw[d][j] = TestSize) /\ report[d] = NoReport
      <4>1. /\ job[r] = Jobs + 1 /\ report[d] = NoReport
            /\ \A j \in Files : j < job[r] => raw[d][j] = TestSize
        BY <1>1, <2>1 DEF Progress, Kinds
      <4>. QED
        BY <4>1 DEF Files
    <3>. QED
      BY <3>1, <2>1 DEF WriteManifest, Whole, NoReport
  <2>2. CASE pc[r] # "completing"
    BY <1>1, <2>2 DEF TypeOK, WriteManifest, Whole
  <2>. QED
    BY <2>1, <2>2
<1>. QED
  BY <1>3, <1>4, <1>5, <1>6 DEF RunInv

LEMMA NextJobStep ==
    ASSUME DistinctSeconds, RunInv, NEW r \in Runners, NextJob(r)
    PROVE  RunInv'
<1>. USE SizeAssumption
<1>1. /\ TypeOK /\ Names /\ Progress(r) /\ Working(r)
      /\ \A e \in Directories : Whole(e)
  BY DEF RunInv, Working, NextJob, Kinds
<1>. PICK d \in Directories : d = dir[r]
  BY <1>1 DEF Names, TypeOK
<1>2. job[r] <= Jobs =>
         /\ job[r] \in Files
         /\ raw' \in [Directories -> [Files -> -1 .. TestSize]]
         /\ \A i \in Files \ {job[r]} : raw'[d][i] = raw[d][i]
         /\ \A e \in Directories \ {d} : raw'[e] = raw[e]
  <2>1. SUFFICES ASSUME job[r] <= Jobs
                 PROVE  /\ job[r] \in Files
                        /\ raw' \in [Directories -> [Files -> -1 .. TestSize]]
                        /\ \A i \in Files \ {job[r]} : raw'[d][i] = raw[d][i]
                        /\ \A e \in Directories \ {d} : raw'[e] = raw[e]
    OBVIOUS
  <2>2. job[r] \in Files /\ 0 \in -1 .. TestSize
    BY <1>1, <2>1, InMemory DEF Files
  <2>3. raw' = [raw EXCEPT ![d][job[r]] = 0]
    BY <2>1 DEF NextJob
  <2>. QED
    BY <1>1, <2>2, <2>3, FileWritten
<1>3. TypeOK'
  <2>1. /\ pc' \in [Runners -> Labels]
        /\ dir' \in [Runners -> Directories \cup {None}]
        /\ job' \in [Runners -> 1 .. Jobs + 1]
        /\ written' \in [Runners -> 0 .. TestSize]
    <3>1. \E label \in Labels : Goto(r, label)
      BY DEF NextJob, Labels
    <3>. QED
      BY <1>1, <3>1, LocalTypes
  <2>2. raw' \in [Directories -> [Files -> -1 .. TestSize]]
    BY <1>1, <1>2 DEF TypeOK, NextJob
  <2>. QED
    BY <1>1, <2>1, <2>2 DEF TypeOK, NextJob, Labels, publication
<1>4. /\ Names'
      /\ Fresh'
      /\ \A s \in Runners \ {r} : Progress(s)'
      /\ \A e \in Directories \ {d} : Whole(e)'
  <2>1. /\ UNCHANGED <<exists, owners, started>>
        /\ \A s \in Runners \ {r} : /\ pc'[s] = pc[s]   /\ dir'[s] = dir[s]
                                    /\ job'[s] = job[s] /\ written'[s] = written[s]
    BY <1>1 DEF TypeOK, NextJob, Goto
  <2>2. /\ \A e \in Directories \ {d} : /\ manifest'[e] = manifest[e] /\ raw'[e] = raw[e]
                                       /\ report'[e] = report[e]     /\ end'[e] = end[e]
    BY <1>1, <1>2 DEF NextJob
  <2>3. pc'[r] \notin {"name", "mkdir"} /\ (pc'[r] # "idle" => dir'[r] = dir[r])
    BY <1>1 DEF TypeOK, NextJob, Goto
  <2>. QED
    BY <1>1, <2>1, <2>2, <2>3, OwnDirectory
<1>5. Progress(r)'
  <2>1. CASE job[r] <= Jobs
    <3>1. /\ pc'[r] = "items" /\ dir'[r] = d /\ job'[r] = job[r]
          /\ manifest'[d] = manifest[d] /\ report'[d] = report[d] /\ end'[d] = end[d]
      BY <1>1, <2>1 DEF TypeOK, NextJob, Goto
    <3>2. \A j \in Files : j < job[r] => raw'[d][j] = TestSize
      <4>1. \A j \in Files : j < job[r] => raw[d][j] = TestSize
        BY <1>1 DEF NextJob, Progress
      <4>2. job[r] \in Nat
        BY <1>2, <2>1 DEF Files
      <4>. QED
        BY <1>2, <2>1, <4>1, <4>2
    <3>. QED
      BY <1>1, <1>2, <2>1, <3>1, <3>2 DEF NextJob, Progress, Working, Kinds
  <2>2. CASE ~(job[r] <= Jobs)
    <3>1. job[r] = Jobs + 1
      BY <1>1, <2>2, InMemory
    <3>. QED
      BY <1>1, <2>2, <3>1 DEF TypeOK, NextJob, Goto, Progress, Working, Kinds, Files
  <2>. QED
    BY <2>1, <2>2
<1>6. Whole(d)'
  BY <1>1 DEF NextJob, Whole, Progress, Kinds
<1>. QED
  BY <1>3, <1>4, <1>5, <1>6 DEF RunInv

LEMMA WriteRecordStep ==
    ASSUME DistinctSeconds, RunInv, NEW r \in Runners, WriteRecord(r)
    PROVE  RunInv'
<1>. USE SizeAssumption
<1>1. /\ TypeOK /\ Names /\ Progress(r) /\ Working(r)
      /\ \A e \in Directories : Whole(e)
  BY DEF RunInv, Working, WriteRecord, Kinds
<1>. PICK d \in Directories : d = dir[r]
  BY <1>1 DEF Names, TypeOK
<1>2. /\ job[r] \in Files
      /\ raw' \in [Directories -> [Files -> -1 .. TestSize]]
      /\ \A i \in Files \ {job[r]} : raw'[d][i] = raw[d][i]
      /\ \A e \in Directories \ {d} : raw'[e] = raw[e]
  <2>1. job[r] \in Files
    BY <1>1 DEF Progress, WriteRecord
  <2>2. written'[r] \in 0 .. TestSize /\ raw[d][job[r]] \in -1 .. TestSize
    <3>1. written[r] + 1 \in 0 .. TestSize
      BY <1>1, InMemory DEF WriteRecord
    <3>2. written'[r] = written[r] + 1
      <4>1. written \in [Runners -> 0 .. TestSize] /\ written' = [written EXCEPT ![r] = @ + 1]
        BY <1>1 DEF TypeOK, WriteRecord
      <4>. QED
        BY <4>1
    <3>3. raw[d] \in [Files -> -1 .. TestSize]
      BY <1>1 DEF TypeOK
    <3>. QED
      BY <2>1, <3>1, <3>2, <3>3
  <2>3. PICK n \in raw[d][job[r]] .. written'[r] : raw' = [raw EXCEPT ![d][job[r]] = n]
    BY DEF WriteRecord
  <2>4. n \in -1 .. TestSize
    BY <2>2
  <2>. QED
    BY <1>1, <2>1, <2>3, <2>4, FileWritten
<1>3. TypeOK'
  <2>1. written' \in [Runners -> 0 .. TestSize]
    <3>1. written[r] + 1 \in 0 .. TestSize
      BY <1>1, InMemory DEF WriteRecord
    <3>. QED
      BY <1>1, <3>1 DEF TypeOK, WriteRecord
  <2>. QED
    BY <1>1, <1>2, <2>1 DEF TypeOK, WriteRecord, publication
<1>4. /\ Names'
      /\ Fresh'
      /\ \A s \in Runners \ {r} : Progress(s)'
      /\ \A e \in Directories \ {d} : Whole(e)'
  <2>1. /\ UNCHANGED <<exists, owners, started>>
        /\ \A s \in Runners \ {r} : /\ pc'[s] = pc[s]   /\ dir'[s] = dir[s]
                                    /\ job'[s] = job[s] /\ written'[s] = written[s]
    <3>1. /\ written \in [Runners -> 0 .. TestSize] /\ written' = [written EXCEPT ![r] = @ + 1]
          /\ UNCHANGED <<exists, owners, started, pc, dir, job>>
      BY <1>1 DEF TypeOK, WriteRecord
    <3>. QED
      BY <3>1
  <2>2. /\ \A e \in Directories \ {d} : /\ manifest'[e] = manifest[e] /\ raw'[e] = raw[e]
                                       /\ report'[e] = report[e]     /\ end'[e] = end[e]
    BY <1>1, <1>2 DEF WriteRecord
  <2>3. pc'[r] \notin {"name", "mkdir"} /\ (pc'[r] # "idle" => dir'[r] = dir[r])
    BY <1>1 DEF TypeOK, WriteRecord
  <2>. QED
    BY <1>1, <2>1, <2>2, <2>3, OwnDirectory
<1>5. Progress(r)'
  <2>1. /\ pc'[r] = "items" /\ dir'[r] = d /\ job'[r] = job[r]
        /\ manifest'[d] = manifest[d] /\ report'[d] = report[d] /\ end'[d] = end[d]
    BY <1>1 DEF TypeOK, WriteRecord
  <2>2. \A j \in Files : j < job[r] => raw'[d][j] = TestSize
    <3>1. \A j \in Files : j < job[r] => raw[d][j] = TestSize
      BY <1>1 DEF WriteRecord, Progress
    <3>2. job[r] \in Nat
      BY <1>2 DEF Files
    <3>. QED
      BY <1>2, <3>1, <3>2
  <2>. QED
    BY <1>1, <1>2, <2>1, <2>2 DEF WriteRecord, Progress, Working, Kinds
<1>6. Whole(d)'
  BY <1>1 DEF WriteRecord, Whole, Progress, Kinds
<1>. QED
  BY <1>3, <1>4, <1>5, <1>6 DEF RunInv

LEMMA CloseFileStep ==
    ASSUME DistinctSeconds, RunInv, NEW r \in Runners, CloseFile(r)
    PROVE  RunInv'
<1>. USE SizeAssumption
<1>1. /\ TypeOK /\ Names /\ Progress(r) /\ Working(r)
      /\ \A e \in Directories : Whole(e)
  BY DEF RunInv, Working, CloseFile, Kinds
<1>. PICK d \in Directories : d = dir[r]
  BY <1>1 DEF Names, TypeOK
<1>2. /\ job[r] \in Files
      /\ raw' \in [Directories -> [Files -> -1 .. TestSize]]
      /\ raw'[d][job[r]] = TestSize
      /\ \A i \in Files \ {job[r]} : raw'[d][i] = raw[d][i]
      /\ \A e \in Directories \ {d} : raw'[e] = raw[e]
  <2>1. job[r] \in Files /\ TestSize \in -1 .. TestSize
    BY <1>1 DEF Progress, CloseFile
  <2>2. raw' = [raw EXCEPT ![d][job[r]] = TestSize]
    BY DEF CloseFile, Flushed
  <2>. QED
    BY <1>1, <2>1, <2>2, FileWritten
<1>3. TypeOK'
  <2>1. pc' \in [Runners -> Labels]
    BY <1>1 DEF TypeOK, CloseFile, Labels
  <2>2. job[r] + 1 \in 1 .. Jobs + 1 /\ 0 \in 0 .. TestSize
    BY <1>2 DEF Files
  <2>3. job' \in [Runners -> 1 .. Jobs + 1] /\ written' \in [Runners -> 0 .. TestSize]
    BY <1>1, <2>2 DEF TypeOK, CloseFile
  <2>. QED
    BY <1>1, <1>2, <2>1, <2>3 DEF TypeOK, CloseFile, Labels, publication
<1>4. /\ Names'
      /\ Fresh'
      /\ \A s \in Runners \ {r} : Progress(s)'
      /\ \A e \in Directories \ {d} : Whole(e)'
  <2>1. /\ UNCHANGED <<exists, owners, started>>
        /\ \A s \in Runners \ {r} : /\ pc'[s] = pc[s]   /\ dir'[s] = dir[s]
                                    /\ job'[s] = job[s] /\ written'[s] = written[s]
    BY <1>1 DEF TypeOK, CloseFile
  <2>2. /\ \A e \in Directories \ {d} : /\ manifest'[e] = manifest[e] /\ raw'[e] = raw[e]
                                       /\ report'[e] = report[e]     /\ end'[e] = end[e]
    BY <1>1, <1>2 DEF CloseFile
  <2>3. pc'[r] \notin {"name", "mkdir"} /\ (pc'[r] # "idle" => dir'[r] = dir[r])
    BY <1>1 DEF TypeOK, CloseFile
  <2>. QED
    BY <1>1, <2>1, <2>2, <2>3, OwnDirectory
<1>5. Progress(r)'
  <2>1. /\ pc'[r] = "job" /\ dir'[r] = d /\ job'[r] = job[r] + 1
        /\ manifest'[d] = manifest[d] /\ report'[d] = report[d] /\ end'[d] = end[d]
    BY <1>1 DEF TypeOK, CloseFile
  <2>2. \A j \in Files : j < job[r] + 1 => raw'[d][j] = TestSize
    <3>1. \A j \in Files : j < job[r] => raw[d][j] = TestSize
      BY <1>1 DEF CloseFile, Progress
    <3>2. job[r] \in Nat /\ \A j \in Files : j \in Nat
      BY <1>2 DEF Files
    <3>3. \A j \in Files : j < job[r] + 1 => j = job[r] \/ j < job[r]
      BY <3>2
    <3>. QED
      BY <1>2, <3>1, <3>3
  <2>. QED
    BY <1>1, <2>1, <2>2 DEF CloseFile, Progress, Working, Kinds
<1>6. Whole(d)'
  BY <1>1 DEF CloseFile, Whole, Progress, Kinds
<1>. QED
  BY <1>3, <1>4, <1>5, <1>6 DEF RunInv

LEMMA RaiseStep ==
    ASSUME DistinctSeconds, RunInv, NEW r \in Runners, Raise(r)
    PROVE  RunInv'
<1>. USE SizeAssumption
<1>1. /\ TypeOK /\ Names /\ Progress(r) /\ Working(r)
      /\ \A e \in Directories : Whole(e)
  BY DEF RunInv, Working, Raise, Kinds
<1>. PICK d \in Directories : d = dir[r]
  BY <1>1 DEF Names, TypeOK
<1>2. /\ raw' \in [Directories -> [Files -> -1 .. TestSize]]
      /\ \A e \in Directories \ {d} : raw'[e] = raw[e]
  <2>1. CASE pc[r] = "items"
    <3>1. job[r] \in Files /\ written[r] \in -1 .. TestSize
      <4>1. job[r] \in Files
        BY <1>1, <2>1 DEF Progress
      <4>. QED
        BY <1>1, <4>1, InMemory
    <3>2. raw' = [raw EXCEPT ![d][job[r]] = written[r]]
      BY <2>1 DEF Raise, Flushed
    <3>. QED
      BY <1>1, <3>1, <3>2, FileWritten
  <2>2. CASE pc[r] # "items"
    BY <1>1, <2>2 DEF Raise, TypeOK
  <2>. QED
    BY <2>1, <2>2
<1>3. TypeOK'
  <2>1. /\ pc' \in [Runners -> Labels]
        /\ dir' \in [Runners -> Directories \cup {None}]
        /\ job' \in [Runners -> 1 .. Jobs + 1]
        /\ written' \in [Runners -> 0 .. TestSize]
    BY <1>1, LocalTypes DEF Raise, Labels
  <2>. QED
    BY <1>1, <1>2, <2>1 DEF TypeOK, Raise, Labels, publication
<1>4. /\ Names'
      /\ Fresh'
      /\ \A s \in Runners \ {r} : Progress(s)'
      /\ \A e \in Directories \ {d} : Whole(e)'
  <2>1. /\ UNCHANGED <<exists, owners, started>>
        /\ \A s \in Runners \ {r} : /\ pc'[s] = pc[s]   /\ dir'[s] = dir[s]
                                    /\ job'[s] = job[s] /\ written'[s] = written[s]
    BY <1>1 DEF TypeOK, Raise, Goto
  <2>2. /\ \A e \in Directories \ {d} : /\ manifest'[e] = manifest[e] /\ raw'[e] = raw[e]
                                       /\ report'[e] = report[e]     /\ end'[e] = end[e]
    BY <1>1, <1>2 DEF Raise
  <2>3. pc'[r] \notin {"name", "mkdir"} /\ (pc'[r] # "idle" => dir'[r] = dir[r])
    BY <1>1 DEF TypeOK, Raise, Goto
  <2>. QED
    BY <1>1, <2>1, <2>2, <2>3, OwnDirectory
<1>5. Progress(r)'
  BY <1>1 DEF TypeOK, Raise, Goto, Progress, Working, Kinds
<1>6. Whole(d)'
  BY <1>1 DEF Raise, Whole, Progress, Kinds
<1>. QED
  BY <1>3, <1>4, <1>5, <1>6 DEF RunInv

LEMMA WriteReportStep ==
    ASSUME DistinctSeconds, RunInv, NEW r \in Runners, WriteReport(r)
    PROVE  RunInv'
<1>. USE SizeAssumption
<1>1. /\ TypeOK /\ Names /\ Progress(r) /\ Working(r)
      /\ \A e \in Directories : Whole(e)
  BY DEF RunInv, Working, WriteReport, Kinds
<1>. PICK d \in Directories : d = dir[r]
  BY <1>1 DEF Names, TypeOK
<1>2. /\ report' \in [Directories -> [Kinds -> Counts \cup {None}]]
      /\ \A k \in Kinds : report'[d][k] \in {report[d][k], Records(d)}
      /\ \A e \in Directories \ {d} : report'[e] = report[e]
  <2>1. CASE report' = [report EXCEPT ![d][pc[r]] = Records(d)]
    <3>1. pc[r] \in Kinds
      BY DEF WriteReport
    <3>. QED
      BY <1>1, <2>1, <3>1, PartWritten
  <2>2. CASE UNCHANGED report
    BY <1>1, <2>2 DEF TypeOK
  <2>. QED
    BY <2>1, <2>2 DEF WriteReport, Loaded
<1>3. TypeOK'
  <2>1. /\ pc' \in [Runners -> Labels]
        /\ dir' \in [Runners -> Directories \cup {None}]
        /\ job' \in [Runners -> 1 .. Jobs + 1]
        /\ written' \in [Runners -> 0 .. TestSize]
    <3>1. Exit(r) \/ \E label \in Labels : Goto(r, label)
      BY DEF WriteReport, Labels, Kinds
    <3>. QED
      BY <1>1, <3>1, LocalTypes
  <2>2. end' \in [Directories -> {"none", "running", "raised", "aborted", "killed", "finished"}]
    <3>1. end[d] \in {"none", "running", "raised", "aborted", "killed", "finished"}
      BY <1>1 DEF TypeOK
    <3>. QED
      BY <1>1, <3>1 DEF TypeOK, WriteReport
  <2>. QED
    BY <1>1, <1>2, <2>1, <2>2 DEF TypeOK, WriteReport, Labels, publication
<1>4. /\ Names'
      /\ Fresh'
      /\ \A s \in Runners \ {r} : Progress(s)'
      /\ \A e \in Directories \ {d} : Whole(e)'
  <2>1. /\ UNCHANGED <<exists, owners, started>>
        /\ \A s \in Runners \ {r} : /\ pc'[s] = pc[s]   /\ dir'[s] = dir[s]
                                    /\ job'[s] = job[s] /\ written'[s] = written[s]
    BY <1>1 DEF TypeOK, WriteReport, Goto, Exit, Kinds
  <2>2. /\ \A e \in Directories \ {d} : /\ manifest'[e] = manifest[e] /\ raw'[e] = raw[e]
                                       /\ report'[e] = report[e]     /\ end'[e] = end[e]
    BY <1>1, <1>2 DEF TypeOK, WriteReport
  <2>3. pc'[r] \notin {"name", "mkdir"} /\ (pc'[r] # "idle" => dir'[r] = dir[r])
    BY <1>1 DEF TypeOK, WriteReport, Goto, Exit, Kinds
  <2>. QED
    BY <1>1, <2>1, <2>2, <2>3, OwnDirectory
<1>5. Progress(r)'
  <2>1. CASE pc[r] = "metrics"
    BY <1>1, <2>1 DEF TypeOK, WriteReport, Goto, Progress, Working, Kinds
  <2>2. CASE pc[r] = "figures"
    BY <1>1, <2>2 DEF TypeOK, WriteReport, Exit, Progress, Working, Kinds
  <2>. QED
    BY <2>1, <2>2 DEF WriteReport, Kinds
<1>6. Whole(d)'
  <2>1. \A j \in Files : raw[d][j] = TestSize
    <3>1. pc[r] \in Kinds
      BY DEF WriteReport
    <3>2. job[r] = Jobs + 1 /\ \A j \in Files : j < job[r] => raw[d][j] = TestSize
      BY <1>1, <3>1 DEF Progress, Kinds
    <3>. QED
      BY <3>2 DEF Files
  <2>2. \A j \in Files : Records(d)[j] = TestSize
    BY <2>1 DEF Records
  <2>3. 1 \in Files /\ TestSize # 0
    BY DEF Files
  <2>. QED
    BY <1>1, <1>2, <2>1, <2>2, <2>3 DEF Whole, WriteReport
<1>. QED
  BY <1>3, <1>4, <1>5, <1>6 DEF RunInv

LEMMA RaiseOutsideStep ==
    ASSUME DistinctSeconds, RunInv, NEW r \in Runners, RaiseOutside(r)
    PROVE  RunInv'
<1>. USE SizeAssumption
<1>1. /\ TypeOK /\ Names /\ Progress(r) /\ Working(r)
      /\ \A e \in Directories : Whole(e)
  BY DEF RunInv, Working, RaiseOutside, Outside, Kinds
<1>. PICK d \in Directories : d = dir[r]
  BY <1>1 DEF Names, TypeOK
<1>3. TypeOK'
  <2>1. /\ pc' \in [Runners -> Labels]
        /\ dir' \in [Runners -> Directories \cup {None}]
        /\ job' \in [Runners -> 1 .. Jobs + 1]
        /\ written' \in [Runners -> 0 .. TestSize]
    BY <1>1, LocalTypes DEF RaiseOutside
  <2>2. end' \in [Directories -> {"none", "running", "raised", "aborted", "killed", "finished"}]
    BY <1>1 DEF TypeOK, RaiseOutside
  <2>. QED
    BY <1>1, <2>1, <2>2 DEF TypeOK, RaiseOutside, Labels, publication
<1>4. /\ Names'
      /\ Fresh'
      /\ \A s \in Runners \ {r} : Progress(s)'
      /\ \A e \in Directories \ {d} : Whole(e)'
  <2>1. /\ UNCHANGED <<exists, owners, started>>
        /\ \A s \in Runners \ {r} : /\ pc'[s] = pc[s]   /\ dir'[s] = dir[s]
                                    /\ job'[s] = job[s] /\ written'[s] = written[s]
    BY <1>1 DEF TypeOK, RaiseOutside, Exit
  <2>2. /\ \A e \in Directories \ {d} : /\ manifest'[e] = manifest[e] /\ raw'[e] = raw[e]
                                       /\ report'[e] = report[e]     /\ end'[e] = end[e]
    BY <1>1 DEF TypeOK, RaiseOutside
  <2>3. pc'[r] \notin {"name", "mkdir"} /\ (pc'[r] # "idle" => dir'[r] = dir[r])
    BY <1>1 DEF TypeOK, RaiseOutside, Exit
  <2>. QED
    BY <1>1, <2>1, <2>2, <2>3, OwnDirectory
<1>5. Progress(r)'
  BY <1>1 DEF TypeOK, RaiseOutside, Exit, Progress, Working, Kinds
<1>6. Whole(d)'
  BY <1>1 DEF RaiseOutside, Whole
<1>. QED
  BY <1>3, <1>4, <1>5, <1>6 DEF RunInv

\* A benchmark that starts is later than every directory there is.
LEMMA StartStep ==
    ASSUME DistinctSeconds, RunInv, NEW r \in Runners, Start(r)
    PROVE  RunInv'
<1>1. TypeOK /\ Names /\ Fresh /\ Progress(r)
  BY DEF RunInv
<1>2. started \in Nat /\ \A d \in exists : d[2] \in Nat
  <2>1. exists \subseteq Directories /\ started \in 0 .. MaxRuns
    BY <1>1 DEF TypeOK
  <2>2. \A d \in Directories : d[2] \in 0 .. MaxRuns - 1
    BY DEF Directories
  <2>. QED
    BY <2>1, <2>2, BoundAssumption
<1>3. TypeOK'
  <2>1. /\ pc' \in [Runners -> Labels]
        /\ dir' \in [Runners -> Directories \cup {None}]
        /\ job' \in [Runners -> 1 .. Jobs + 1]
        /\ written' \in [Runners -> 0 .. TestSize]
    BY <1>1, LocalTypes DEF Start, Labels
  <2>2. started' \in 0 .. MaxRuns
    <3>1. started \in 0 .. MaxRuns /\ started < MaxRuns /\ started' = started + 1
      BY <1>1 DEF TypeOK, Start
    <3>. QED
      BY <3>1, BoundAssumption
  <2>. QED
    BY <1>1, <2>1, <2>2 DEF TypeOK, Start, Labels, run, publication
<1>4. pc'[r] = "name" /\ \A s \in Runners \ {r} : pc'[s] = pc[s] /\ Working(s)' = Working(s)
  BY <1>1 DEF TypeOK, Start, Goto, Working
<1>5. Names'
  <2>1. \A d \in exists : d[2] < started' - 1 /\ d[2] < started'
    BY <1>1, <1>2 DEF Names, Start
  <2>2. started' > 0 /\ UNCHANGED <<exists, dir>>
    BY <1>2 DEF Start, Goto, run
  <2>3. \A s \in Runners : Working(s)' => Working(s) /\ s # r
    BY <1>4 DEF Working
  <2>4. \A s \in Runners : pc'[s] = "mkdir" =>
            dir[s] \in Directories \ exists /\ dir[s][1] = Second[s] /\ dir[s][2] < started'
    <3>1. ASSUME NEW s \in Runners, pc'[s] = "mkdir"
          PROVE  /\ dir[s] \in Directories \ exists /\ dir[s][1] = Second[s]
                 /\ dir[s][2] < started /\ dir[s][2] \in Nat
      BY <1>1, <1>4, <3>1 DEF Names, Directories
    <3>. QED
      BY <1>2, <3>1 DEF Start
  <2>5. \A s \in Runners : Working(s)' => dir[s] \in exists /\ dir[s][1] = Second[s]
    BY <1>1, <2>3 DEF Names
  <2>. QED
    BY <2>1, <2>2, <2>4, <2>5 DEF Names
<1>6. Fresh'
  BY <1>1 DEF Fresh, Start, run
<1>7. \A s \in Runners : Progress(s)'
  BY <1>1, <1>4 DEF Progress, Working, Start, Goto, run, RunInv
<1>8. \A d \in Directories : Whole(d)'
  BY DEF RunInv, Whole, Start, run
<1>. QED
  BY <1>3, <1>5, <1>6, <1>7, <1>8 DEF RunInv

LEMMA ChooseNameStep ==
    ASSUME DistinctSeconds, RunInv, NEW r \in Runners, ChooseName(r)
    PROVE  RunInv'
<1>1. TypeOK /\ Names /\ Fresh /\ Progress(r)
  BY DEF RunInv
<1>2. /\ FreeName(r) \in Directories \ exists
      /\ FreeName(r)[1] = Second[r]
      /\ FreeName(r)[2] < started
  BY <1>1, FreeNameIsFree DEF ChooseName
<1>3. /\ pc'[r] = "mkdir" /\ dir'[r] = FreeName(r)
      /\ \A s \in Runners \ {r} : pc'[s] = pc[s] /\ dir'[s] = dir[s] /\ Working(s)' = Working(s)
  <2>. HIDE DEF FreeName
  <2>. QED
    BY <1>1 DEF TypeOK, ChooseName, Working
<1>4. TypeOK'
  <2>1. pc' \in [Runners -> Labels] /\ dir' \in [Runners -> Directories \cup {None}]
    BY <1>1, <1>2 DEF TypeOK, ChooseName, Labels
  <2>. QED
    BY <1>1, <2>1 DEF TypeOK, ChooseName, Labels, run, publication
<1>5. Names'
  <2>1. UNCHANGED <<exists, started>>
    BY DEF ChooseName, run
  <2>2. \A s \in Runners : Working(s)' => Working(s) /\ s # r
    BY <1>3 DEF Working
  <2>. QED
    BY <1>1, <1>2, <1>3, <2>1, <2>2 DEF Names
<1>6. Fresh'
  BY <1>1 DEF Fresh, ChooseName, run
<1>7. \A s \in Runners : Progress(s)'
  <2>1. UNCHANGED <<end, manifest, report, raw, job, written>>
    BY DEF ChooseName, run
  <2>2. Progress(r)'
    BY <1>1, <1>3, <2>1 DEF Progress, Working, ChooseName
  <2>3. \A s \in Runners \ {r} : Progress(s)'
    BY <1>3, <2>1 DEF Progress, Working, RunInv
  <2>. QED
    BY <2>2, <2>3
<1>8. \A d \in Directories : Whole(d)'
  BY DEF RunInv, Whole, ChooseName, run
<1>. QED
  BY <1>4, <1>5, <1>6, <1>7, <1>8 DEF RunInv

\* The directory is still free: who else could have made it looks under another second.
LEMMA MakeDirectoryStep ==
    ASSUME DistinctSeconds, RunInv, NEW r \in Runners, MakeDirectory(r)
    PROVE  RunInv'
<1>1. TypeOK /\ Names /\ Fresh /\ Progress(r) /\ ~Working(r)
  BY DEF RunInv, MakeDirectory, Working
<1>. PICK d \in Directories \ exists : d = dir[r] /\ d[1] = Second[r] /\ d[2] < started
  BY <1>1 DEF Names, MakeDirectory
<1>2. /\ pc'[r] = "begin"
      /\ \A s \in Runners \ {r} : pc'[s] = pc[s] /\ Working(s)' = Working(s)
  BY <1>1 DEF TypeOK, MakeDirectory, Goto, Working
<1>3. /\ exists' = exists \cup {d}
      /\ end' = [end EXCEPT ![d] = "running"] /\ owners' = [owners EXCEPT ![d] = @ + 1]
      /\ UNCHANGED <<dir, job, written, manifest, raw, report, started>>
  BY DEF MakeDirectory, Goto
<1>4. TypeOK'
  <2>1. /\ pc' \in [Runners -> Labels]
        /\ dir' \in [Runners -> Directories \cup {None}]
        /\ job' \in [Runners -> 1 .. Jobs + 1]
        /\ written' \in [Runners -> 0 .. TestSize]
    BY <1>1, LocalTypes DEF MakeDirectory, Labels
  <2>2. end' \in [Directories -> {"none", "running", "raised", "aborted", "killed", "finished"}]
    BY <1>1, <1>3 DEF TypeOK
  <2>3. owners' \in [Directories -> Nat]
    <3>1. owners \in [Directories -> Nat]
      BY <1>1 DEF TypeOK
    <3>2. owners[d] \in Nat
      BY <3>1
    <3>3. owners[d] + 1 \in Nat
      BY <3>2
    <3>. QED
      BY <1>3, <3>1, <3>3
  <2>4. exists' \subseteq Directories
    BY <1>1, <1>3 DEF TypeOK
  <2>5. UNCHANGED <<publication, started, evaluated>>
    BY DEF MakeDirectory
  <2>6. UNCHANGED <<manifest, raw, report>>
    BY <1>3
  <2>. QED
    BY <1>1, <2>1, <2>2, <2>3, <2>4, <2>5, <2>6 DEF TypeOK, Labels, publication
<1>5. Names'
  <2>1. \A s \in Runners \ {r} : Second[s] # d[1]
    BY DEF DistinctSeconds
  <2>2. \A e \in exists' : e[2] < started'
    BY <1>1, <1>3 DEF Names
  <2>3. \A s \in Runners \ {r} : pc[s] = "mkdir" => dir[s] # d
    BY <1>1, <2>1 DEF Names
  <2>4. ASSUME NEW s \in Runners \ {r}
        PROVE  /\ pc'[s] = "name" => /\ started' > 0
                                     /\ \A e \in exists' : e[1] = Second[s] => e[2] < started' - 1
               /\ pc'[s] = "mkdir" => /\ dir'[s] \in Directories \ exists'
                                      /\ dir'[s][1] = Second[s] /\ dir'[s][2] < started'
               /\ Working(s)' => dir'[s] \in exists' /\ dir'[s][1] = Second[s]
    BY <1>1, <1>2, <1>3, <2>1, <2>3 DEF Names
  <2>. QED
    BY <1>2, <1>3, <2>2, <2>4 DEF Names
<1>6. Fresh'
  <2>1. owners'[d] = 1 /\ \A e \in Directories \ {d} : owners'[e] = owners[e]
    <3>1. owners \in [Directories -> Nat] /\ owners[d] = 0
      BY <1>1 DEF Fresh, TypeOK
    <3>. QED
      BY <1>3, <3>1
  <2>2. exists \subseteq Directories
    BY <1>1 DEF TypeOK
  <2>. QED
    BY <1>1, <1>3, <2>1, <2>2 DEF Fresh
<1>7. \A s \in Runners : Progress(s)'
  <2>1. Progress(r)'
    <3>1. job[r] = 1 /\ end'[d] = "running" /\ manifest[d] = "none" /\ report[d] = NoReport
      BY <1>1, <1>3 DEF Progress, Fresh, TypeOK
    <3>2. \A j \in Files : ~(j < 1)
      BY SizeAssumption DEF Files
    <3>. QED
      BY <1>2, <1>3, <3>1, <3>2 DEF Progress, Working, Kinds
  <2>2. ASSUME NEW s \in Runners \ {r}
        PROVE  Progress(s)'
    <3>1. Progress(s) /\ (Working(s) => dir[s] # d)
      BY <1>1 DEF RunInv, Names
    <3>2. Working(s) => end'[dir[s]] = end[dir[s]]
      BY <1>1, <1>3, <3>1 DEF Names, TypeOK
    <3>. QED
      BY <1>2, <1>3, <3>1, <3>2 DEF Progress, Working
  <2>. QED
    BY <2>1, <2>2
<1>8. \A e \in Directories : Whole(e)'
  BY <1>3 DEF RunInv, Whole
<1>. QED
  BY <1>4, <1>5, <1>6, <1>7, <1>8 DEF RunInv

\* A kill may come before there is a directory, or leave one as it is.
LEMMA KillBenchmarkStep ==
    ASSUME DistinctSeconds, RunInv, NEW r \in Runners, KillBenchmark(r)
    PROVE  RunInv'
<1>1. TypeOK /\ Names /\ Fresh /\ Progress(r)
  BY DEF RunInv
<1>2. /\ pc'[r] = "idle" /\ job'[r] = 1 /\ written'[r] = 0
      /\ \A s \in Runners \ {r} : /\ pc'[s] = pc[s]   /\ dir'[s] = dir[s]
                                /\ job'[s] = job[s] /\ written'[s] = written[s]
      /\ UNCHANGED <<exists, manifest, raw, report, owners, publication, started, evaluated>>
  BY <1>1 DEF TypeOK, KillBenchmark, Exit
<1>3. TypeOK'
  <2>1. /\ pc' \in [Runners -> Labels]
        /\ dir' \in [Runners -> Directories \cup {None}]
        /\ job' \in [Runners -> 1 .. Jobs + 1]
        /\ written' \in [Runners -> 0 .. TestSize]
    BY <1>1, LocalTypes DEF KillBenchmark
  <2>2. end' \in [Directories -> {"none", "running", "raised", "aborted", "killed", "finished"}]
    BY <1>1 DEF TypeOK, KillBenchmark
  <2>. QED
    BY <1>1, <1>2, <2>1, <2>2 DEF TypeOK, Labels, publication
<1>4. \A e \in Directories : Whole(e)'
  BY <1>2 DEF RunInv, Whole
<1>5. CASE Working(r)
  <2>. PICK d \in Directories : d = dir[r]
    BY <1>1, <1>5 DEF Names, TypeOK
  <2>1. \A e \in Directories \ {d} : end'[e] = end[e]
    BY <1>1, <1>5 DEF TypeOK, KillBenchmark, Working
  <2>2. Names' /\ Fresh' /\ \A s \in Runners \ {r} : Progress(s)'
    BY <1>2, <1>5, <2>1, OwnDirectory
  <2>3. Progress(r)'
    BY <1>2 DEF Progress, Working
  <2>. QED
    BY <1>3, <1>4, <2>2, <2>3 DEF RunInv
<1>6. CASE ~Working(r)
  <2>1. UNCHANGED end
    BY <1>6 DEF KillBenchmark, Working
  <2>2. \A s \in Runners : Working(s)' => Working(s) /\ s # r
    BY <1>2 DEF Working
  <2>3. Names'
    BY <1>1, <1>2, <2>2 DEF Names
  <2>4. Fresh'
    BY <1>1, <1>2 DEF Fresh
  <2>5. Progress(r)'
    BY <1>2 DEF Progress, Working
  <2>6. \A s \in Runners \ {r} : Progress(s)'
    BY <1>2, <2>1 DEF Progress, Working, RunInv
  <2>. QED
    BY <1>3, <1>4, <2>3, <2>4, <2>5, <2>6 DEF RunInv
<1>. QED
  BY <1>5, <1>6

\* A report is evaluated again when the benchmark of the directory is over.
LEMMA EvaluateStep ==
    ASSUME DistinctSeconds, RunInv, NEW d \in Directories, Evaluate(d)
    PROVE  RunInv'
<1>1. TypeOK /\ Names /\ Fresh /\ Whole(d)
  BY DEF RunInv
<1>2. PICK files \in Sources, kinds \in {{"metrics"}, {"figures"}, Kinds} :
          /\ \E j \in files : raw[d][j] > 0
          /\ Rewrite(d, files, kinds)
  BY DEF Evaluate
<1>. DEFINE counted == Counted(d, files)
            new == [k \in Kinds |-> IF k \in kinds THEN counted ELSE report[d][k]]
<1>3. counted \in Counts
  <2>1. \A j \in Files : raw[d][j] \in -1 .. TestSize
    BY <1>1 DEF TypeOK
  <2>2. \A j \in Files : (IF raw[d][j] > 0 THEN raw[d][j] ELSE 0) \in 0 .. TestSize
    BY <2>1, SizeAssumption
  <2>. QED
    BY <2>2, SizeAssumption DEF Counted, Records, Counts
<1>4. new \in [Kinds -> Counts \cup {None}] /\ \A k \in Kinds : new[k] \in {report[d][k], counted}
  <2>1. report[d] \in [Kinds -> Counts \cup {None}]
    BY <1>1 DEF TypeOK
  <2>. HIDE DEF counted
  <2>. QED
    BY <1>3, <2>1
<1>5. report' = [report EXCEPT ![d] = new]
  BY <1>2 DEF Rewrite
<1>. HIDE DEF new
<1>6. /\ report' \in [Directories -> [Kinds -> Counts \cup {None}]]
      /\ report'[d] = new /\ \A e \in Directories \ {d} : report'[e] = report[e]
  BY <1>1, <1>4, <1>5 DEF TypeOK
<1>7. UNCHANGED <<exists, manifest, raw, end, owners, locals, publication, started>>
  BY DEF Evaluate
<1>8. TypeOK'
  <2>1. evaluated' \in 0 .. MaxEvaluations
    <3>1. /\ evaluated \in 0 .. MaxEvaluations /\ evaluated < MaxEvaluations
          /\ evaluated' = evaluated + 1
      BY <1>1 DEF TypeOK, Evaluate
    <3>. QED
      BY <3>1, BoundAssumption
  <2>. QED
    BY <1>1, <1>6, <1>7, <2>1 DEF TypeOK, locals, publication
<1>9. Names'
  BY <1>1, <1>7 DEF Names, Working, locals
<1>10. Fresh'
  BY <1>1, <1>6, <1>7 DEF Fresh, Evaluate
<1>11. ASSUME NEW r \in Runners
       PROVE  Progress(r)'
  <2>1. Progress(r) /\ (Working(r) => dir[r] \in Directories \ {d})
    BY <1>1 DEF RunInv, Progress, Evaluate, Names, TypeOK
  <2>. QED
    BY <1>6, <1>7, <2>1 DEF Progress, Working, locals
<1>12. ASSUME NEW e \in Directories
       PROVE  Whole(e)'
  <2>1. CASE e = d
    <3>1. ASSUME \A j \in Files : raw[d][j] = TestSize
          PROVE  /\ \A j \in Files : counted[j] \in {0, TestSize}
                 /\ \E j \in Files : counted[j] # 0
      <4>1. \A j \in Files : Records(d)[j] = TestSize
        BY <3>1, SizeAssumption DEF Records
      <4>2. PICK j \in files : raw[d][j] > 0
        BY <1>2
      <4>3. j \in Files
        BY <4>2 DEF Sources
      <4>4. counted[j] = TestSize /\ TestSize # 0
        BY <4>1, <4>2, <4>3, SizeAssumption DEF Counted
      <4>5. \A i \in Files : counted[i] \in {0, TestSize}
        BY <4>1 DEF Counted
      <4>. HIDE DEF counted
      <4>. QED
        BY <4>3, <4>4, <4>5
    <3>. HIDE DEF counted
    <3>. QED
      BY <1>1, <1>4, <1>6, <1>7, <2>1, <3>1 DEF Whole
  <2>2. CASE e # d
    BY <1>6, <1>7, <2>2 DEF Whole, RunInv
  <2>. QED
    BY <2>1, <2>2
<1>. QED
  BY <1>8, <1>9, <1>10, <1>11, <1>12 DEF RunInv

\* Publishing reads the run directories only.
LEMMA PublisherStep ==
    ASSUME RunInv, PublicationInv,
           \/ \E d \in Directories : Publish(d)
           \/ Clear \/ Copy \/ Note \/ KillPublisher
    PROVE  RunInv'
<1>1. UNCHANGED <<run, locals, started, evaluated>>
  BY DEF Publish, Clear, Copy, Note, KillPublisher
<1>2. TypeOK
  BY DEF RunInv
<1>3. /\ publisher' \in {"idle", "clear", "copy", "note"}
      /\ source' \in Directories \cup {None} /\ provenance' \in {None} \cup Directories
  BY <1>2 DEF TypeOK, PublicationInv, Publish, Clear, Copy, Note, KillPublisher
<1>4. part' \in 1 .. 3
  <2>1. part \in 1 .. 3
    BY <1>2 DEF TypeOK
  <2>. QED
    BY <2>1 DEF PublicationInv, Publish, Clear, Copy, Note, KillPublisher
<1>5. published' \in [Kinds -> {None} \cup Directories]
  <2>1. CASE Copy
    <3>1. Order[part] \in Kinds /\ source \in Directories
      BY <2>1 DEF Copy, Order, Kinds, PublicationInv
    <3>. QED
      BY <1>2, <2>1, <3>1 DEF TypeOK, Copy
  <2>2. CASE Clear
    BY <1>2, <2>2 DEF TypeOK, Clear
  <2>3. CASE UNCHANGED published
    BY <1>2, <2>3 DEF TypeOK
  <2>. QED
    BY <2>1, <2>2, <2>3 DEF Publish, Note, KillPublisher
<1>6. TypeOK'
  BY <1>1, <1>2, <1>3, <1>4, <1>5 DEF TypeOK, run, locals
<1>7. Names' /\ Fresh' /\ \A d \in Directories : Whole(d)'
  BY <1>1 DEF RunInv, Names, Fresh, Whole, Working, run, locals
<1>8. \A r \in Runners : Progress(r)'
  BY <1>1 DEF RunInv, Progress, Working, run, locals
<1>. QED
  BY <1>6, <1>7, <1>8 DEF RunInv

LEMMA RunStep ==
    ASSUME DistinctSeconds, RunInv, PublicationInv, [Next]_vars
    PROVE  RunInv'
<1>1. ASSUME NEW r \in Runners,
             Start(r) \/ Step(r) \/ Raise(r) \/ RaiseOutside(r) \/ KillBenchmark(r)
      PROVE  RunInv'
  BY <1>1, StartStep, ChooseNameStep, MakeDirectoryStep, OpenManifestStep, WriteManifestStep,
     NextJobStep, WriteRecordStep, CloseFileStep, WriteReportStep, RaiseStep,
     RaiseOutsideStep, KillBenchmarkStep DEF Step
<1>2. ASSUME NEW d \in Directories, Evaluate(d)
      PROVE  RunInv'
  BY <1>2, EvaluateStep
<1>3. CASE \/ \E d \in Directories : Publish(d)
           \/ Clear \/ Copy \/ Note \/ KillPublisher
  BY <1>3, PublisherStep
<1>4. CASE UNCHANGED vars
  <2>1. TypeOK'
    BY <1>4 DEF vars, run, locals, publication, TypeOK, RunInv
  <2>2. Names' /\ Fresh' /\ \A d \in Directories : Whole(d)'
    BY <1>4 DEF vars, run, locals, RunInv, Names, Fresh, Whole, Working
  <2>3. \A r \in Runners : Progress(r)'
    BY <1>4 DEF vars, run, locals, RunInv, Progress, Working
  <2>. QED
    BY <2>1, <2>2, <2>3 DEF RunInv
<1>. QED
  BY <1>1, <1>2, <1>3, <1>4 DEF Next

LEMMA RunsAreSafe ==
    ASSUME DistinctSeconds
    PROVE  Spec => [](RunInv /\ PublicationInv)
<1>1. Init => RunInv /\ PublicationInv
  BY RunStarts, PublicationStarts
<1>2. RunInv /\ PublicationInv /\ [Next]_vars => RunInv' /\ PublicationInv'
  BY RunStep, PublicationStep
<1>. QED
  BY <1>1, <1>2, PTL DEF Spec

\* What the processes hold, and what they leave on disk, is what the code puts there.
THEOREM TypeCorrect ==
    ASSUME DistinctSeconds
    PROVE  Spec => []TypeOK
<1>1. RunInv => TypeOK
  BY DEF RunInv
<1>. QED
  BY <1>1, RunsAreSafe, PTL

\* docs/reproducibility.md: of a run whose manifest says completed every record can be read, and
\* whatever report it has counts each file wholly or not at all, and not none, for any number
\* of benchmarks that start in different seconds, raise or are killed anywhere, evaluated when
\* they are over from all their files or from one, and published meanwhile.
THEOREM CompletedRunsAreWhole ==
    ASSUME DistinctSeconds
    PROVE  Spec => []CompletedIsWhole
<1>1. RunInv => CompletedIsWhole
  BY DEF RunInv, Whole, CompletedIsWhole
<1>. QED
  BY <1>1, RunsAreSafe, PTL

\* tests/unit/test_tools_rag_tracking.py: two runs never share a directory, if no two start in
\* one second; the run experiment_same_second shows that this is needed.
THEOREM DirectoriesAreUnshared ==
    ASSUME DistinctSeconds
    PROVE  Spec => []OneRunPerDirectory
<1>1. RunInv => OneRunPerDirectory
  <2>1. ASSUME RunInv, NEW d \in Directories
        PROVE  owners[d] <= 1
    <3>1. owners[d] = 0 \/ owners[d] = 1
      BY <2>1 DEF RunInv, Fresh
    <3>. QED
      BY <3>1
  <2>. QED
    BY <2>1 DEF OneRunPerDirectory
<1>. QED
  BY <1>1, RunsAreSafe, PTL
===============================================================================
