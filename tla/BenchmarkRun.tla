----------------------------- MODULE BenchmarkRun -----------------------------
(***************************************************************************)
(* One command-line run of the benchmark suite                             *)
(* (scripts/benchmarks/e9-benchmark-suite.ts): the guards on its wireproxy *)
(* options, the readiness of the local exits                               *)
(* (sdk/surfshark-wireguard-runtime.ts), and the JSONL sidecar to which    *)
(* the run's records are appended one after the other while the suite goes *)
(* on.                                                                     *)
(*                                                                         *)
(* The file is the sequence of what was put down in it, piece by piece: a  *)
(* physical line is what stands up to the next newline, so a piece without *)
(* one is joined by whatever is appended next.                             *)
(***************************************************************************)
EXTENDS Integers, Sequences, FiniteSets

CONSTANTS ExitPool,         \* sequence of the manifest's exits
          Strangers,    \* names that are not in the manifest
          Fallbacks,    \* the values of --wireproxy-rotation-fallback
          MaxPasses,    \* passes over the exits before the start deadline
          MaxEvents     \* bound on the progress events of a suite

VARIABLES setup,        \* the wireproxy options, while the exits are readied
          runStage,        \* where runE9BenchmarkSuiteCli is
          probes,       \* the pass under way: exits probed, exits reached
          passes,       \* passes made since the start script ran
          events,       \* progress events so far
          said,         \* every record handed to the sidecar's writer
          settled,      \* how many of them its chain of promises has settled
          tried,        \* did the first append of the next one fail
          lost,         \* firstFailureMessage is set
          file          \* the pieces put down in the sidecar

benchmarkRunVars ==
  <<setup, runStage, probes, passes, events, said, settled, tried, lost, file>>
readyVars == <<setup, probes, passes>>
writerVars == <<settled, tried, lost, file>>

Exits == {ExitPool[i] : i \in DOMAIN ExitPool}
NoExit == "no exit"
NoPass == [next |-> 1, reached |-> {}]
NoSetup == [manifest |-> FALSE, rotate |-> FALSE, exit |-> NoExit, fallbacks |-> 0]

\* What is left of a record by one append: a part of its JSON, all of it, or all of it
\* with the newline.  Record 0 is the unended line that an earlier run may have left.
Piece(record, text) == [of |-> record, text |-> text]
Texts == {"part", "json", "line"}
Fragment == Piece(0, "part")

BenchmarkRunInit ==
  /\ setup = NoSetup /\ runStage = "idle"
  /\ probes = NoPass /\ passes = 0 /\ events = 0
  /\ said = <<>> /\ settled = 0 /\ tried = FALSE /\ lost = FALSE /\ file = <<>>

(***************************************************************************)
(* runDefaultE9BenchmarkSuite: option combinations it refuses, and the     *)
(* exits and the number of reachable ones it asks the pool for.            *)
(***************************************************************************)
Refused(s) ==
  \/ s.rotate /\ s.exit # NoExit
  \/ s.rotate /\ ~s.manifest
  \/ s.manifest /\ ~s.rotate /\ s.exit = NoExit
  \/ s.rotate /\ Len(ExitPool) < 1 + s.fallbacks

SelectWireproxyManifestEntries(s) == IF s.exit = NoExit THEN ExitPool ELSE <<s.exit>>

MinimumReachable(s) ==
  LET asked == IF s.rotate THEN 1 + s.fallbacks ELSE Len(SelectWireproxyManifestEntries(s))
      n == Len(SelectWireproxyManifestEntries(s))
  IN IF asked < n THEN asked ELSE n

-----------------------------------------------------------------------------
(* createArtifactJsonlWriter.append: the record joins the chain.           *)
HandOver(record) ==
  /\ said' = Append(said, record)
  /\ UNCHANGED writerVars

(* runE9BenchmarkSuiteCli up to the call of the suite.                     *)
StartRun ==
  /\ runStage = "idle"
  /\ \E s \in [manifest : BOOLEAN, rotate : BOOLEAN, exit : Exits \union Strangers \union {NoExit},
               fallbacks : Fallbacks] :
       /\ runStage' = IF Refused(s) \/ (s.manifest /\ s.exit \in Strangers) THEN "failed"
                   ELSE IF s.manifest THEN "probing" ELSE "running"
       /\ setup' = IF runStage' = "probing" THEN s ELSE NoSetup
  /\ HandOver("run-start")
  /\ UNCHANGED <<probes, passes, events>>

(* probeWireproxyEntries: the next exit of the pass.                       *)
ProbeExit ==
  /\ runStage = "probing" /\ probes.next <= Len(SelectWireproxyManifestEntries(setup))
  /\ \E reachable \in BOOLEAN :
       probes' = [next |-> probes.next + 1,
                  reached |-> IF reachable
                    THEN probes.reached \union {SelectWireproxyManifestEntries(setup)[probes.next]}
                    ELSE probes.reached]
  /\ UNCHANGED <<setup, runStage, passes, events, said, writerVars>>

ReadinessEnds == setup' = NoSetup /\ probes' = NoPass /\ passes' = 0

(* ensureSurfsharkWireproxyPoolReady: what a whole pass decides.  The      *)
(* first pass that falls short runs the start script, which may fail; a    *)
(* later one is repeated until the deadline.                               *)
JudgePass ==
  /\ runStage = "probing" /\ probes.next > Len(SelectWireproxyManifestEntries(setup))
  /\ IF Cardinality(probes.reached) >= MinimumReachable(setup)
     THEN runStage' = "running" /\ ReadinessEnds
     ELSE \/ /\ passes < MaxPasses /\ probes' = NoPass /\ passes' = passes + 1
             /\ UNCHANGED <<setup, runStage>>
          \/ runStage' = "failed" /\ ReadinessEnds
  /\ UNCHANGED <<events, said, writerVars>>

Progress ==
  /\ runStage = "running" /\ events < MaxEvents
  /\ events' = events + 1
  /\ HandOver("progress-event")
  /\ UNCHANGED <<readyVars, runStage>>

SuiteReturns ==
  /\ runStage = "running"
  /\ runStage' = "flushing"
  /\ HandOver("final-artifact")
  /\ UNCHANGED <<readyVars, events>>

SuiteThrows ==
  /\ runStage = "running"
  /\ runStage' = "failed"
  /\ UNCHANGED <<readyVars, events, said, writerVars>>

(* flush, after the suite returned: a failure of the sidecar fails the run.*)
FlushFinal ==
  /\ runStage = "flushing" /\ settled = Len(said)
  /\ runStage' = IF lost THEN "failed" ELSE "returned"
  /\ UNCHANGED <<readyVars, events, said, writerVars>>

(* The catch of the command.                                               *)
ReportError ==
  /\ runStage = "failed"
  /\ runStage' = "reporting"
  /\ HandOver("run-error")
  /\ UNCHANGED <<readyVars, events>>

FlushError ==
  /\ runStage = "reporting" /\ settled = Len(said)
  /\ runStage' = "threw"
  /\ UNCHANGED <<readyVars, events, said, writerVars>>

(* appendEntry, the turn of the next record.  A failed append may have put *)
(* down nothing, a part of the record or all of it; it is tried again      *)
(* once, right behind what is there.  A failure of the directory is not    *)
(* tried again.                                                            *)
Settles == settled' = settled + 1 /\ tried' = FALSE

EntryIsWritten ==
  /\ settled < Len(said)
  /\ file' = Append(file, Piece(settled + 1, "line"))
  /\ Settles
  /\ UNCHANGED <<readyVars, runStage, events, said, lost>>

PutDown(record) == {file} \cup {Append(file, Piece(record, text)) : text \in Texts}

SecondFailureForgotten ==
  /\ settled < Len(said)
  /\ file' \in PutDown(settled + 1)
  /\ IF tried THEN Settles ELSE tried' = TRUE /\ UNCHANGED settled
  /\ UNCHANGED <<readyVars, runStage, events, said, lost>>
  \* A bug for the checks to find: the second failure is swallowed.

WriteFails ==
  /\ settled < Len(said)
  /\ file' \in PutDown(settled + 1)
  /\ IF tried THEN Settles /\ lost' = TRUE
              ELSE tried' = TRUE /\ UNCHANGED <<settled, lost>>
  /\ UNCHANGED <<readyVars, runStage, events, said>>

DirectoryFails ==
  /\ settled < Len(said)
  /\ Settles /\ lost' = TRUE
  /\ UNCHANGED <<readyVars, runStage, events, said, file>>

(* The next run of the command, after this one ended or was killed.  Of    *)
(* the file only an unended last line matters to it.                       *)
NewRun ==
  /\ runStage # "idle"
  /\ runStage' = "idle" /\ ReadinessEnds /\ events' = 0
  /\ said' = <<>> /\ settled' = 0 /\ tried' = FALSE /\ lost' = FALSE
  /\ file' = IF file = <<>> \/ file[Len(file)].text = "line" THEN <<>> ELSE <<Fragment>>

BenchmarkRunNext ==
  \/ StartRun \/ ProbeExit \/ JudgePass \/ Progress \/ SuiteReturns \/ SuiteThrows
  \/ FlushFinal \/ ReportError \/ FlushError
  \/ EntryIsWritten \/ WriteFails \/ DirectoryFails \/ NewRun

-----------------------------------------------------------------------------
Lines(record) == {k \in DOMAIN file : file[k] = Piece(record, "line")}

(* A run that returns its artifact left a sidecar in which every record of *)
(* the run stands whole and ended, in the order they were handed over, up  *)
(* to the final artifact.  A record stands there at most twice, and what a *)
(* failed append left of it joins nothing but that same record's own line: *)
(* a line that cannot be read costs one record, and the first one at most  *)
(* is joined to what an earlier run left (createArtifactJsonlWriter).      *)
SidecarKeepsEveryRecord ==
  runStage = "returned" =>
    /\ said[Len(said)] = "final-artifact"
    /\ \A record \in DOMAIN said : Lines(record) # {}
    /\ \A j, k \in DOMAIN file : j <= k => file[j].of <= file[k].of
    /\ \A j, k \in DOMAIN file : j + 2 <= k => file[j].of < file[k].of
    /\ \A k \in DOMAIN file :
         file[k].text # "line" =>
           /\ k + 1 \in DOMAIN file
           /\ file[k].of \in {0, file[k + 1].of}
=============================================================================
