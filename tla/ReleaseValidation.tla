-------------------------- MODULE ReleaseValidation --------------------------
(****************************************************************************)
(* tools/run-release-validation.sh, run again and again by a developer who  *)
(* edits the sources and builds by hand, and present-release-validation.sh, *)
(* which judges the report it finds and then displays it, perhaps while the *)
(* next run lasts.  Builds and results survive from run to run in           *)
(* directories below /tmp.  set -e ends a run at the first command that     *)
(* fails, and anybody may interrupt it: every file stays as it was then.    *)
(*                                                                          *)
(* The output of an execution is the expected one or another one of valid   *)
(* form, whatever was built: sources may print other samples, a disturbed   *)
(* execution anything.  A report carries what its run has really seen.      *)
(****************************************************************************)
EXTENDS Naturals, Sequences

CONSTANTS
    MaxRuns,   \* bound on the runs
    MaxEdits   \* bound on the edits of the sources

ASSUME BoundsAssumption == MaxRuns \in Nat /\ MaxEdits \in Nat

VARIABLES
    sources,     \* the version of the sources
    builds,      \* the version in each build directory, 0 for none
    runner,      \* where the runner is, "idle" between runs
    runs,        \* runs started so far
    evidence,    \* what the current run has seen (auxiliary)
    native,      \* native-sim-controlled-output.txt
    controlled,  \* controlled-output.txt
    repeated,    \* controlled-output-2.txt and -3.txt
    report,      \* release-validation.txt: its parts, and its run's evidence
    summary,     \* validation-summary.md: its run's evidence
    presenter    \* where the presenter is, and the last run it knows of

files == <<native, controlled, repeated, report, summary>>
vars == <<sources, builds, runner, runs, evidence, files, presenter>>

Outputs == {"expected", "other"}

NoPresentation == [at |-> "idle", since |-> 0]

NoEvidence ==
    [rebuild |-> FALSE, sources |-> 0, edited |-> FALSE,
     tested |-> {}, outputs |-> <<>>]

Init ==
    /\ sources = 1
    /\ builds \in [host : 0..1, native : {0}, nucleo : {0}]
    /\ runner = "idle"
    /\ runs = 0
    /\ evidence = NoEvidence
    /\ native = "absent" /\ controlled = "absent"
    /\ repeated = <<"absent", "absent">>
    /\ report = [parts |-> <<>>, of |-> NoEvidence]
    /\ summary = NoEvidence
    /\ presenter = NoPresentation

-----------------------------------------------------------------------------
(* The runner, from one command to the next.                                *)

Start ==
    /\ runner = "idle"
    /\ runs < MaxRuns
    /\ runs' = runs + 1
    /\ runner' = "quality"
    /\ \E rebuild \in BOOLEAN :
           evidence' = [NoEvidence EXCEPT !.rebuild = rebuild,
                                          !.sources = sources]
    /\ UNCHANGED <<sources, builds, files, presenter>>

Step(from, to) == runner = from /\ runner' = to /\ UNCHANGED <<runs, presenter>>

\* A command failed or the run was interrupted; a build may have got as far
\* as removing what was there.
Stop ==
    /\ runner # "idle"
    /\ runner' = "idle"
    /\ UNCHANGED <<sources, runs, evidence, files, presenter>>
    /\ \/ UNCHANGED builds
       \/ runner = "native" /\ builds' = [builds EXCEPT !.native = 0]
       \/ runner = "nucleo" /\ builds' = [builds EXCEPT !.nucleo = 0]

Quality ==
    /\ Step("quality", "host")
    /\ UNCHANGED <<sources, builds, evidence, files>>

\* What a build directory holds when its build script has been called.
Built(target, rebuild) ==
    IF rebuild \/ builds[target] = 0 THEN sources ELSE builds[target]

Tested(version) == [evidence EXCEPT !.tested = @ \cup {version}]

\* The 97 tests of a host build that is built only with --rebuild.
RunHostCtest ==
    /\ Step("host", "twister")
    /\ evidence.rebuild \/ builds.host # 0
    /\ LET version == Built("host", evidence.rebuild)
       IN  /\ builds' = [builds EXCEPT !.host = version]
           /\ evidence' = Tested(version)
    /\ UNCHANGED <<sources, files>>

\* Twister always builds.
RunFirmwareTwister ==
    /\ Step("twister", "native")
    /\ evidence' = Tested(sources)
    /\ UNCHANGED <<sources, builds, files>>

\* An execution of a version: its output is kept before it is judged.
Executed(version, output) ==
    [Tested(version) EXCEPT !.outputs = Append(@, output)]

RunNativeSim ==
    /\ Step("native", "native_check")
    /\ LET version == Built("native", evidence.rebuild)
       IN  /\ builds' = [builds EXCEPT !.native = version]
           /\ \E output \in Outputs :
                  /\ native' = output
                  /\ evidence' = Executed(version, output)
    /\ UNCHANGED <<sources, controlled, repeated, report, summary>>

\* sha256sum of the native output.
CheckNativeSim ==
    /\ Step("native_check", "nucleo")
    /\ native = "expected"
    /\ UNCHANGED <<sources, builds, evidence, files>>

\* Mutant: --rebuild is not passed on.
RunNucleoBuildAsFound ==
    /\ Step("nucleo", "renode")
    /\ builds' = [builds EXCEPT !.nucleo = Built("nucleo", FALSE)]
    /\ UNCHANGED <<sources, evidence, files>>

RunNucleoBuild ==
    /\ Step("nucleo", "renode")
    /\ builds' = [builds EXCEPT !.nucleo = Built("nucleo", evidence.rebuild)]
    /\ UNCHANGED <<sources, evidence, files>>

\* run-renode-validation.sh builds only what is missing.
RenodeExecutes(output) ==
    LET version == Built("nucleo", FALSE)
    IN  /\ builds' = [builds EXCEPT !.nucleo = version]
        /\ evidence' = Executed(version, output)

RunRenodeOnce ==
    /\ Step("renode", "renode_check")
    /\ \E output \in Outputs : RenodeExecutes(output) /\ controlled' = output
    /\ UNCHANGED <<sources, native, repeated, report, summary>>

\* cmp with the native output.
CheckRenode ==
    /\ Step("renode_check", "robot")
    /\ native = controlled
    /\ UNCHANGED <<sources, builds, evidence, files>>

RunRobotFramework ==
    /\ Step("robot", "repeat_2")
    /\ LET version == Built("nucleo", FALSE)
       IN  /\ builds' = [builds EXCEPT !.nucleo = version]
           /\ evidence' = Tested(version)
    /\ UNCHANGED <<sources, files>>

Repeat(number, to) ==
    /\ Step(<<"repeat_2", "repeat_3">>[number], to)
    /\ \E output \in Outputs :
           /\ RenodeExecutes(output)
           /\ repeated' = [repeated EXCEPT ![number] = output]
    /\ UNCHANGED <<sources, native, controlled, report, summary>>

\* cmp of the three captures, sha256sum of the first.
CheckDeterminism ==
    /\ Step("repeat_check", "report")
    /\ controlled = "expected"
    /\ repeated = <<controlled, controlled>>
    /\ UNCHANGED <<sources, builds, evidence, files>>

\* write_reports opens the report, which truncates it, and prints it part by
\* part, then writes the summary.
TruncateReport ==
    /\ Step("report", "results")
    /\ report' = [parts |-> <<>>, of |-> evidence]
    /\ UNCHANGED <<sources, builds, evidence, native, controlled, repeated,
                   summary>>

PrintPart(part, to) ==
    /\ Step(part, to)
    /\ report' = [report EXCEPT !.parts = Append(@, part)]
    /\ UNCHANGED <<sources, builds, evidence, native, controlled, repeated,
                   summary>>

WriteSummary ==
    /\ Step("summary", "idle")
    /\ summary' = evidence
    /\ UNCHANGED <<sources, builds, evidence, native, controlled, repeated,
                   report>>

Runner ==
    \/ Start
    \/ Stop
    \/ Quality
    \/ RunHostCtest
    \/ RunFirmwareTwister
    \/ RunNativeSim
    \/ CheckNativeSim
    \/ RunNucleoBuild
    \/ RunRenodeOnce
    \/ CheckRenode
    \/ RunRobotFramework
    \/ Repeat(1, "repeat_3")
    \/ Repeat(2, "repeat_check")
    \/ CheckDeterminism
    \/ TruncateReport
    \/ PrintPart("results", "durations")
    \/ PrintPart("durations", "overall")
    \/ PrintPart("overall", "summary")
    \/ WriteSummary

-----------------------------------------------------------------------------
(* The presenter: it judges the report, with --frames also the controlled   *)
(* output, and reads both again, pauses later, when it displays them.  A    *)
(* report that is not approved ends it at once.                             *)

\* Every required line is there: twelve results, the hash, the overall one.
Approved ==
    \A part \in {"results", "overall"} :
        \E i \in DOMAIN report.parts : report.parts[i] = part

Presents(from, to) ==
    /\ presenter.at = from
    /\ presenter' = [presenter EXCEPT !.at = to]
    /\ UNCHANGED <<sources, builds, runner, runs, evidence, files>>

\* Whether a run is under way is nothing the presenter asks (auxiliary).
JudgeReport ==
    /\ presenter.at = "idle"
    /\ Approved
    /\ presenter' = [at |-> "judged",
                     since |-> IF runner = "idle" THEN runs ELSE 0]
    /\ UNCHANGED <<sources, builds, runner, runs, evidence, files>>

\* Mutant: the frames are displayed as they are found.
JudgeFramesUnseen == Presents("judged", "frames_judged")

\* --frames: the checksum of the controlled output.
JudgeFrames ==
    controlled = "expected" /\ Presents("judged", "frames_judged")

\* set -e, a checksum that does not match, or an interruption.
Refuse ==
    /\ presenter.at # "idle"
    /\ presenter' = NoPresentation
    /\ UNCHANGED <<sources, builds, runner, runs, evidence, files>>

\* awk over the report; without --frames the verdict follows.
ShowResults ==
    Presents("judged", "idle") \/ Presents("frames_judged", "results_shown")

\* awk over the controlled output, and the verdict.
ShowFrames == controlled # "absent" /\ Presents("results_shown", "idle")

Presenter ==
    \/ JudgeReport
    \/ JudgeFrames
    \/ Refuse
    \/ ShowResults
    \/ ShowFrames

-----------------------------------------------------------------------------
(* The developer, also while a run lasts.                                   *)

Edit ==
    /\ sources <= MaxEdits
    /\ sources' = sources + 1
    /\ evidence' = [evidence EXCEPT !.edited = TRUE]
    /\ UNCHANGED <<builds, runner, runs, files, presenter>>

\* run-firmware-demo.sh, run-renode-validation.sh and the host's build use
\* the same directories outside a run, with --rebuild or without.
BuildByHand ==
    /\ \E target \in DOMAIN builds :
           builds' = [builds EXCEPT ![target] = sources]
    /\ UNCHANGED <<sources, runner, runs, evidence, files, presenter>>

Next == Runner \/ Presenter \/ Edit \/ BuildByHand

Spec == Init /\ [][Next]_vars

-----------------------------------------------------------------------------
(* Properties.                                                              *)

\* All four executions printed the expected output, and a run that rebuilds
\* what it tests has tested the sources it was started with.
Earned(of) ==
    /\ of.outputs = [i \in 1..4 |-> "expected"]
    /\ of.rebuild /\ ~of.edited => of.tested = {of.sources}

\* What the presenter approves, and every summary, is of one run that earned
\* it, whatever was built, tested or written by the runs before and after it
\* and wherever those were stopped (run-release-validation.sh:388-397).
ApprovalIsEarned ==
    /\ Approved => Earned(report.of)
    /\ summary # NoEvidence => Earned(summary)

\* While no run is under way, the results and the frames displayed are still
\* those of the approved run that the presenter judged, although a later run
\* that failed leaves the report and overwrites the frames, and although
\* both are read a second time to be displayed.
FramesAreOfTheReport ==
    [][ShowFrames /\ presenter.since = runs =>
           /\ Approved
           /\ report.of.outputs = [i \in 1..4 |-> controlled]]_vars

\* docs/CI.md:124-125 "The presentation script refuses incomplete reports,
\* validates the controlled output checksum before displaying frames": the
\* frames displayed are the ones that were validated.
DisplayedIsValidated == [][ShowFrames => controlled = "expected"]_vars
=============================================================================
