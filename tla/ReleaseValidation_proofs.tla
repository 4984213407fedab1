----------------------- MODULE ReleaseValidation_proofs -----------------------
(****************************************************************************)
(* Proofs about ReleaseValidation, for every number of runs and edits.      *)
(*                                                                          *)
(* An approval is earned because the runner cannot reach a command without  *)
(* having seen what the commands before it check: Seen says what the        *)
(* evidence of a run holds at each of its commands, and Fresh that a run    *)
(* with --rebuild has tested nothing but the sources it started with, while *)
(* nobody edits them.  Kept then carries what the run earned to the reports *)
(* it leaves, which no later step but the next report changes.              *)
(****************************************************************************)
EXTENDS ReleaseValidation, SequenceTheorems, TLAPS

USE BoundsAssumption

Commands ==
    {"idle", "quality", "host", "twister", "native", "native_check", "nucleo",
     "renode", "renode_check", "robot", "repeat_2", "repeat_3",
     "repeat_check", "report", "results", "durations", "overall", "summary"}

Evidence ==
    [rebuild : BOOLEAN, sources : Nat, edited : BOOLEAN,
     tested : SUBSET Nat, outputs : Seq(Outputs)]

\* The types that the arguments below need.
Typed ==
    /\ sources \in Nat \ {0}
    /\ builds \in [{"host", "native", "nucleo"} -> Nat]
    /\ runner \in Commands
    /\ runs \in Nat
    /\ evidence \in Evidence
    /\ repeated \in [1..2 -> {"absent"} \cup Outputs]
    /\ report \in [parts : Seq({"results", "durations", "overall"}),
                    of : Evidence]
    /\ presenter \in [at : {"idle", "judged", "frames_judged",
                             "results_shown"},
                       since : Nat]

\* From the NUCLEO build on, the ELF is there; the checks of the native and
\* of the first Renode output hold of the files from then on.
AfterNucleo ==
    {"renode", "renode_check", "robot", "repeat_2", "repeat_3",
     "repeat_check", "report", "results", "durations", "overall", "summary"}
AfterNative == AfterNucleo \cup {"nucleo"}
AfterRenode == AfterNucleo \ {"renode", "renode_check"}
Reporting == {"results", "durations", "overall", "summary"}

\* The outputs a run has seen when it is at a command.
Seen ==
    LET o == evidence.outputs
    IN  /\ runner \in {"quality", "host", "twister", "native"} => o = <<>>
        /\ runner = "native_check" => o = <<native>>
        /\ runner \in AfterNative => native = "expected"
        /\ runner \in {"nucleo", "renode"} => o = <<"expected">>
        /\ runner = "renode_check" => o = <<"expected", controlled>>
        /\ runner \in AfterRenode => controlled = "expected"
        /\ runner \in {"robot", "repeat_2"} => o = <<"expected", "expected">>
        /\ runner = "repeat_3" =>
               o = <<"expected", "expected", repeated[1]>>
        /\ runner = "repeat_check" =>
               o = <<"expected", "expected", repeated[1], repeated[2]>>
        /\ runner \in {"report"} \cup Reporting =>
               o = [i \in 1..4 |-> "expected"]

\* A run that rebuilds has tested the sources it started with and no others,
\* and its ELF is built from them, unless somebody edited them meanwhile.
Fresh ==
    runner # "idle" /\ evidence.rebuild /\ ~evidence.edited =>
        /\ evidence.sources = sources
        /\ evidence.tested \subseteq {sources}
        /\ runner \notin {"quality", "host"} => evidence.tested = {sources}
        /\ runner \in AfterNucleo => builds.nucleo = sources

\* What a run leaves behind was earned by it.
Kept ==
    /\ report.parts # <<>> \/ runner \in Reporting => Earned(report.of)
    /\ summary # NoEvidence => Earned(summary)

Inv == Typed /\ Seen /\ Fresh /\ Kept

-----------------------------------------------------------------------------
(* What the operators make of evidence and builds.                          *)

\* Testing a version and executing it extend the evidence by it.
LEMMA TestedIsEvidence ==
    ASSUME evidence \in Evidence, NEW version \in Nat
    PROVE  /\ Tested(version) \in Evidence
           /\ Tested(version).tested = evidence.tested \cup {version}
           /\ Tested(version).outputs = evidence.outputs
           /\ Tested(version).rebuild = evidence.rebuild
           /\ Tested(version).sources = evidence.sources
           /\ Tested(version).edited = evidence.edited
  BY DEF Evidence, Tested

\* Executing an output appends it to those of the evidence.
LEMMA ExecutedIsEvidence ==
    ASSUME evidence \in Evidence, NEW version \in Nat, NEW output \in Outputs
    PROVE  /\ Executed(version, output) \in Evidence
           /\ Executed(version, output).tested = evidence.tested \cup {version}
           /\ Executed(version, output).outputs =
                  Append(evidence.outputs, output)
           /\ Executed(version, output).rebuild = evidence.rebuild
           /\ Executed(version, output).sources = evidence.sources
           /\ Executed(version, output).edited = evidence.edited
<1>1. /\ Tested(version) \in Evidence
      /\ Tested(version).outputs \in Seq(Outputs)
      /\ Tested(version).outputs = evidence.outputs
      /\ Append(evidence.outputs, output) \in Seq(Outputs)
  BY TestedIsEvidence DEF Evidence
<1>2. Executed(version, output) =
          [Tested(version) EXCEPT !.outputs = Append(evidence.outputs, output)]
  BY <1>1 DEF Executed
<1> QED BY <1>1, <1>2, TestedIsEvidence DEF Evidence

\* The tuples that four executions build up.
LEMMA Second ==
    ASSUME NEW S, NEW a \in S, NEW b \in S
    PROVE  Append(<<a>>, b) = <<a, b>>
<1> DEFINE s == Append(<<a>>, b)
           t == <<a, b>>
<1>1. s \in Seq(S) /\ t \in Seq(S) /\ Len(s) = 2 /\ Len(t) = 2
  OBVIOUS
<1>2. s[1] = t[1] /\ s[2] = t[2]
  OBVIOUS
<1> HIDE DEF s, t
<1>3. s = t
  BY <1>1, <1>2, SeqEqual
<1> QED BY <1>3 DEF s, t

\* The third execution of a run.
LEMMA Third ==
    ASSUME NEW S, NEW a \in S, NEW b \in S, NEW c \in S
    PROVE  Append(<<a, b>>, c) = <<a, b, c>>
<1> DEFINE s == Append(<<a, b>>, c)
           t == <<a, b, c>>
<1>1. s \in Seq(S) /\ t \in Seq(S) /\ Len(s) = 3 /\ Len(t) = 3
  OBVIOUS
<1>2. s[1] = t[1] /\ s[2] = t[2] /\ s[3] = t[3]
  OBVIOUS
<1> HIDE DEF s, t
<1>3. s = t
  BY <1>1, <1>2, SeqEqual
<1> QED BY <1>3 DEF s, t

\* The fourth execution of a run.
LEMMA Fourth ==
    ASSUME NEW S, NEW a \in S, NEW b \in S, NEW c \in S, NEW d \in S
    PROVE  Append(<<a, b, c>>, d) = <<a, b, c, d>>
<1> DEFINE s == Append(<<a, b, c>>, d)
           t == <<a, b, c, d>>
<1>1. s \in Seq(S) /\ t \in Seq(S) /\ Len(s) = 4 /\ Len(t) = 4
  OBVIOUS
<1>2. s[1] = t[1] /\ s[2] = t[2] /\ s[3] = t[3] /\ s[4] = t[4]
  OBVIOUS
<1> HIDE DEF s, t
<1>3. s = t
  BY <1>1, <1>2, SeqEqual
<1> QED BY <1>3 DEF s, t

\* What the sources are to print is one of the outputs.
LEMMA ExpectedIsOutput == "expected" \in Outputs
  BY DEF Outputs

-----------------------------------------------------------------------------
(* Each part of the invariant, step by step.                                *)

\* A step keeps the types.
LEMMA TypedInvariant == ASSUME Inv, [Next]_vars PROVE Typed'
<1> USE DEF Inv, Typed, Commands, NoEvidence, NoPresentation, files
<1>1. CASE Start
  <2>1. NoEvidence \in Evidence
    BY DEF Evidence
  <2>2. evidence' \in Evidence
    BY <1>1, <2>1 DEF Start, Evidence
  <2> QED BY <1>1, <2>2 DEF Start
<1>2. CASE Stop
  <2>1. builds' \in [{"host", "native", "nucleo"} -> Nat]
    BY <1>2, SMTT(30) DEF Stop
  <2> QED BY <1>2, <2>1 DEF Stop
<1>3. CASE Quality
  BY <1>3 DEF Quality, Step
<1>4. CASE RunHostCtest
  <2>1. Built("host", evidence.rebuild) \in Nat
    BY DEF Built
  <2> QED BY <1>4, <2>1, TestedIsEvidence DEF RunHostCtest, Step
<1>5. CASE RunFirmwareTwister
  BY <1>5, TestedIsEvidence DEF RunFirmwareTwister, Step
<1>6. CASE RunNativeSim
  <2>1. Built("native", evidence.rebuild) \in Nat
    BY DEF Built
  <2>2. PICK output \in Outputs :
            evidence' = Executed(Built("native", evidence.rebuild), output)
    BY <1>6 DEF RunNativeSim
  <2>3. evidence' \in Evidence
    BY <2>1, <2>2, ExecutedIsEvidence
  <2> QED BY <1>6, <2>1, <2>3 DEF RunNativeSim, Step
<1>7. CASE CheckNativeSim
  BY <1>7 DEF CheckNativeSim, Step
<1>8. CASE RunNucleoBuild
  BY <1>8 DEF RunNucleoBuild, Step, Built
<1>9. CASE RunRenodeOnce
  <2>1. Built("nucleo", FALSE) \in Nat
    BY DEF Built
  <2>2. PICK output \in Outputs : RenodeExecutes(output)
    BY <1>9 DEF RunRenodeOnce
  <2>3. /\ evidence' \in Evidence
        /\ builds' \in [{"host", "native", "nucleo"} -> Nat]
    BY <2>1, <2>2, ExecutedIsEvidence DEF RenodeExecutes
  <2> QED BY <1>9, <2>3 DEF RunRenodeOnce, Step
<1>10. CASE CheckRenode
  BY <1>10 DEF CheckRenode, Step
<1>11. CASE RunRobotFramework
  <2>1. Built("nucleo", FALSE) \in Nat
    BY DEF Built
  <2> QED BY <1>11, <2>1, TestedIsEvidence DEF RunRobotFramework, Step
<1>12. ASSUME NEW number \in 1..2, NEW to \in {"repeat_3", "repeat_check"},
              Repeat(number, to)
       PROVE  Typed'
  <2>1. Built("nucleo", FALSE) \in Nat
    BY DEF Built
  <2>2. PICK output \in Outputs :
            /\ RenodeExecutes(output)
            /\ repeated' = [repeated EXCEPT ![number] = output]
    BY <1>12 DEF Repeat
  <2>3. repeated' \in [1..2 -> {"absent"} \cup Outputs]
    BY <2>2
  <2>4. /\ evidence' \in Evidence
        /\ builds' \in [{"host", "native", "nucleo"} -> Nat]
    BY <2>1, <2>2, ExecutedIsEvidence DEF RenodeExecutes
  <2> QED BY <1>12, <2>3, <2>4 DEF Repeat, Step
<1>13. CASE CheckDeterminism
  BY <1>13 DEF CheckDeterminism, Step
<1>14. CASE TruncateReport
  BY <1>14 DEF TruncateReport, Step
<1>15. ASSUME NEW part \in {"results", "durations", "overall"},
              NEW to \in {"durations", "overall", "summary"},
              PrintPart(part, to)
       PROVE  Typed'
  <2>1. Append(report.parts, part) \in Seq({"results", "durations", "overall"})
    OBVIOUS
  <2>2. report' \in [parts : Seq({"results", "durations", "overall"}),
                     of : Evidence]
    BY <1>15, <2>1 DEF PrintPart
  <2> QED BY <1>15, <2>2 DEF PrintPart, Step
<1>16. CASE WriteSummary
  BY <1>16 DEF WriteSummary, Step
<1>17. CASE Presenter
  BY <1>17 DEF Presenter, JudgeReport, JudgeFrames, Refuse, ShowResults,
               ShowFrames, Presents
<1>18. CASE Edit
  <2>1. evidence' \in Evidence
    BY <1>18 DEF Edit, Evidence
  <2> QED BY <1>18, <2>1 DEF Edit
<1>19. CASE BuildByHand
  BY <1>19 DEF BuildByHand
<1>20. CASE UNCHANGED vars
  BY <1>20 DEF vars
<1> QED BY <1>1, <1>2, <1>3, <1>4, <1>5, <1>6, <1>7, <1>8, <1>9, <1>10, <1>11,
           <1>12, <1>13, <1>14, <1>15, <1>16, <1>17, <1>18, <1>19, <1>20
        DEF Next, Runner

\* What an execution of the NUCLEO build adds to the outputs.
LEMMA RenodeOutputs ==
    ASSUME Typed, NEW output \in Outputs, RenodeExecutes(output)
    PROVE  evidence'.outputs = Append(evidence.outputs, output)
  BY ExecutedIsEvidence DEF Typed, RenodeExecutes, Built

\* What a run has executed is one of its outputs.
LEMMA RepeatedIsOutput ==
    ASSUME Typed, Seen, runner = "repeat_3"
    PROVE  repeated[1] \in Outputs
<1>1. evidence.outputs = <<"expected", "expected", repeated[1]>>
  BY DEF Seen
<1>2. evidence.outputs \in Seq(Outputs)
  BY DEF Typed, Evidence
<1>3. evidence.outputs[3] = repeated[1] /\ Len(evidence.outputs) = 3
  BY <1>1
<1> QED BY <1>2, <1>3, ElementOfSeq

\* A step leaves a run at its next command with the outputs it has seen.
LEMMA SeenInvariant == ASSUME Inv, [Next]_vars PROVE Seen'
<1> USE DEF Inv, Seen, AfterNative, AfterNucleo, AfterRenode, Reporting, files
<1>1. CASE Start
  BY <1>1 DEF Start, Typed, Evidence, NoEvidence
<1>2. CASE Stop
  BY <1>2 DEF Stop
<1>3. CASE Quality
  BY <1>3 DEF Quality, Step
<1>4. CASE RunHostCtest
  BY <1>4, TestedIsEvidence DEF RunHostCtest, Step, Built, Typed
<1>5. CASE RunFirmwareTwister
  BY <1>5, TestedIsEvidence DEF RunFirmwareTwister, Step, Typed
<1>6. CASE RunNativeSim
  <2>1. PICK output \in Outputs :
            /\ native' = output
            /\ evidence' = Executed(Built("native", evidence.rebuild), output)
    BY <1>6 DEF RunNativeSim
  <2>2. evidence.outputs = <<>> /\ runner' = "native_check"
    BY <1>6 DEF RunNativeSim, Step
  <2>3. evidence'.outputs = Append(<<>>, output)
    BY <2>1, <2>2, ExecutedIsEvidence DEF Typed, Built
  <2>4. evidence'.outputs = <<native'>>
    BY <2>1, <2>3
  <2> QED BY <2>2, <2>4
<1>7. CASE CheckNativeSim
  BY <1>7 DEF CheckNativeSim, Step
<1>8. CASE RunNucleoBuild
  BY <1>8 DEF RunNucleoBuild, Step
<1>9. CASE RunRenodeOnce
  <2>1. PICK output \in Outputs :
            RenodeExecutes(output) /\ controlled' = output
    BY <1>9 DEF RunRenodeOnce
  <2>2. /\ evidence.outputs = <<"expected">> /\ native' = "expected"
        /\ runner' = "renode_check"
    BY <1>9 DEF RunRenodeOnce, Step
  <2>3. evidence'.outputs = Append(<<"expected">>, controlled')
    BY <2>1, <2>2, RenodeOutputs
  <2>4. evidence'.outputs = <<"expected", controlled'>>
    BY <2>1, <2>3, Second, ExpectedIsOutput
  <2> QED BY <2>2, <2>4
<1>10. CASE CheckRenode
  BY <1>10 DEF CheckRenode, Step
<1>11. CASE RunRobotFramework
  BY <1>11, TestedIsEvidence DEF RunRobotFramework, Step, Built, Typed
<1>12. CASE Repeat(1, "repeat_3")
  <2>1. PICK output \in Outputs :
            /\ RenodeExecutes(output)
            /\ repeated' = [repeated EXCEPT ![1] = output]
    BY <1>12 DEF Repeat
  <2>2. /\ evidence.outputs = <<"expected", "expected">>
        /\ native' = "expected" /\ controlled' = "expected"
        /\ runner' = "repeat_3"
    BY <1>12 DEF Repeat, Step
  <2>3. repeated'[1] = output
    BY <2>1 DEF Typed
  <2>4. evidence'.outputs = Append(<<"expected", "expected">>, repeated'[1])
    BY <2>1, <2>2, <2>3, RenodeOutputs
  <2>5. evidence'.outputs = <<"expected", "expected", repeated'[1]>>
    BY <2>1, <2>3, <2>4, Third, ExpectedIsOutput
  <2> QED BY <2>2, <2>5
<1>13. CASE Repeat(2, "repeat_check")
  <2>1. PICK output \in Outputs :
            /\ RenodeExecutes(output)
            /\ repeated' = [repeated EXCEPT ![2] = output]
    BY <1>13 DEF Repeat
  <2>2. /\ evidence.outputs = <<"expected", "expected", repeated[1]>>
        /\ native' = "expected" /\ controlled' = "expected"
        /\ runner' = "repeat_check"
    BY <1>13 DEF Repeat, Step
  <2>3. repeated'[1] = repeated[1] /\ repeated'[2] = output
    BY <2>1 DEF Typed
  <2>4. evidence'.outputs =
            Append(<<"expected", "expected", repeated'[1]>>, repeated'[2])
    BY <2>1, <2>2, <2>3, RenodeOutputs
  <2>5. evidence'.outputs =
            <<"expected", "expected", repeated'[1], repeated'[2]>>
    <3>1. repeated'[1] \in Outputs
      BY <1>13, <2>2, <2>3, RepeatedIsOutput DEF Repeat, Step
    <3> QED BY <2>1, <2>3, <2>4, <3>1, Fourth, ExpectedIsOutput
  <2> QED BY <2>2, <2>5
<1>14. CASE CheckDeterminism
  <2>1. /\ evidence.outputs =
               <<"expected", "expected", repeated[1], repeated[2]>>
        /\ native' = "expected" /\ controlled' = "expected"
        /\ runner' = "report" /\ evidence' = evidence
        /\ repeated = <<"expected", "expected">>
    BY <1>14 DEF CheckDeterminism, Step
  <2>2. evidence.outputs = <<"expected", "expected", "expected", "expected">>
    BY <2>1
  <2>3. evidence'.outputs = [i \in 1..4 |-> "expected"]
    BY <2>1, <2>2
  <2> QED BY <2>1, <2>3
<1>15. CASE TruncateReport
  BY <1>15 DEF TruncateReport, Step
<1>16. ASSUME NEW part \in Reporting, NEW to \in Reporting, PrintPart(part, to)
       PROVE  Seen'
  BY <1>16 DEF PrintPart, Step
<1>17. CASE WriteSummary
  BY <1>17 DEF WriteSummary, Step
<1>18. CASE Presenter
  BY <1>18 DEF Presenter, JudgeReport, JudgeFrames, Refuse, ShowResults,
               ShowFrames, Presents
<1>19. CASE Edit
  BY <1>19 DEF Edit, Typed, Evidence
<1>20. CASE BuildByHand
  BY <1>20 DEF BuildByHand
<1>21. CASE UNCHANGED vars
  BY <1>21 DEF vars
<1> QED BY <1>1, <1>2, <1>3, <1>4, <1>5, <1>6, <1>7, <1>8, <1>9, <1>10, <1>11,
           <1>12, <1>13, <1>14, <1>15, <1>16, <1>17, <1>18, <1>19, <1>20, <1>21
        DEF Next, Runner

\* A step keeps a run with --rebuild to the sources it started with.
LEMMA FreshInvariant == ASSUME Inv, [Next]_vars PROVE Fresh'
<1> USE DEF Inv, Typed, Commands, Evidence, Fresh, AfterNucleo, files
<1>1. CASE Start
  BY <1>1 DEF Start, NoEvidence
<1>2. CASE Stop
  BY <1>2 DEF Stop
<1>3. CASE Quality
  BY <1>3 DEF Quality, Step
<1>4. CASE RunHostCtest
  BY <1>4 DEF RunHostCtest, Step, Built, Tested
<1>5. CASE RunFirmwareTwister
  BY <1>5 DEF RunFirmwareTwister, Step, Tested
<1>6. CASE RunNativeSim
  BY <1>6 DEF RunNativeSim, Step, Built, Tested, Executed
<1>7. CASE CheckNativeSim
  BY <1>7 DEF CheckNativeSim, Step
<1>8. CASE RunNucleoBuild
  BY <1>8 DEF RunNucleoBuild, Step, Built
<1>9. CASE RunRenodeOnce
  BY <1>9 DEF RunRenodeOnce, RenodeExecutes, Step, Built, Tested, Executed
<1>10. CASE CheckRenode
  BY <1>10 DEF CheckRenode, Step
<1>11. CASE RunRobotFramework
  BY <1>11 DEF RunRobotFramework, Step, Built, Tested
<1>12. ASSUME NEW number \in 1..2, NEW to \in {"repeat_3", "repeat_check"},
              Repeat(number, to)
       PROVE  Fresh'
  BY <1>12, SMTT(30) DEF Repeat, RenodeExecutes, Step, Built, Tested, Executed
<1>13. CASE CheckDeterminism
  BY <1>13 DEF CheckDeterminism, Step
<1>14. CASE TruncateReport
  BY <1>14 DEF TruncateReport, Step
<1>15. ASSUME NEW part \in Reporting, NEW to \in Reporting, PrintPart(part, to)
       PROVE  Fresh'
  BY <1>15 DEF PrintPart, Step, Reporting
<1>16. CASE WriteSummary
  BY <1>16 DEF WriteSummary, Step
<1>17. CASE Presenter
  BY <1>17 DEF Presenter, JudgeReport, JudgeFrames, Refuse, ShowResults,
               ShowFrames, Presents
<1>18. CASE Edit
  BY <1>18 DEF Edit
<1>19. CASE BuildByHand
  BY <1>19 DEF BuildByHand
<1>20. CASE UNCHANGED vars
  BY <1>20 DEF vars
<1> QED BY <1>1, <1>2, <1>3, <1>4, <1>5, <1>6, <1>7, <1>8, <1>9, <1>10, <1>11,
           <1>12, <1>13, <1>14, <1>15, <1>16, <1>17, <1>18, <1>19, <1>20, SMTT(30)
        DEF Next, Runner, Reporting

\* A run that reaches its reports has earned them.
LEMMA ReportingIsEarned ==
    ASSUME Inv, runner \in {"report"} \cup Reporting
    PROVE  Earned(evidence)
  BY DEF Inv, Typed, Evidence, Seen, Fresh, Reporting, Earned

\* A step keeps what the reports carry of the runs that wrote them.
LEMMA KeptInvariant == ASSUME Inv, [Next]_vars PROVE Kept'
<1> USE DEF Inv, Kept, Reporting, files
<1>1. CASE Start
  BY <1>1 DEF Start
<1>2. CASE Stop
  BY <1>2 DEF Stop
<1>3. CASE TruncateReport
  <2>1. Earned(report'.of)
    BY <1>3, ReportingIsEarned DEF TruncateReport, Step
  <2> QED BY <1>3, <2>1 DEF TruncateReport, Step
<1>4. ASSUME NEW part \in Reporting, NEW to \in Reporting, PrintPart(part, to)
      PROVE  Kept'
  BY <1>4 DEF PrintPart, Step, Typed
<1>5. CASE WriteSummary
  <2>1. Earned(summary')
    BY <1>5, ReportingIsEarned DEF WriteSummary, Step
  <2> QED BY <1>5, <2>1 DEF WriteSummary, Step
<1>6. ASSUME UNCHANGED <<report, summary>>,
             runner' = runner \/ runner' \notin Reporting
      PROVE  Kept'
  BY <1>6
<1>7. CASE \/ Quality \/ RunHostCtest \/ RunFirmwareTwister \/ RunNativeSim
           \/ CheckNativeSim \/ RunNucleoBuild \/ RunRenodeOnce
           \/ CheckRenode \/ RunRobotFramework \/ Repeat(1, "repeat_3")
           \/ Repeat(2, "repeat_check") \/ CheckDeterminism
  BY <1>6, <1>7
     DEF Step, Quality, RunHostCtest, RunFirmwareTwister, RunNativeSim,
         CheckNativeSim, RunNucleoBuild, RunRenodeOnce, CheckRenode,
         RunRobotFramework, Repeat, CheckDeterminism
<1>8. CASE Presenter \/ Edit \/ BuildByHand \/ UNCHANGED vars
  BY <1>6, <1>8
     DEF Presenter, JudgeReport, JudgeFrames, Refuse, ShowResults, ShowFrames,
         Presents, Edit, BuildByHand, vars
<1> QED BY <1>1, <1>2, <1>3, <1>4, <1>5, <1>7, <1>8 DEF Next, Runner

-----------------------------------------------------------------------------
(* The theorems.                                                            *)

\* The empty results directory has the invariant.
LEMMA InitInv == Init => Inv
<1> SUFFICES ASSUME Init PROVE Inv
  OBVIOUS
<1> USE DEF Init
<1>1. NoEvidence \in Evidence
  BY DEF NoEvidence, Evidence
<1>2. /\ builds \in [{"host", "native", "nucleo"} -> Nat]
      /\ repeated \in [1..2 -> {"absent"} \cup Outputs]
      /\ report \in [parts : Seq({"results", "durations", "overall"}),
                      of : Evidence]
      /\ presenter \in [at : {"idle", "judged", "frames_judged",
                               "results_shown"},
                         since : Nat]
  BY <1>1 DEF NoPresentation
<1>3. Typed
  BY <1>1, <1>2 DEF Typed, Commands
<1>4. Seen /\ Fresh /\ Kept
  BY DEF Seen, Fresh, Kept, AfterNative, AfterNucleo, AfterRenode, Reporting
<1> QED BY <1>3, <1>4 DEF Inv

\* The invariant holds in every reachable state.
LEMMA Invariant == Spec => []Inv
<1>1. Inv /\ [Next]_vars => Inv'
  BY TypedInvariant, SeenInvariant, FreshInvariant, KeptInvariant DEF Inv
<1> QED BY <1>1, InitInv, PTL DEF Spec

\* A report that the presenter approves and a summary that exists are of one
\* run that earned them, for every number of runs and edits
\* (run-release-validation.sh:388-397).
THEOREM ApprovalEarned == Spec => []ApprovalIsEarned
<1>1. Inv => ApprovalIsEarned
  <2> SUFFICES ASSUME Inv PROVE ApprovalIsEarned
    OBVIOUS
  <2>1. ASSUME Approved PROVE report.parts # <<>>
    BY <2>1 DEF Approved
  <2> QED BY <2>1 DEF Inv, Kept, ApprovalIsEarned
<1> QED BY <1>1, Invariant, PTL

\* While the presenter is at work and no run has started since it judged the
\* report, that report is still there, and the frames it judged with it.
Stands ==
    /\ presenter.since <= runs
    /\ report.parts # <<>> \/ runner # "idle" => runs # 0
    /\ presenter.at # "idle" /\ presenter.since = runs =>
           /\ runner = "idle"
           /\ Approved
           /\ presenter.at # "judged" => controlled = "expected"

\* A step keeps the presenter's judgement true while nothing runs.
LEMMA StandsInvariant == ASSUME Inv, Stands, [Next]_vars PROVE Stands'
<1> USE DEF Inv, Typed, Stands, files
<1>1. CASE Start
  BY <1>1 DEF Start, Approved
<1>2. ASSUME runner # "idle", runner' \in Commands,
             UNCHANGED <<runs, presenter>>
      PROVE  Stands'
  BY <1>2
<1>3. CASE Runner /\ ~Start
  <2>1. runner' \in Commands
    BY TypedInvariant
  <2>2. runner # "idle" /\ UNCHANGED <<runs, presenter>>
    BY <1>3 DEF Runner, Stop, Step, Quality, RunHostCtest, RunFirmwareTwister,
         RunNativeSim, CheckNativeSim, RunNucleoBuild, RunRenodeOnce,
         CheckRenode, RunRobotFramework, Repeat, CheckDeterminism,
         TruncateReport, PrintPart, WriteSummary
  <2> QED BY <1>2, <2>1, <2>2
<1>4. CASE JudgeReport
  <2>1. report.parts # <<>>
    BY <1>4 DEF JudgeReport, Approved
  <2> QED BY <1>4, <2>1 DEF JudgeReport, Approved
<1>5. CASE JudgeFrames
  BY <1>5 DEF JudgeFrames, Presents, Approved
<1>6. CASE Refuse
  BY <1>6 DEF Refuse, NoPresentation
<1>7. CASE ShowResults \/ ShowFrames
  BY <1>7 DEF ShowResults, ShowFrames, Presents, Approved
<1>8. CASE Edit \/ BuildByHand \/ UNCHANGED vars
  BY <1>8 DEF Edit, BuildByHand, vars, Approved
<1> QED BY <1>1, <1>3, <1>4, <1>5, <1>6, <1>7, <1>8 DEF Next, Presenter

\* The frames that are displayed while no run is under way are those of the
\* approved run, for every number of runs and edits.
THEOREM FramesOfTheReport == Spec => FramesAreOfTheReport
<1>1. Init => Stands
  BY DEF Init, Stands, NoPresentation
<1>2. Inv /\ Stands /\ [Next]_vars => Stands'
  BY StandsInvariant
<1>3. Inv /\ Stands /\ ShowFrames /\ presenter.since = runs =>
          /\ Approved
          /\ report.of.outputs = [i \in 1..4 |-> controlled]
  <2> SUFFICES ASSUME Inv, Stands, ShowFrames, presenter.since = runs
               PROVE  /\ Approved
                      /\ report.of.outputs = [i \in 1..4 |-> controlled]
    OBVIOUS
  <2>1. presenter.at = "results_shown"
    BY DEF ShowFrames, Presents
  <2>2. Approved /\ controlled = "expected"
    BY <2>1 DEF Stands
  <2>3. report.parts # <<>>
    BY <2>2 DEF Approved
  <2>4. report.of.outputs = [i \in 1..4 |-> "expected"]
    BY <2>3 DEF Inv, Kept, Earned
  <2> QED BY <2>2, <2>4
<1> QED BY <1>1, <1>2, <1>3, Invariant, PTL DEF Spec, FramesAreOfTheReport
=============================================================================
