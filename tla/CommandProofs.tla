---------------------------- MODULE CommandProofs ----------------------------
(***************************************************************************)
(* A command proved for every environment, server, command line and        *)
(* sequence of answers: PoolInv says which pool is open at every step of   *)
(* the way and whose it is, FilesInv which files are on the disk,          *)
(* ResultInv what is written in them, GuideInv what has been asked,        *)
(* printed and said yes to, WhereInv which server that leads to.           *)
(***************************************************************************)
EXTENDS Command, ArtifactProofs

Unconnected == {"over", "refused", "options", "connect", "use-env", "connection", "again", "confirm"}
Guiding     == {"schemas", "scopes", "mode", "artifacts", "directory"}
Running     == {"scope", "discover", "write", "report"}

SetupPool == [holder |-> "setup", server |-> plan.dsn]
RunPool   == [holder |-> "discover", server |-> target]

PoolInv ==
    /\ phase \in Unconnected \cup {"version"} \cup Guiding \cup Running
    /\ "dsn" \in DOMAIN plan
    /\ phase \in Unconnected => pools = {}
    /\ phase \in {"refused", "use-env", "connection", "again", "confirm"} => line = NoLine
    /\ phase = "version" => pools = {IF line = NoLine THEN SetupPool ELSE RunPool}
    /\ phase \in Guiding => line = NoLine /\ plan.dsn \notin TooOld /\ pools = {SetupPool}
    /\ phase \in Running => line # NoLine /\ target \notin TooOld /\ pools = {RunPool}

(* A command line that was parsed is not the absence of one.                *)
LEMMA ParsedIsALine == ASSUME NEW args PROVE Parsed(args) # NoLine
<1>1. "dsn" \in DOMAIN Parsed(args)
  BY DEF Parsed
<1>2. DOMAIN NoLine = {}
  BY DEF NoLine
<1> QED BY <1>1, <1>2

LEMMA InitPools == Init => PoolInv
BY DEF Init, PoolInv, Unconnected, Guiding, Running, NoPlan

(* The only pool is the one of whoever is at work, and is released.         *)
LEMMA NothingLeft == PoolInv => Released = {}
BY DEF PoolInv, Unconnected, Guiding, Running, SetupPool, RunPool, Released, Holder

(* An answer but the connection leaves the connection alone.                *)
LEMMA AnswersKeepTheConnection ==
    ASSUME "dsn" \in DOMAIN plan, NEW v,
           \/ plan' = [plan EXCEPT !.schemas = v]
           \/ plan' = [plan EXCEPT !.full = v]
           \/ plan' = [plan EXCEPT !.out = v]
           \/ plan' = plan
    PROVE  "dsn" \in DOMAIN plan' /\ plan'.dsn = plan.dsn
OBVIOUS

LEMMA AnotherConnection ==
    ASSUME "dsn" \in DOMAIN plan, NEW v, NEW w, plan' = [plan EXCEPT !.dsn = v, !.fromEnv = w]
    PROVE  "dsn" \in DOMAIN plan'
OBVIOUS

LEMMA PoolSteps == PoolInv /\ [Next]_vars => PoolInv'
<1> SUFFICES ASSUME PoolInv, [Next]_vars PROVE PoolInv'
  OBVIOUS
<1>0. Released = {}
  BY NothingLeft
<1> USE DEF PoolInv, Unconnected, Guiding, Running, SetupPool, RunPool
<1>1. CASE Invoke
  <2>1. PICK l \in Lines : line' = Parsed(l)
    BY <1>1 DEF Invoke
  <2>2. line' # NoLine
    BY <2>1, ParsedIsALine
  <2> QED BY <1>1, <2>2 DEF Invoke, Started, NoPlan
<1>2. CASE InvokeGuide
  BY <1>2 DEF InvokeGuide, Started, AskConnection, NoPlan
<1>3. CASE GuideRefused
  BY <1>3 DEF GuideRefused, End, world, guide, run, files
<1>4. CASE Press
  BY <1>4 DEF Press, Choosing, world, run, files
<1>5. CASE Cancel
  BY <1>0, <1>5 DEF Cancel, Holder, End, Choosing, Typing, world, guide, run, files
<1>6. CASE Answer
  <2>1. CASE AnswerEnv
    BY <2>1, AnotherConnection, AnswersKeepTheConnection DEF AnswerEnv, Asking, world, run, files
  <2>2. CASE AnswerConnection
    BY <2>2, AnotherConnection DEF AnswerConnection, Asking, world, run, files
  <2>3. CASE AnswerAgain
    BY <2>3 DEF AnswerAgain, Asking, AskConnection, End, world, run, files
  <2>4. CASE AnswerScopes
    <3>1. "dsn" \in DOMAIN plan' /\ plan'.dsn = plan.dsn
      BY <2>4, AnswersKeepTheConnection DEF AnswerScopes
    <3> QED BY <2>4, <3>1 DEF AnswerScopes, Asking, Ask, world, run, files
  <2>5. CASE AnswerMode
    <3>1. "dsn" \in DOMAIN plan' /\ plan'.dsn = plan.dsn
      BY <2>5, AnswersKeepTheConnection DEF AnswerMode
    <3> QED BY <2>5, <3>1 DEF AnswerMode, Asking, Ask, world, run, files
  <2>6. CASE AnswerArtifacts
    <3>1. "dsn" \in DOMAIN plan' /\ plan'.dsn = plan.dsn
      BY <2>6, AnswersKeepTheConnection DEF AnswerArtifacts, Compose
    <3> QED BY <1>0, <2>6, <3>1 DEF AnswerArtifacts, Asking, Ask, Compose, world, run, files
  <2>7. CASE AnswerDirectory
    <3>1. "dsn" \in DOMAIN plan' /\ plan'.dsn = plan.dsn
      BY <2>7, AnswersKeepTheConnection DEF AnswerDirectory, Compose
    <3> QED BY <1>0, <2>7, <3>1 DEF AnswerDirectory, Asking, Ask, Compose, world, run, files
  <2>8. CASE AnswerConfirm
    BY <2>8, ParsedIsALine DEF AnswerConfirm, End, world, guide, files
  <2> QED BY <1>6, <2>1, <2>2, <2>3, <2>4, <2>5, <2>6, <2>7, <2>8 DEF Answer
<1>7. CASE Step
  <2>1. CASE GuideRefused
    BY <1>3, <2>1
  <2>2. CASE Open
    BY <2>2 DEF Open, OpenFailed, Server, Holder, Ask, End, world, run, files
  <2>3. CASE checkServerVersion
    BY <1>0, <2>3 DEF checkServerVersion, OpenFailed, Server, Holder, Ask, End, world, run, files
  <2>4. CASE SummarizeSchemas
    BY <1>0, <2>4 DEF SummarizeSchemas, Holder, Ask, End, world, run, files
  <2>5. CASE CheckOptions
    BY <2>5 DEF CheckOptions, End, world, guide, files
  <2>6. CASE ResolveScope
    BY <1>0, <2>6 DEF ResolveScope, ReleasedByConnect, Holder, End, world, guide, files
  <2>7. CASE Discover
    BY <1>0, <2>7 DEF Discover, Holder, End, world, guide, files
  <2>8. CASE WriteArtifact
    BY <1>0, <2>8 DEF WriteArtifact, Holder, End, world, guide, run
  <2>9. CASE Written
    BY <2>9 DEF Written, world, guide, run, files
  <2>10. CASE Report
    BY <1>0, <2>10 DEF Report, Holder, End, world, guide, run
  <2> QED BY <1>7, <2>1, <2>2, <2>3, <2>4, <2>5, <2>6, <2>7, <2>8, <2>9, <2>10 DEF Step
<1>8. CASE Interrupt
  BY <1>0, <1>8 DEF Interrupt, Holder, Choosing, Typing, world, guide, run, files
<1>9. CASE Crash
  BY <1>9 DEF Crash, world, guide, run
<1>10. CASE UNCHANGED vars
  BY <1>10 DEF vars, world, guide, run, files
<1> QED BY <1>1, <1>2, <1>3, <1>4, <1>5, <1>6, <1>7, <1>8, <1>9, <1>10 DEF Next

LEMMA PoolInvImplies == PoolInv => PoolsAreClosed
<1> SUFFICES ASSUME PoolInv PROVE PoolsAreClosed
  OBVIOUS
<1> USE DEF PoolInv, Unconnected, Guiding, Running, SetupPool, RunPool
<1>1. Cardinality({}) = 0 /\ \A p : Cardinality({p}) = 1
  BY FS_EmptySet, FS_Singleton
<1>2. CASE pools = {}
  <2>1. Cardinality(pools) <= 1
    BY <1>1, <1>2
  <2> QED BY <2>1 DEF PoolsAreClosed
<1>3. CASE pools # {}
  <2>1. PICK p : pools = {p}
    BY <1>3
  <2>2. Cardinality(pools) <= 1
    BY <1>1, <2>1
  <2> QED BY <2>2 DEF PoolsAreClosed
<1> QED BY <1>2, <1>3

(* Whatever fails and whenever the signal comes, a command has at most one  *)
(* pool, returns with none, and reads only from a server that passed the    *)
(* version check: the guide's pool is closed before the run opens its own.  *)
THEOREM CommandClosesItsPools == Spec => []PoolsAreClosed
<1>1. Init => PoolInv
  BY InitPools
<1>2. PoolInv /\ [Next]_vars => PoolInv'
  BY PoolSteps
<1>3. PoolInv => PoolsAreClosed
  BY PoolInvImplies
<1> QED BY <1>1, <1>2, <1>3, PTL DEF Spec

------------------------------------------------------------------------------
(* Files: those written so far are whole and of this command; at the report *)
(* all of them are.                                                         *)
Own == [run |-> invocations, whole |-> TRUE]

FilesShape == DOMAIN disk = ToSet(DiscoverFiles) /\ written \in 0..2
NoneYet    == phase \notin {"write", "report", "over"} => written = 0
SoFar      == phase = "write" => \A i \in 1..written : disk[DiscoverFiles[i]] = Own
Reported   == phase = "report" /\ line.out # "" => \A f \in DOMAIN disk : disk[f] = Own

FilesInv == FilesShape /\ NoneYet /\ SoFar /\ Reported /\ FilesAreWhole

LEMMA TwoFiles ==
    /\ Len(DiscoverFiles) = 2 /\ ToSet(DiscoverFiles) = {FileConfirmed, FileBroken}
    /\ DiscoverFiles[1] = FileConfirmed /\ DiscoverFiles[2] = FileBroken /\ FileConfirmed # FileBroken
BY DEF DiscoverFiles, ToSet, FileConfirmed, FileBroken

LEMMA InitFiles == Init => FilesInv
BY DEF Init, FilesInv, FilesShape, NoneYet, SoFar, Reported, FilesAreWhole

(* A step that writes nothing and goes nowhere near the files.              *)
LEMMA FilesStay ==
    ASSUME FilesInv, phase \notin {"write", "report", "over"},
           phase' \notin {"write", "report"},
           phase' = "over" /\ exit' = "ok" => line' = NoLine,
           UNCHANGED <<disk, written>>
    PROVE  FilesInv'
<1>1. FilesShape' /\ NoneYet'
  BY DEF FilesInv, FilesShape, NoneYet
<1>2. SoFar' /\ Reported'
  BY DEF SoFar, Reported
<1>3. FilesAreWhole'
  BY DEF FilesAreWhole
<1> QED BY <1>1, <1>2, <1>3 DEF FilesInv

(* A command starts with no file written.                                   *)
LEMMA FilesStart ==
    ASSUME FilesInv, phase' \notin {"write", "report", "over"}, disk' = disk, written' = 0
    PROVE  FilesInv'
<1>1. FilesShape' /\ NoneYet'
  BY DEF FilesInv, FilesShape, NoneYet
<1>2. SoFar' /\ Reported' /\ FilesAreWhole'
  BY DEF SoFar, Reported, FilesAreWhole
<1> QED BY <1>1, <1>2 DEF FilesInv

(* A command that ends without success claims nothing about its files.      *)
LEMMA FilesFail ==
    ASSUME FilesInv, phase' = "over", exit' # "ok", DOMAIN disk' = DOMAIN disk, written' = written
    PROVE  FilesInv'
<1>1. FilesShape' /\ NoneYet'
  BY DEF FilesInv, FilesShape, NoneYet
<1>2. SoFar' /\ Reported' /\ FilesAreWhole'
  BY DEF SoFar, Reported, FilesAreWhole
<1> QED BY <1>1, <1>2 DEF FilesInv

LEMMA FileSteps == PoolInv /\ FilesInv /\ [Next]_vars => FilesInv'
<1> SUFFICES ASSUME PoolInv, FilesInv, [Next]_vars PROVE FilesInv'
  OBVIOUS
<1>1. CASE Invoke \/ InvokeGuide
  BY <1>1, FilesStart DEF Invoke, InvokeGuide, Started, AskConnection
<1>2. CASE GuideRefused
  BY <1>2, FilesStay DEF GuideRefused, End, files
<1>3. CASE Press
  BY <1>3, FilesStay DEF Press, Choosing, files
<1>4. CASE Cancel
  BY <1>4, FilesStay DEF Cancel, End, Choosing, Typing, files, run, PoolInv, Guiding
<1>5. CASE Answer
  <2>1. CASE AnswerConfirm
    BY <2>1, FilesStay DEF AnswerConfirm, End, files, PoolInv
  <2>2. CASE AnswerEnv \/ AnswerConnection \/ AnswerAgain
    BY <2>2, FilesStay DEF AnswerEnv, AnswerConnection, AnswerAgain, Asking, AskConnection, End, files, run, PoolInv
  <2>3. CASE AnswerScopes \/ AnswerMode \/ AnswerArtifacts \/ AnswerDirectory
    BY <2>3, FilesStay DEF AnswerScopes, AnswerMode, AnswerArtifacts, AnswerDirectory, Asking, Ask, Compose, files
  <2> QED BY <1>5, <2>1, <2>2, <2>3 DEF Answer
<1>6. CASE Open \/ checkServerVersion \/ SummarizeSchemas
  BY <1>6, FilesStay DEF Open, checkServerVersion, SummarizeSchemas, OpenFailed, Ask, End, files
<1>7. CASE CheckOptions \/ ResolveScope
  BY <1>7, FilesStay DEF CheckOptions, ResolveScope, End, files
<1>8. CASE Discover
  <2>1. CASE phase' = IF line.out = "" THEN "report" ELSE "write"
    <3>1. UNCHANGED <<line, disk, written>> /\ written = 0
      BY <1>8 DEF Discover, files, FilesInv, NoneYet
    <3>2. FilesShape' /\ NoneYet' /\ FilesAreWhole'
      BY <2>1, <3>1 DEF FilesInv, FilesShape, NoneYet, FilesAreWhole
    <3>3. SoFar'
      BY <3>1 DEF SoFar
    <3>4. Reported'
      BY <2>1, <3>1 DEF Reported
    <3> QED BY <3>2, <3>3, <3>4 DEF FilesInv
  <2>2. CASE End("failure")
    BY <1>8, <2>2, FilesFail DEF Discover, End, files
  <2> QED BY <1>8, <2>1, <2>2 DEF Discover
<1>9. CASE WriteArtifact
  <2>1. CASE disk' = Rewritten(TRUE) /\ written' = written + 1 /\ phase' = "write"
    <3>1. written \in {0, 1} /\ invocations' = invocations /\ phase = "write"
      BY <1>9, TwoFiles DEF WriteArtifact, ToWrite, FilesInv, FilesShape
    <3>2. disk' = [disk EXCEPT ![DiscoverFiles[written + 1]] = Own]
      BY <2>1 DEF Rewritten, ToWrite, Own
    <3>3. FilesShape' /\ NoneYet' /\ Reported' /\ FilesAreWhole'
      BY <2>1, <3>1, <3>2 DEF FilesInv, FilesShape, NoneYet, Reported, FilesAreWhole
    <3>4. ASSUME NEW i \in 1..written' PROVE disk'[DiscoverFiles[i]] = Own
      <4>1. CASE i = written + 1
        <5>1. DiscoverFiles[i] \in DOMAIN disk
          BY <3>1, <4>1, TwoFiles DEF FilesInv, FilesShape
        <5> QED BY <3>2, <4>1, <5>1
      <4>2. CASE i # written + 1
        <5>1. i = 1 /\ written = 1
          BY <2>1, <3>1, <4>2
        <5>2. disk[DiscoverFiles[1]] = Own
          BY <3>1, <5>1 DEF FilesInv, SoFar
        <5>3. DiscoverFiles[1] # DiscoverFiles[2] /\ DiscoverFiles[1] \in DOMAIN disk
          BY TwoFiles DEF FilesInv, FilesShape
        <5> QED BY <3>2, <5>1, <5>2, <5>3
      <4> QED BY <4>1, <4>2
    <3>5. SoFar'
      <4>1. Own' = Own
        BY <3>1 DEF Own
      <4> QED BY <3>4, <4>1 DEF SoFar
    <3> QED BY <3>3, <3>5 DEF FilesInv
  <2>2. CASE disk' \in {disk, Rewritten(FALSE)} /\ UNCHANGED written /\ End("failure")
    <3>1. DOMAIN disk' = DOMAIN disk
      BY <2>2 DEF Rewritten
    <3> QED BY <2>2, <3>1, FilesFail DEF End
  <2> QED BY <1>9, <2>1, <2>2 DEF WriteArtifact
<1>10. CASE Written
  <2>1. UNCHANGED <<invocations, line, disk, written>> /\ phase = "write" /\ phase' = "report"
    BY <1>10 DEF Written, files, run
  <2>2. written = 2
    BY <1>10, TwoFiles DEF Written, ToWrite
  <2>3. FilesShape' /\ NoneYet' /\ SoFar' /\ FilesAreWhole'
    BY <2>1 DEF FilesInv, FilesShape, NoneYet, SoFar, FilesAreWhole
  <2>4. disk[FileConfirmed] = Own /\ disk[FileBroken] = Own
    <3>1. disk[DiscoverFiles[1]] = Own /\ disk[DiscoverFiles[2]] = Own
      BY <2>1, <2>2 DEF FilesInv, SoFar
    <3> QED BY <3>1, TwoFiles
  <2>5. \A f \in DOMAIN disk' : disk'[f] = Own'
    <3>1. Own' = Own
      BY <2>1 DEF Own
    <3>2. DOMAIN disk = {FileConfirmed, FileBroken}
      BY TwoFiles DEF FilesInv, FilesShape
    <3> QED BY <2>1, <2>4, <3>1, <3>2
  <2> QED BY <2>3, <2>5 DEF FilesInv, Reported
<1>11. CASE Report
  <2>1. UNCHANGED <<invocations, line, disk, written>> /\ phase = "report" /\ phase' = "over"
    BY <1>11 DEF Report, End, run
  <2>2. FilesShape' /\ NoneYet' /\ SoFar' /\ Reported'
    BY <2>1 DEF FilesInv, FilesShape, NoneYet, SoFar, Reported
  <2>3. exit' = "ok" => announced' = (line.out # "")
    BY <1>11 DEF Report, End
  <2>4. line.out # "" => \A f \in DOMAIN disk : disk[f] = Own
    BY <2>1 DEF FilesInv, Reported
  <2>5. FilesAreWhole'
    <3> SUFFICES ASSUME exit' = "ok", line'.out # ""
                 PROVE  announced' /\ \A f \in DOMAIN disk' : disk'[f] = [run |-> invocations', whole |-> TRUE]
      BY DEF FilesAreWhole
    <3>1. announced'
      BY <2>1, <2>3
    <3>2. \A f \in DOMAIN disk' : disk'[f] = Own
      BY <2>1, <2>4
    <3>3. Own = [run |-> invocations', whole |-> TRUE]
      BY <2>1 DEF Own
    <3> QED BY <3>1, <3>2, <3>3
  <2> QED BY <2>2, <2>5 DEF FilesInv
<1>12. CASE Interrupt
  <2>1. CASE phase \in Choosing \cup Typing
    BY <1>12, <2>1, FilesFail DEF Interrupt, files
  <2>2. CASE phase \notin Choosing \cup Typing
    <3>1. UNCHANGED <<invocations, phase, exit, line, disk, written, announced>>
      BY <1>12, <2>2 DEF Interrupt, files, run
    <3> QED BY <3>1 DEF FilesInv, FilesShape, NoneYet, SoFar, Reported, FilesAreWhole, Own
  <2> QED BY <2>1, <2>2
<1>13. CASE Crash
  <2>1. DOMAIN disk' = DOMAIN disk
    BY <1>13 DEF Crash, Rewritten
  <2> QED BY <1>13, <2>1, FilesFail DEF Crash
<1>14. CASE UNCHANGED vars
  <2>1. UNCHANGED <<invocations, phase, exit, line, disk, written, announced>>
    BY <1>14 DEF vars, files, run
  <2> QED BY <2>1 DEF FilesInv, FilesShape, NoneYet, SoFar, Reported, FilesAreWhole, Own
<1> QED
  BY <1>1, <1>2, <1>3, <1>4, <1>5, <1>6, <1>7, <1>8, <1>9, <1>10, <1>11, <1>12, <1>13, <1>14 DEF Next, Step

(* A command that succeeded with --out left every one of its files whole,   *)
(* its own and announced, whatever earlier commands, failures and crashes   *)
(* left in the directory before.                                            *)
THEOREM SuccessLeavesItsFiles == Spec => []FilesAreWhole
<1>1. Init => PoolInv /\ FilesInv
  BY InitPools, InitFiles
<1>2. PoolInv /\ FilesInv /\ [Next]_vars => (PoolInv /\ FilesInv)'
  BY PoolSteps, FileSteps
<1>3. FilesInv => FilesAreWhole
  BY DEF FilesInv
<1> QED BY <1>1, <1>2, <1>3, PTL DEF Spec
------------------------------------------------------------------------------
(* The files' content: what was raised, each with what validating it came   *)
(* to.                                                                      *)

Outcome(raised, r) == r = [i \in DOMAIN raised |-> r[i]] /\ \A i \in DOMAIN raised : r[i] \in Validated(raised[i])

ResultInv ==
    /\ data \in Data
    /\ phase = "write" => \E raised \in Raised : Outcome(raised, result)

LEMMA InitResult == Init => ResultInv
BY DEF Init, ResultInv

LEMMA ResultStays ==
    ASSUME ResultInv, UNCHANGED <<world, run>>, phase' = "write" => phase = "write"
    PROVE  ResultInv'
<1>1. data' = data /\ result' = result /\ line' = line /\ estimate' = estimate
  BY DEF world, run
<1>2. \A c : Validated(c)' = Validated(c)
  BY <1>1 DEF Validated
<1>3. \A raised : Outcome(raised, result) => Outcome(raised, result)'
  BY <1>1, <1>2 DEF Outcome
<1> QED BY <1>1, <1>3 DEF ResultInv

LEMMA ResultSteps == ResultInv /\ [Next]_vars => ResultInv'
<1> SUFFICES ASSUME ResultInv, [Next]_vars PROVE ResultInv'
  OBVIOUS
<1>0. ASSUME UNCHANGED world, phase' # "write" PROVE ResultInv'
  BY <1>0 DEF ResultInv, world
<1>1. CASE Discover
  <2>1. CASE phase' = "over"
    BY <1>0, <1>1, <2>1 DEF Discover
  <2>2. CASE phase' # "over"
    <3>1. PICK raised \in Raised :
             result' \in {r \in [DOMAIN raised -> UNION {Validated(raised[i]) : i \in DOMAIN raised}] :
                                    \A i \in DOMAIN raised : r[i] \in Validated(raised[i])}
      BY <1>1, <2>2 DEF Discover, End
    <3>2. result' = [i \in DOMAIN raised |-> result'[i]] /\ \A i \in DOMAIN raised : result'[i] \in Validated(raised[i])
      BY <3>1
    <3>3. data' = data /\ line' = line /\ estimate' = estimate
      BY <1>1 DEF Discover, world
    <3>4. \A c : Validated(c)' = Validated(c)
      BY <3>3 DEF Validated
    <3>5. Outcome(raised, result)'
      BY <3>2, <3>4 DEF Outcome
    <3> QED BY <3>3, <3>5 DEF ResultInv
  <2> QED BY <2>1, <2>2
<1>2. CASE WriteArtifact
  BY <1>2, ResultStays DEF WriteArtifact
<1>3. CASE Written \/ Report
  BY <1>0, <1>3 DEF Written, Report, End
<1>4. CASE Interrupt
  BY <1>4, ResultStays DEF Interrupt, Choosing, Typing
<1>5. CASE Crash
  BY <1>0, <1>5 DEF Crash
<1>6. CASE Invoke \/ InvokeGuide
  BY <1>0, <1>6 DEF Invoke, InvokeGuide, Started, AskConnection
<1>7. CASE Press
  BY <1>7, <1>0 DEF Press, Choosing
<1>8. CASE Cancel
  BY <1>8, <1>0 DEF Cancel, End
<1>9. CASE Answer
  <2>1. UNCHANGED world
    BY <1>9 DEF Answer, AnswerEnv, AnswerConnection, AnswerAgain, AnswerScopes, AnswerMode, AnswerArtifacts,
                AnswerDirectory, AnswerConfirm, Asking
  <2>2. phase' # "write"
    BY <1>9 DEF Answer, AnswerEnv, AnswerConnection, AnswerAgain, AnswerScopes, AnswerMode, AnswerArtifacts,
                AnswerDirectory, AnswerConfirm, Asking, Ask, AskConnection, Compose, End
  <2> QED BY <1>0, <2>1, <2>2
<1>10. CASE GuideRefused \/ Open \/ checkServerVersion \/ SummarizeSchemas \/ CheckOptions \/ ResolveScope
  BY <1>10, <1>0 DEF GuideRefused, Open, OpenFailed, checkServerVersion, SummarizeSchemas, CheckOptions,
                    ResolveScope, Ask, End
<1>11. CASE UNCHANGED vars
  BY <1>11, ResultStays DEF vars
<1> QED BY <1>1, <1>2, <1>3, <1>4, <1>5, <1>6, <1>7, <1>8, <1>9, <1>10, <1>11 DEF Next, Step

------------------------------------------------------------------------------
(* What the verdicts say.                                                   *)

LEMMA ConfirmedHasNoOrphans ==
    ASSUME NEW v, NEW m, NEW opts, verdict(v, m, opts) = "confirmed"
    PROVE  m = "full" /\ v.orphanVals = 0
BY DEF verdict, OrphanVerdict, Conclusive, NoOrphans

LEMMA BrokenHasOrphans ==
    ASSUME NEW v, NEW m, NEW opts, verdict(v, m, opts) = "broken"
    PROVE  v.orphanVals # 0 \/ v.orphanRows # 0
BY DEF verdict, NoOrphans

RowsOf(c) == data[c.child.table]
CountsOf(c, scanned) ==
    buildQuery(RowsOf(c), c.child.columns, scanned, data[c.parent.table], c.parent.columns)

(* The verdict of a candidate, in terms of its rows.                        *)
Truthful(c) ==
    /\ c.verdict = "confirmed" => CountsOf(c, DOMAIN RowsOf(c)).orphanVals = 0
    /\ c.verdict = "broken" =>
          \E scanned \in SUBSET DOMAIN RowsOf(c) :
             \/ CountsOf(c, scanned).orphanVals # 0
             \/ CountsOf(c, scanned).orphanRows # 0
    /\ c.verdict = "broken" /\ c.method = "full" => c.counts = CountsOf(c, DOMAIN RowsOf(c))

SameEnds(c, raw) == c.of = raw.of /\ c.child = raw.child /\ c.parent = raw.parent

LEMMA ValidatedIs ==
    ASSUME NEW raw, NEW c \in Validated(raw)
    PROVE  SameEnds(c, raw) /\ Truthful(c)
<1> DEFINE rows == data[raw.child.table]
           opts == Thresholds @@ [full |-> line.full]
           m == method(sampleFor(estimate, opts))
           counts(scanned) == buildQuery(rows, raw.child.columns, scanned, data[raw.parent.table],
                                         raw.parent.columns)
           with(v, q) == [of |-> raw.of, child |-> raw.child, parent |-> raw.parent,
                          verdict |-> v, method |-> m, counts |-> q]
<1>1. \/ \E scanned \in IF m = "full" THEN {DOMAIN rows} ELSE SUBSET DOMAIN rows :
            c = with(verdict(counts(scanned), m, opts), counts(scanned))
      \/ c = with("unvalidated", counts({}))
  BY Zenon DEF Validated
<1>2. \A v, q : /\ SameEnds(with(v, q), raw)
                /\ with(v, q).verdict = v /\ with(v, q).method = m /\ with(v, q).counts = q
  BY DEF SameEnds
<1> HIDE DEF m, opts, with
<1>3. CASE c = with("unvalidated", counts({}))
  <2>1. SameEnds(c, raw) /\ c.verdict = "unvalidated"
    BY <1>2, <1>3
  <2> QED BY <2>1 DEF Truthful
<1>4. ASSUME NEW scanned \in IF m = "full" THEN {DOMAIN rows} ELSE SUBSET DOMAIN rows,
             c = with(verdict(counts(scanned), m, opts), counts(scanned))
      PROVE  SameEnds(c, raw) /\ Truthful(c)
  <2>1. SameEnds(c, raw) /\ c.method = m /\ c.counts = counts(scanned)
        /\ c.verdict = verdict(counts(scanned), m, opts)
    BY <1>2, <1>4
  <2>2. RowsOf(c) = rows /\ \A s : CountsOf(c, s) = counts(s)
    BY <2>1 DEF SameEnds, RowsOf, CountsOf
  <2>3. scanned \in SUBSET DOMAIN rows /\ (m = "full" => scanned = DOMAIN rows)
    OBVIOUS
  <2> HIDE DEF counts, rows
  <2>4. c.verdict = "confirmed" => CountsOf(c, DOMAIN RowsOf(c)).orphanVals = 0
    BY <2>1, <2>2, <2>3, ConfirmedHasNoOrphans
  <2>5. c.verdict = "broken" => CountsOf(c, scanned).orphanVals # 0 \/ CountsOf(c, scanned).orphanRows # 0
    BY <2>1, <2>2, BrokenHasOrphans
  <2> QED BY <2>1, <2>2, <2>3, <2>4, <2>5 DEF Truthful
<1> QED BY <1>1, <1>3, <1>4

LEMMA ColumnsOfRaised ==
    ASSUME NEW raised \in Raised, NEW i \in DOMAIN raised
    PROVE  /\ IsFiniteSet(DOMAIN raised[i].child.columns)
           /\ DOMAIN raised[i].child.columns = DOMAIN raised[i].parent.columns
           /\ \A d \in Data : IsFiniteSet(DOMAIN d[raised[i].child.table])
<1>1. \A X, s : s \in Seq(X) => DOMAIN s = 1..Len(s) /\ Len(s) \in Nat
  OBVIOUS
<1>2. \A X, s : s \in Seq(X) => IsFiniteSet(DOMAIN s)
  <2>1. \A n \in Nat : IsFiniteSet(1..n)
    BY FS_Interval, 1 \in Int
  <2> QED BY <1>1, <2>1
<1>3. /\ raised[i].child.columns \in Seq(ToSet(raised[i].child.columns))
      /\ raised[i].parent.columns \in Seq(ToSet(raised[i].parent.columns))
      /\ Len(raised[i].child.columns) = Len(raised[i].parent.columns)
      /\ \A d \in Data : d[raised[i].child.table] \in Seq(ToSet(d[raised[i].child.table]))
  BY RaisedAssumption
<1> QED BY <1>1, <1>2, <1>3

(* A live statement about a candidate puts it in the file's category.       *)
LEMMA LiveOfItsCategory ==
    ASSUME NEW raised \in Raised, Outcome(raised, result), NEW i \in DOMAIN result
    PROVE  /\ \A sql \in ToSet(Generated[FileConfirmed]) : sql.of = result[i].of => result[i].verdict = "confirmed"
           /\ \A sql \in ToSet(Generated[FileBroken]) : sql.of = result[i].of => result[i].verdict = "broken"
<1>1. /\ DOMAIN result = DOMAIN raised /\ raised \in Seq(ToSet(raised))
      /\ \A j, k \in DOMAIN raised : raised[j].of = raised[k].of => j = k
  BY RaisedAssumption DEF Outcome
<1>2. \A j \in DOMAIN result : result[j].of = raised[j].of
  BY <1>1, ValidatedIs DEF Outcome, SameEnds
<1>3. \A c, d \in ToSet(result) : c.of = d.of => c = d
  BY <1>1, <1>2 DEF ToSet
<1>4. result[i] \in ToSet(result)
  BY DEF ToSet
<1>5. result \in Seq(ToSet(result))
  <2>1. DOMAIN raised = 1..Len(raised) /\ Len(raised) \in Nat
    BY <1>1
  <2>2. result = [j \in DOMAIN raised |-> result[j]] /\ \A j \in DOMAIN raised : result[j] \in ToSet(result)
    BY <1>1 DEF Outcome, ToSet
  <2>3. result \in [1..Len(raised) -> ToSet(result)]
    BY <2>1, <2>2
  <2> QED BY <2>1, <2>3
<1>6. ASSUME NEW v
      PROVE  /\ CandidatesByVerdict(result, v) \in Seq(ToSet(result))
             /\ \A c \in ToSet(CandidatesByVerdict(result, v)) : c \in ToSet(result) /\ c.verdict = v
  BY <1>5, AmongIs DEF CandidatesByVerdict
<1>7. /\ Generated[FileConfirmed] = confirmedFile(CandidatesByVerdict(result, "confirmed"), Indexes)
      /\ Generated[FileBroken] = brokenFile(CandidatesByVerdict(result, "broken"))
  <2>1. FileConfirmed \in ToSet(DiscoverFiles) /\ FileBroken \in ToSet(DiscoverFiles) /\ FileConfirmed # FileBroken
    BY DEF DiscoverFiles, ToSet, FileConfirmed, FileBroken
  <2> QED BY <2>1 DEF Generated, DiscoverArtifacts
<1>8. \A sql \in ToSet(Generated[FileConfirmed]) : \E c \in ToSet(result) : sql.of = c.of /\ c.verdict = "confirmed"
  BY <1>6, <1>7, ConfirmedIsAbout
<1>9. \A sql \in ToSet(Generated[FileBroken]) : \E c \in ToSet(result) : sql.of = c.of /\ c.verdict = "broken"
  BY <1>6, <1>7, BrokenIsAbout
<1> QED BY <1>3, <1>4, <1>8, <1>9

LEMMA ResultIsTrue == ResultInv => SqlIsTrue
<1> SUFFICES ASSUME ResultInv, phase = "write", NEW i \in DOMAIN result
             PROVE  LET c    == result[i]
                        rows == data[c.child.table]
                        parent == data[c.parent.table]
                        listed == orphanQuery(rows, c.child.columns, parent, c.parent.columns)
                        live(f) == \E sql \in ToSet(Generated[f]) : sql.live /\ sql.of = c.of
                    IN  /\ live(FileConfirmed) =>
                              violationQuery(rows, c.child.columns, parent, c.parent.columns) = 0
                        /\ live(FileBroken) => listed # {}
                        /\ live(FileBroken) /\ c.method = "full" =>
                              /\ Cardinality(listed) = c.counts.orphanVals
                              /\ SumFunctionOnSet([l \in listed |-> l[2]], listed) = c.counts.orphanRows
                        /\ ~(live(FileConfirmed) /\ live(FileBroken))
  BY DEF SqlIsTrue
<1> DEFINE c    == result[i]
           rows == data[c.child.table]
           parent == data[c.parent.table]
           columns == c.child.columns
           key == c.parent.columns
           listed == orphanQuery(rows, columns, parent, key)
           live(f) == \E sql \in ToSet(Generated[f]) : sql.live /\ sql.of = c.of
<1>1. PICK raised \in Raised : Outcome(raised, result)
  BY DEF ResultInv
<1>2. i \in DOMAIN raised /\ SameEnds(c, raised[i]) /\ Truthful(c) /\ data \in Data
  BY <1>1, ValidatedIs DEF Outcome, ResultInv
<1>3. IsFiniteSet(DOMAIN rows) /\ IsFiniteSet(DOMAIN columns) /\ DOMAIN columns = DOMAIN key
  BY <1>2, ColumnsOfRaised DEF SameEnds
<1>4. (live(FileConfirmed) => c.verdict = "confirmed") /\ (live(FileBroken) => c.verdict = "broken")
  BY <1>1, LiveOfItsCategory
<1>5. RowsOf(c) = rows /\ \A s : CountsOf(c, s) = buildQuery(rows, columns, s, parent, key)
  BY DEF RowsOf, CountsOf
<1> HIDE DEF c, rows, parent, columns, key, listed, live
<1>6. live(FileConfirmed) => violationQuery(rows, columns, parent, key) = 0
  BY <1>2, <1>3, <1>4, <1>5, NoneOrphaned DEF Truthful
<1>7. live(FileBroken) => listed # {}
  BY <1>2, <1>3, <1>4, <1>5, SomeOrphaned DEF Truthful, listed
<1>8. live(FileBroken) /\ c.method = "full" =>
        /\ Cardinality(listed) = c.counts.orphanVals
        /\ SumFunctionOnSet([l \in listed |-> l[2]], listed) = c.counts.orphanRows
  <2>1. ListsWhatWasCounted(rows, columns, parent, key)
    BY <1>3, TheListingIsExact
  <2>2. live(FileBroken) /\ c.method = "full" => c.counts = buildQuery(rows, columns, DOMAIN rows, parent, key)
    BY <1>2, <1>4, <1>5 DEF Truthful
  <2> QED BY <2>1, <2>2 DEF ListsWhatWasCounted, listed
<1>9. ~(live(FileConfirmed) /\ live(FileBroken))
  BY <1>4
<1> QED BY <1>6, <1>7, <1>8, <1>9 DEF c, rows, parent, columns, key, listed, live

(* Whatever was raised and however much of each table was read: a key that  *)
(* can be run from confirmed.sql violates nothing, and the listing of a key *)
(* broken over all its rows has the orphans that were counted; and a        *)
(* command that succeeded left its files whole.                             *)
THEOREM FilesAreTrue == Spec => []ArtifactsAreTrue
<1>1. Init => PoolInv /\ FilesInv /\ ResultInv
  BY InitPools, InitFiles, InitResult
<1>2. PoolInv /\ FilesInv /\ ResultInv /\ [Next]_vars => (PoolInv /\ FilesInv /\ ResultInv)'
  BY PoolSteps, FileSteps, ResultSteps
<1>3. FilesInv /\ ResultInv => ArtifactsAreTrue
  BY ResultIsTrue DEF FilesInv, ArtifactsAreTrue
<1> QED BY <1>1, <1>2, <1>3, PTL DEF Spec

------------------------------------------------------------------------------
(* The list on the screen: what the cursor is on is drawn.                  *)

Choosers == [n: Nat \ {0}, multi: BOOLEAN, cursor: Nat, picked: SUBSET Nat]

(* A chooser the keys may have left.                                        *)
Proper(m) ==
    /\ m \in Choosers
    /\ m.cursor \in 1..m.n /\ m.picked \subseteq 1..m.n
    /\ ~m.multi => m.picked = {}

LEMMA LeastOfTwo ==
    ASSUME NEW a \in Int, NEW b \in Int
    PROVE  Min({a, b}) = IF a =< b THEN a ELSE b
<1>0. IsFiniteSet({a} \cup {b}) /\ {a, b} = {a} \cup {b}
  <2>1. IsFiniteSet({a})
    BY FS_Singleton, Zenon
  <2> QED BY <2>1, FS_AddElement
<1>1. {a, b} \in SUBSET Int /\ {a, b} # {} /\ IsFiniteSet({a, b})
  BY <1>0
<1>2. Min({a, b}) \in {a, b} /\ \A n \in {a, b} : Min({a, b}) =< n
  BY <1>1, MinIs, Zenon
<1> QED BY <1>2

LEMMA GreatestOfTwo ==
    ASSUME NEW a \in Int, NEW b \in Int
    PROVE  Max({a, b}) = IF a >= b THEN a ELSE b
<1>0. IsFiniteSet({a} \cup {b}) /\ {a, b} = {a} \cup {b}
  <2>1. IsFiniteSet({a})
    BY FS_Singleton, Zenon
  <2> QED BY <2>1, FS_AddElement
<1>1. {a, b} \in SUBSET Int /\ {a, b} # {} /\ IsFiniteSet({a, b})
  BY <1>0
<1>2. Max({a, b}) \in {a, b} /\ \A n \in {a, b} : Max({a, b}) >= n
  BY <1>1, MaxIs, Zenon
<1> QED BY <1>2

LEMMA WindowIs == ASSUME NEW m, Proper(m) PROVE window(m) \in 1..m.n /\ (window(m) = m.n \/ window(m) >= 3)
<1>1. m.n \in Nat \ {0} /\ Height \in Int
  BY PromptAssumption DEF Proper, Choosers
<1>2. window(m) = IF Height =< m.n THEN Height ELSE m.n
  BY <1>1, LeastOfTwo DEF window
<1> QED BY <1>1, <1>2, PromptAssumption

LEMMA CursorIsDrawn == ASSUME NEW m, Proper(m) PROVE m.cursor \in slice(m)
<1> DEFINE w == window(m)
           above == Max({0, m.cursor - 1 - w \div 2})
           first == IF above + w > m.n THEN m.n - w ELSE above
<1>1. m.n \in Nat \ {0} /\ m.cursor \in 1..m.n /\ w \in 1..m.n
  BY WindowIs DEF Proper, Choosers
<1> HIDE DEF w
<1>2. w \div 2 \in Nat /\ w \div 2 < w
  BY <1>1
<1>3. above = IF 0 >= m.cursor - 1 - w \div 2 THEN 0 ELSE m.cursor - 1 - w \div 2
  <2>1. m.cursor - 1 - w \div 2 \in Int
    BY <1>1, <1>2
  <2> QED BY <2>1, GreatestOfTwo, 0 \in Int
<1> HIDE DEF above
<1>4. first + 1 =< m.cursor /\ m.cursor =< first + w
  BY <1>1, <1>2, <1>3
<1>5. slice(m) = (first + 1)..(first + w)
  BY DEF slice, first, above, w
<1>6. first \in Int
  BY <1>1, <1>2, <1>3
<1> HIDE DEF first
<1> QED BY <1>1, <1>4, <1>5, <1>6

LEMMA Moved ==
    ASSUME NEW m, Proper(m), NEW c \in 1..m.n
    PROVE  Proper([m EXCEPT !.cursor = c])
BY DEF Proper, Choosers

LEMMA Ticked == ASSUME NEW m, Proper(m) PROVE Proper(Toggled(m))
BY DEF Proper, Choosers, Toggled

(* No key takes the cursor off the list or ticks where one is to be chosen. *)
LEMMA KeysKeepProper ==
    ASSUME NEW m, Proper(m), NEW key \in Keys
    PROVE  Proper(Update(m, key)) /\ Update(m, key).multi = m.multi /\ Update(m, key).n = m.n
<1>1. m.n \in Nat \ {0} /\ m.cursor \in 1..m.n /\ window(m) \in 1..m.n
  BY WindowIs DEF Proper, Choosers
<1>2. \A c : [m EXCEPT !.cursor = c].multi = m.multi /\ [m EXCEPT !.cursor = c].n = m.n
  BY DEF Proper, Choosers
<1>3. CASE key = "up"
  <2>1. Max({1, m.cursor - 1}) \in 1..m.n
    BY <1>1, GreatestOfTwo
  <2>2. Update(m, key) = [m EXCEPT !.cursor = Max({1, m.cursor - 1})]
    BY <1>3 DEF Update
  <2> QED BY <1>2, <2>1, <2>2, Moved
<1>4. CASE key = "down"
  <2>1. Min({m.n, m.cursor + 1}) \in 1..m.n
    BY <1>1, LeastOfTwo
  <2>2. Update(m, key) = [m EXCEPT !.cursor = Min({m.n, m.cursor + 1})]
    BY <1>4 DEF Update
  <2> QED BY <1>2, <2>1, <2>2, Moved
<1>5. CASE key = "pgup"
  <2>1. Max({1, m.cursor - window(m)}) \in 1..m.n
    BY <1>1, GreatestOfTwo
  <2>2. Update(m, key) = [m EXCEPT !.cursor = Max({1, m.cursor - window(m)})]
    BY <1>5 DEF Update
  <2> QED BY <1>2, <2>1, <2>2, Moved
<1>6. CASE key = "pgdown"
  <2>1. Min({m.n, m.cursor + window(m)}) \in 1..m.n
    BY <1>1, LeastOfTwo
  <2>2. Update(m, key) = [m EXCEPT !.cursor = Min({m.n, m.cursor + window(m)})]
    BY <1>6 DEF Update
  <2> QED BY <1>2, <2>1, <2>2, Moved
<1>7. CASE key = "home"
  <2>1. Update(m, key) = [m EXCEPT !.cursor = 1] /\ 1 \in 1..m.n
    BY <1>1, <1>7 DEF Update
  <2> QED BY <1>2, <2>1, Moved
<1>8. CASE key = "end"
  <2>1. Update(m, key) = [m EXCEPT !.cursor = m.n] /\ m.n \in 1..m.n
    BY <1>1, <1>8 DEF Update
  <2> QED BY <1>2, <2>1, Moved
<1>9. CASE key = "space"
  <2>1. Update(m, key) = Toggled(m)
    BY <1>9 DEF Update
  <2>2. Toggled(m).multi = m.multi /\ Toggled(m).n = m.n
    BY DEF Toggled, Proper, Choosers
  <2> QED BY <2>1, <2>2, Ticked
<1> QED BY <1>3, <1>4, <1>5, <1>6, <1>7, <1>8, <1>9 DEF Keys

LEMMA FreshIsProper ==
    ASSUME NEW n \in Nat \ {0}, NEW multi \in BOOLEAN
    PROVE  Proper(chooser(n, multi)) /\ chooser(n, multi).multi = multi /\ chooser(n, multi).n = n
BY DEF Proper, Choosers, chooser

(* Something is chosen, one thing where one is asked for.                   *)
LEMMA ChosenIs ==
    ASSUME NEW m, Proper(m)
    PROVE  /\ chosen(m) # {} /\ chosen(m) \subseteq 1..m.n
           /\ ~m.multi => chosen(m) = {m.cursor}
           /\ m.multi \/ Cardinality(chosen(m)) = 1
BY FS_Singleton DEF Proper, chosen

------------------------------------------------------------------------------
(* The command that is printed and the arguments that run.                  *)

LEMMA LastValue ==
    ASSUME NEW args, NEW n \in Nat, DOMAIN args = 1..n, NEW flag, NEW default
    PROVE  \/ /\ ValueOf(args, flag, default) = default
              /\ \A i \in 1..n : args[i][1] # flag
           \/ \E i \in 1..n : /\ args[i][1] = flag /\ ValueOf(args, flag, default) = args[i][2]
                              /\ \A j \in 1..n : args[j][1] = flag => j =< i
<1> DEFINE at == {i \in DOMAIN args : args[i][1] = flag}
<1>1. at \in SUBSET Int /\ IsFiniteSet(at)
  BY FS_Interval, FS_Subset, 1 \in Int, n \in Int
<1>2. CASE at = {}
  BY <1>2 DEF ValueOf
<1>3. CASE at # {}
  <2>1. Max(at) \in at /\ \A j \in at : Max(at) >= j
    BY <1>1, <1>3, MaxIs, Zenon
  <2>2. ValueOf(args, flag, default) = args[Max(at)][2]
    BY <1>3 DEF ValueOf
  <2> DEFINE i == Max(at)
  <2> HIDE DEF i
  <2>3. i \in 1..n /\ args[i][1] = flag /\ ValueOf(args, flag, default) = args[i][2]
    BY <2>1, <2>2 DEF i
  <2>4. \A j \in 1..n : args[j][1] = flag => j =< i
    BY <2>1, <2>3 DEF i
  <2> QED BY <2>3, <2>4
<1> QED BY <1>2, <1>3

(* One more flag, or none.                                                  *)
Adds(all, args, more, x) ==
    \A flag, default :
        ValueOf(all, flag, default) =
            IF more = <<x>> /\ x[1] = flag THEN x[2] ELSE ValueOf(args, flag, default)

LEMMA OneMoreFlag ==
    ASSUME NEW S, NEW args \in Seq(S), NEW x \in S, NEW more, more = <<>> \/ more = <<x>>
    PROVE  args \o more \in Seq(S) /\ Adds(args \o more, args, more, x)
<1> DEFINE all == args \o more
           n == Len(args)
<1>1. n \in Nat /\ DOMAIN args = 1..n
  OBVIOUS
<1>2. CASE more = <<>>
  <2>1. all = args /\ <<>> # <<x>>
    BY <1>2
  <2> QED BY <1>2, <2>1 DEF Adds
<1>3. CASE more = <<x>>
  <2>1. all \in Seq(S) /\ Len(all) = n + 1 /\ DOMAIN all = 1..(n + 1)
    BY <1>3
  <2>2. \A i \in 1..n : all[i] = args[i]
    BY <1>3
  <2>3. all[n + 1] = x
    BY <1>3
  <2> HIDE DEF all, n
  <2>4. ASSUME NEW flag, NEW default
        PROVE  ValueOf(all, flag, default) = IF x[1] = flag THEN x[2] ELSE ValueOf(args, flag, default)
    <3>1. \/ /\ ValueOf(all, flag, default) = default
             /\ \A i \in 1..(n + 1) : all[i][1] # flag
          \/ \E i \in 1..(n + 1) : /\ all[i][1] = flag /\ ValueOf(all, flag, default) = all[i][2]
                                   /\ \A j \in 1..(n + 1) : all[j][1] = flag => j =< i
      BY <1>1, <2>1, LastValue, n + 1 \in Nat
    <3>2. \/ /\ ValueOf(args, flag, default) = default
             /\ \A i \in 1..n : args[i][1] # flag
          \/ \E i \in 1..n : /\ args[i][1] = flag /\ ValueOf(args, flag, default) = args[i][2]
                             /\ \A j \in 1..n : args[j][1] = flag => j =< i
      BY <1>1, LastValue
    <3>3. CASE x[1] = flag
      <4>1. all[n + 1][1] = flag /\ n + 1 \in 1..(n + 1)
        BY <1>1, <2>3, <3>3
      <4>2. PICK i \in 1..(n + 1) : /\ all[i][1] = flag /\ ValueOf(all, flag, default) = all[i][2]
                                    /\ \A j \in 1..(n + 1) : all[j][1] = flag => j =< i
        BY <3>1, <4>1
      <4>3. i = n + 1
        BY <1>1, <4>1, <4>2
      <4> QED BY <2>3, <3>3, <4>2, <4>3
    <3>4. CASE x[1] # flag
      <4>1. \A i \in 1..(n + 1) : all[i][1] = flag => i \in 1..n /\ args[i][1] = flag /\ all[i] = args[i]
        BY <1>1, <2>2, <2>3, <3>4
      <4>2. \A i \in 1..n : i \in 1..(n + 1) /\ all[i] = args[i]
        BY <1>1, <2>2
      <4>3. CASE \A i \in 1..n : args[i][1] # flag
        BY <3>1, <3>2, <3>4, <4>1, <4>3
      <4>4. CASE \E i \in 1..n : args[i][1] = flag
        <5>1. PICK i \in 1..n : /\ args[i][1] = flag /\ ValueOf(args, flag, default) = args[i][2]
                                /\ \A j \in 1..n : args[j][1] = flag => j =< i
          BY <3>2, <4>4
        <5>2. PICK k \in 1..(n + 1) : /\ all[k][1] = flag /\ ValueOf(all, flag, default) = all[k][2]
                                      /\ \A j \in 1..(n + 1) : all[j][1] = flag => j =< k
          BY <3>1, <4>2, <4>4
        <5>3. k \in 1..n /\ args[k][1] = flag /\ all[k] = args[k]
          BY <4>1, <5>2
        <5>4. k =< i /\ i =< k
          BY <4>2, <5>1, <5>2, <5>3
        <5>5. k = i
          BY <1>1, <5>1, <5>3, <5>4
        <5> QED BY <3>4, <5>1, <5>2, <5>3, <5>5
      <4> QED BY <4>3, <4>4
    <3> QED BY <3>3, <3>4
  <2> QED BY <1>3, <2>1, <2>4 DEF all, Adds
<1> QED BY <1>2, <1>3

LEMMA NoFlags == ASSUME NEW flag, NEW default PROVE ValueOf(<<>>, flag, default) = default
BY DEF ValueOf

LEMMA ListedOnce ==
    ASSUME NEW args, NEW flag, NEW e
    PROVE  e \in ValuesOf(args, flag) <=> \E i \in DOMAIN args : args[i][1] = flag /\ e \in args[i][2]
BY Zenon DEF ValuesOf

LEMMA NoList == ASSUME NEW flag PROVE ValuesOf(<<>>, flag) = {}
<1>1. DOMAIN <<>> = {}
  OBVIOUS
<1>2. \A e : e \notin ValuesOf(<<>>, flag)
  BY <1>1, ListedOnce
<1> QED BY <1>2

(* The same of a list.                                                      *)
AddsTo(all, args, more, x) ==
    \A flag :
        ValuesOf(all, flag) =
            IF more = <<x>> /\ x[1] = flag THEN ValuesOf(args, flag) \cup x[2] ELSE ValuesOf(args, flag)

LEMMA OneMoreOfAList ==
    ASSUME NEW S, NEW args \in Seq(S), NEW x \in S, NEW more, more = <<>> \/ more = <<x>>
    PROVE  AddsTo(args \o more, args, more, x)
<1> DEFINE all == args \o more
           n == Len(args)
<1>1. n \in Nat /\ DOMAIN args = 1..n
  OBVIOUS
<1>2. CASE more = <<>>
  <2>1. all = args /\ <<>> # <<x>>
    BY <1>2
  <2> QED BY <1>2, <2>1 DEF AddsTo
<1>3. CASE more = <<x>>
  <2>1. DOMAIN all = 1..(n + 1)
    BY <1>3
  <2>2. \A i \in 1..n : all[i] = args[i]
    BY <1>3
  <2>3. all[n + 1] = x
    BY <1>3
  <2> HIDE DEF all, n
  <2>4. \A i \in 1..(n + 1) : i \in 1..n \/ i = n + 1
    BY <1>1
  <2>5. n + 1 \in 1..(n + 1) /\ \A i \in 1..n : i \in 1..(n + 1)
    BY <1>1
  <2>6. ASSUME NEW flag, NEW e
        PROVE  e \in ValuesOf(all, flag) <=> e \in ValuesOf(args, flag) \/ (x[1] = flag /\ e \in x[2])
    <3>1. e \in ValuesOf(all, flag) <=> \E i \in 1..(n + 1) : all[i][1] = flag /\ e \in all[i][2]
      <4>1. e \in ValuesOf(all, flag) <=> \E i \in DOMAIN all : all[i][1] = flag /\ e \in all[i][2]
        BY ListedOnce
      <4> QED BY <2>1, <4>1
    <3>2. e \in ValuesOf(args, flag) <=> \E i \in 1..n : args[i][1] = flag /\ e \in args[i][2]
      <4>1. e \in ValuesOf(args, flag) <=> \E i \in DOMAIN args : args[i][1] = flag /\ e \in args[i][2]
        BY ListedOnce
      <4> QED BY <1>1, <4>1
    <3> QED BY <2>2, <2>3, <2>4, <2>5, <3>1, <3>2
  <2>7. ASSUME NEW flag
        PROVE  ValuesOf(all, flag) = IF x[1] = flag THEN ValuesOf(args, flag) \cup x[2] ELSE ValuesOf(args, flag)
    <3>1. CASE x[1] = flag
      BY <2>6, <3>1
    <3>2. CASE x[1] # flag
      <4>1. \A e : e \in ValuesOf(all, flag) <=> e \in ValuesOf(args, flag)
        BY <2>6, <3>2
      <4> QED BY <3>2, <4>1
    <3> QED BY <3>1, <3>2
  <2> QED BY <1>3, <2>7 DEF all, AddsTo
<1> QED BY <1>2, <1>3

(* The plan read back from its own arguments: the schemas as they are read  *)
(* from the joined text.                                                    *)
ReadBack(schemas) == {Unquoted(t) : t \in JoinedSchemas(schemas)}

Echoes(l, p) ==
    /\ l.dsn = (IF p.fromEnv THEN None ELSE p.dsn) /\ l.schemas = ReadBack(p.schemas)
    /\ l.all = FALSE /\ l.exclude = {} /\ l.full = p.full /\ l.out = p.out

LEMMA ParsedCommand ==
    ASSUME NEW p, p.full \in BOOLEAN
    PROVE  Echoes(Parsed(Args(p)), p)
<1> DEFINE a == <<"--dsn", p.dsn>>
           v == JoinedSchemas(p.schemas)
           b == <<"--schema", v>>
           c == <<"--full", TRUE>>
           d == <<"--out", p.out>>
           S == {a, b, c, d}
           s1 == IF p.fromEnv THEN <<>> ELSE <<a>>
           t2 == IF p.schemas = {} THEN <<>> ELSE <<b>>
           t3 == IF p.full THEN <<c>> ELSE <<>>
           t4 == IF p.out = "" THEN <<>> ELSE <<d>>
           s2 == s1 \o t2
           s3 == s2 \o t3
           s4 == s3 \o t4
<1>1. /\ a[1] = "--dsn" /\ a[2] = p.dsn /\ b[1] = "--schema" /\ b[2] = v
      /\ c[1] = "--full" /\ c[2] = TRUE /\ d[1] = "--out" /\ d[2] = p.out
  OBVIOUS
<1>2. /\ \A x : <<x>> # <<>>
      /\ a \in S /\ b \in S /\ c \in S /\ d \in S
  OBVIOUS
<1>3. Args(p) = s4
  BY Zenon DEF Args
<1>4. <<>> \in Seq(S) /\ <<>> \o s1 = s1
  <2> HIDE DEF a
  <2> QED OBVIOUS
<1> HIDE DEF a, b, c, d, S, v
<1>5. s1 \in {<<>>, <<a>>} /\ t2 \in {<<>>, <<b>>} /\ t3 \in {<<>>, <<c>>} /\ t4 \in {<<>>, <<d>>}
  OBVIOUS
<1>6. /\ s1 = <<a>> <=> ~p.fromEnv
      /\ t2 = <<b>> <=> p.schemas # {}
      /\ t3 = <<c>> <=> p.full
      /\ t4 = <<d>> <=> p.out # ""
  BY <1>2
<1> HIDE DEF s1, t2, t3, t4
<1>7. s1 \in Seq(S) /\ Adds(s1, <<>>, s1, a) /\ AddsTo(s1, <<>>, s1, a)
  <2>1. <<>> \o s1 \in Seq(S) /\ Adds(<<>> \o s1, <<>>, s1, a) /\ AddsTo(<<>> \o s1, <<>>, s1, a)
    BY <1>2, <1>4, <1>5, OneMoreFlag, OneMoreOfAList
  <2> QED BY <1>4, <2>1
<1>8. s2 \in Seq(S) /\ Adds(s2, s1, t2, b) /\ AddsTo(s2, s1, t2, b)
  BY <1>2, <1>5, <1>7, OneMoreFlag, OneMoreOfAList
<1> HIDE DEF s2
<1>9. s3 \in Seq(S) /\ Adds(s3, s2, t3, c) /\ AddsTo(s3, s2, t3, c)
  BY <1>2, <1>5, <1>8, OneMoreFlag, OneMoreOfAList
<1> HIDE DEF s3
<1>10. Adds(s4, s3, t4, d) /\ AddsTo(s4, s3, t4, d)
  BY <1>2, <1>5, <1>9, OneMoreFlag, OneMoreOfAList
<1> HIDE DEF s4
<1>11. ASSUME NEW f, NEW e
       PROVE  ValueOf(s4, f, e) =
                IF t4 = <<d>> /\ d[1] = f THEN d[2]
                ELSE IF t3 = <<c>> /\ c[1] = f THEN c[2]
                ELSE IF t2 = <<b>> /\ b[1] = f THEN b[2]
                ELSE IF s1 = <<a>> /\ a[1] = f THEN a[2] ELSE e
  BY <1>7, <1>8, <1>9, <1>10, NoFlags DEF Adds
<1>12. ASSUME NEW f, NEW e
       PROVE  ValueOf(s4, f, e) =
                IF p.out # "" /\ "--out" = f THEN p.out
                ELSE IF p.full /\ "--full" = f THEN TRUE
                ELSE IF p.schemas # {} /\ "--schema" = f THEN v
                ELSE IF ~p.fromEnv /\ "--dsn" = f THEN p.dsn ELSE e
  <2>1. /\ t4 = <<d>> /\ d[1] = f <=> p.out # "" /\ "--out" = f
        /\ t3 = <<c>> /\ c[1] = f <=> p.full /\ "--full" = f
        /\ t2 = <<b>> /\ b[1] = f <=> p.schemas # {} /\ "--schema" = f
        /\ s1 = <<a>> /\ a[1] = f <=> ~p.fromEnv /\ "--dsn" = f
    BY <1>1, <1>6
  <2>2. CASE p.out # "" /\ "--out" = f
    BY <1>1, <1>11, <2>1, <2>2, Zenon
  <2>3. CASE ~(p.out # "" /\ "--out" = f) /\ p.full /\ "--full" = f
    BY <1>1, <1>11, <2>1, <2>3, Zenon
  <2>4. CASE ~(p.out # "" /\ "--out" = f) /\ ~(p.full /\ "--full" = f)
    <3>1. ValueOf(s4, f, e) = IF t2 = <<b>> /\ b[1] = f THEN b[2]
                              ELSE IF s1 = <<a>> /\ a[1] = f THEN a[2] ELSE e
      BY <1>11, <2>1, <2>4, Zenon
    <3> QED BY <1>1, <2>1, <2>4, <3>1, Zenon
  <2> QED BY <2>2, <2>3, <2>4, Zenon
<1>13. ValueOf(s4, "--dsn", None) = IF p.fromEnv THEN None ELSE p.dsn
  BY <1>12
<1>14. ValuesOf(s4, "--schema") = v
  <2>1. /\ ValuesOf(s4, "--schema") = ValuesOf(s3, "--schema")
        /\ ValuesOf(s3, "--schema") = ValuesOf(s2, "--schema")
        /\ ValuesOf(s1, "--schema") = {}
    BY <1>1, <1>7, <1>9, <1>10, NoList DEF AddsTo
  <2>2. CASE p.schemas # {}
    <3>1. ValuesOf(s2, "--schema") = ValuesOf(s1, "--schema") \cup v
      BY <1>1, <1>6, <1>8, <2>2 DEF AddsTo
    <3> QED BY <2>1, <3>1
  <2>3. CASE p.schemas = {}
    <3>1. ValuesOf(s2, "--schema") = ValuesOf(s1, "--schema")
      BY <1>6, <1>8, <2>3 DEF AddsTo
    <3>2. v = {}
      BY <2>3 DEF v, JoinedSchemas
    <3> QED BY <2>1, <3>1, <3>2
  <2> QED BY <2>2, <2>3
<1>15. ValueOf(s4, "--all-schemas", FALSE) = FALSE
  BY <1>12
<1>15a. ValuesOf(s4, "--exclude-schema") = {}
  BY <1>1, <1>7, <1>8, <1>9, <1>10, NoList DEF AddsTo
<1>16. ValueOf(s4, "--full", FALSE) = p.full
  <2>1. ValueOf(s4, "--full", FALSE) = IF p.full THEN TRUE ELSE FALSE
    BY <1>12
  <2> QED BY <2>1, Zenon
<1>17. ValueOf(s4, "--out", "") = p.out
  BY <1>12
<1>18. /\ Parsed(s4).dsn = ValueOf(s4, "--dsn", None)
       /\ Parsed(s4).schemas = {Unquoted(t) : t \in ValuesOf(s4, "--schema")}
       /\ Parsed(s4).all = ValueOf(s4, "--all-schemas", FALSE)
       /\ Parsed(s4).exclude = ValuesOf(s4, "--exclude-schema")
       /\ Parsed(s4).full = ValueOf(s4, "--full", FALSE) /\ Parsed(s4).out = ValueOf(s4, "--out", "")
  BY Zenon DEF Parsed
<1>19. Parsed(Args(p)) = Parsed(s4)
  BY <1>3, Zenon
<1>20. Parsed(s4).schemas = ReadBack(p.schemas)
  BY <1>14, <1>18, Zenon DEF v, ReadBack
<1> QED BY <1>13, <1>15, <1>15a, <1>16, <1>17, <1>18, <1>19, <1>20, Zenon DEF Echoes

(* What is printed is what runs, when a shell leaves the names alone.       *)
LEMMA PrintedIsRun ==
    ASSUME NEW p, \A t \in JoinedSchemas(p.schemas) : Shell(t) = t
    PROVE  Command(p) = Args(p)
<1>1. {Shell(t) : t \in JoinedSchemas(p.schemas)} = JoinedSchemas(p.schemas)
  OBVIOUS
<1> QED BY <1>1, Zenon DEF Command, Args

------------------------------------------------------------------------------
(* The invariant of the guide, in parts.                                    *)
Servers == DOMAIN SchemasOf
Schemas == (UNION {ToSet(SchemasOf[s]) : s \in Servers}) \ {""}
Plans   == [fromEnv: BOOLEAN, dsn: Servers \cup {None}, schemas: SUBSET Schemas, full: BOOLEAN,
            out: {"", "out"}]

StateInv ==
    /\ invocations \in 0..MaxInvocations
    /\ interrupted \in BOOLEAN /\ guided \in BOOLEAN /\ announced \in BOOLEAN
    /\ exit \in {"none", "ok", "usage", "failure", "interrupted", "killed"}
    /\ exit # "none" => phase = "over"
    /\ env \in Environments

(* Every connection in sight names a server; one taken from the environment *)
(* is the environment's.                                                    *)
ServersInv ==
    /\ previous \in Servers \cup {None} /\ plan \in Plans
    /\ phase = "use-env" => env.dsn # None
    /\ plan.fromEnv => env.dsn # None /\ plan.dsn = env.dsn
    /\ line = NoLine /\ phase \in {"connect", "version"} \cup Guiding => plan.dsn \in Servers
    /\ phase = "options" => line # NoLine
    /\ line # NoLine => line.dsn \in Servers \cup {None}
    /\ line # NoLine /\ phase \in {"connect", "version"} \cup Running => target \in Servers

PromptInv ==
    /\ Proper(prompt)
    /\ phase = "scopes" => prompt.n = Len(SchemasOf[plan.dsn])
    /\ phase = "confirm" => ~prompt.multi

(* What was picked, printed and said yes to.                                *)
YesInv ==
    /\ line = NoLine => scope = EmptyScope /\ target = None
    /\ phase \in {"mode", "artifacts", "directory", "confirm"} => plan.schemas # {}
    /\ phase = "confirm" => shown = Command(plan)
    /\ guided /\ line # NoLine =>
          /\ prompt.cursor = 2 /\ plan.schemas # {}
          /\ shown = Command(plan) /\ line = Parsed(Args(plan))
          /\ plan.fromEnv => target \in {None, plan.dsn}
          /\ scope # EmptyScope =>
                /\ scope.excluded = {}
                /\ (\A n \in plan.schemas : Survives(n)) => scope.schemas = plan.schemas

GuideInv == StateInv /\ ServersInv /\ PromptInv /\ YesInv

------------------------------------------------------------------------------
LEMMA NoPlanIsAPlan == NoPlan \in Plans
BY DEF NoPlan, Plans

LEMMA NoPromptIsProper == Proper(NoPrompt) /\ ~NoPrompt.multi
BY FreshIsProper, 1 \in Nat \ {0} DEF NoPrompt

LEMMA InitGuide == Init => GuideInv
<1> SUFFICES ASSUME Init PROVE GuideInv
  OBVIOUS
<1>1. StateInv
  <2>1. invocations \in 0..MaxInvocations
    BY CommandAssumption DEF Init
  <2>2. /\ interrupted \in BOOLEAN /\ guided \in BOOLEAN /\ announced \in BOOLEAN
        /\ exit = "none" /\ env \in Environments
    BY DEF Init
  <2> QED BY <2>1, <2>2 DEF StateInv
<1>2. ServersInv
  BY NoPlanIsAPlan DEF Init, ServersInv, NoPlan, Guiding, Running
<1>3. PromptInv
  BY NoPromptIsProper DEF Init, PromptInv
<1>4. YesInv
  BY DEF Init, YesInv
<1> QED BY <1>1, <1>2, <1>3, <1>4 DEF GuideInv

LEMMA StateSteps == StateInv /\ [Next]_vars => StateInv'
<1> SUFFICES ASSUME StateInv, [Next]_vars PROVE StateInv'
  OBVIOUS
<1> USE DEF StateInv, world
<1>1. CASE Invoke \/ InvokeGuide
  <2>1. invocations' \in 0..MaxInvocations
    BY <1>1, CommandAssumption DEF Invoke, InvokeGuide, Started
  <2>2. /\ interrupted' = FALSE /\ guided' \in BOOLEAN /\ announced' = FALSE /\ exit' = "none" /\ env' = env
    BY <1>1 DEF Invoke, InvokeGuide, Started
  <2> QED BY <2>1, <2>2
<1>2. CASE GuideRefused \/ Press \/ Cancel
  BY <1>2 DEF GuideRefused, Press, Cancel, End, guide, run, files
<1>3. CASE Answer
  BY <1>3 DEF Answer, AnswerEnv, AnswerConnection, AnswerAgain, AnswerScopes, AnswerMode, AnswerArtifacts,
              AnswerDirectory, AnswerConfirm, Asking, Ask, AskConnection, Compose, End, guide, files
<1>4. CASE Open \/ checkServerVersion \/ SummarizeSchemas
  BY <1>4 DEF Open, checkServerVersion, SummarizeSchemas, OpenFailed, Ask, End, run, files
<1>5. CASE CheckOptions \/ ResolveScope \/ Discover
  BY <1>5 DEF CheckOptions, ResolveScope, Discover, End, guide, files
<1>6. CASE WriteArtifact \/ Written \/ Report
  BY <1>6 DEF WriteArtifact, Written, Report, End, guide, run, files
<1>7. CASE Interrupt \/ Crash \/ UNCHANGED vars
  BY <1>7 DEF Interrupt, Crash, vars, guide, run, files
<1> QED BY <1>1, <1>2, <1>3, <1>4, <1>5, <1>6, <1>7 DEF Next, Step

------------------------------------------------------------------------------
LEMMA PlanFields ==
    ASSUME NEW p \in Plans
    PROVE  /\ p.fromEnv \in BOOLEAN /\ p.dsn \in Servers \cup {None} /\ p.full \in BOOLEAN
           /\ p.schemas \in SUBSET Schemas /\ p.out \in {"", "out"}
BY DEF Plans

LEMMA PlanWithConnection ==
    ASSUME NEW p \in Plans, NEW d \in Servers \cup {None}, NEW e \in BOOLEAN
    PROVE  /\ [p EXCEPT !.dsn = d, !.fromEnv = e] \in Plans
           /\ [p EXCEPT !.dsn = d, !.fromEnv = e].dsn = d
           /\ [p EXCEPT !.dsn = d, !.fromEnv = e].fromEnv = e
BY DEF Plans

LEMMA PlanWithSchemas ==
    ASSUME NEW p \in Plans, NEW v \in SUBSET Schemas
    PROVE  /\ [p EXCEPT !.schemas = v] \in Plans /\ [p EXCEPT !.schemas = v].schemas = v
           /\ [p EXCEPT !.schemas = v].dsn = p.dsn /\ [p EXCEPT !.schemas = v].fromEnv = p.fromEnv
BY DEF Plans

LEMMA PlanWithMode ==
    ASSUME NEW p \in Plans, NEW v \in BOOLEAN
    PROVE  /\ [p EXCEPT !.full = v] \in Plans /\ [p EXCEPT !.full = v].schemas = p.schemas
           /\ [p EXCEPT !.full = v].dsn = p.dsn /\ [p EXCEPT !.full = v].fromEnv = p.fromEnv
BY DEF Plans

LEMMA PlanWithDirectory ==
    ASSUME NEW p \in Plans, NEW v \in {"", "out"}
    PROVE  /\ [p EXCEPT !.out = v] \in Plans /\ [p EXCEPT !.out = v].schemas = p.schemas
           /\ [p EXCEPT !.out = v].dsn = p.dsn /\ [p EXCEPT !.out = v].fromEnv = p.fromEnv
BY DEF Plans

(* A line that was typed names a server or nothing.                         *)
LEMMA TypedNamesAServer ==
    ASSUME NEW l \in Lines
    PROVE  Parsed(l).dsn \in Servers \cup {None}
<1>1. l \in Seq(ToSet(l))
  BY ServersAssumption
<1>2. Len(l) \in Nat /\ DOMAIN l = 1..Len(l)
  BY <1>1
<1>3. ValueOf(l, "--dsn", None) \in Servers \cup {None}
  <2>1. \/ ValueOf(l, "--dsn", None) = None
        \/ \E i \in 1..Len(l) : l[i][1] = "--dsn" /\ ValueOf(l, "--dsn", None) = l[i][2]
    BY <1>2, LastValue
  <2> QED BY <1>2, <2>1, ServersAssumption DEF Servers
<1> QED BY <1>3 DEF Parsed

(* What the schemas picked are.                                             *)
LEMMA PickedSchemas ==
    ASSUME ServersInv, PromptInv, phase = "scopes", plan.dsn \in Servers
    PROVE  LET picked == {SchemasOf[plan.dsn][i] : i \in chosen(prompt)}
           IN  picked # {} /\ picked \in SUBSET Schemas
<1> DEFINE s == SchemasOf[plan.dsn]
<1>1. s \in Seq(ToSet(s) \ {""})
  BY ServersAssumption DEF Servers
<1>2. chosen(prompt) # {} /\ chosen(prompt) \subseteq 1..Len(s)
  BY ChosenIs DEF PromptInv
<1> DEFINE N == ToSet(s) \ {""}
<1>3. \A i \in 1..Len(s) : s[i] \in N
  <2>1. s \in Seq(N)
    BY <1>1
  <2> HIDE DEF s, N
  <2> QED BY <2>1
<1>4. N \subseteq Schemas
  BY Zenon DEF Schemas
<1> HIDE DEF s, N
<1>5. {s[i] : i \in chosen(prompt)} # {} /\ {s[i] : i \in chosen(prompt)} \in SUBSET Schemas
  BY <1>2, <1>3, <1>4
<1> QED BY <1>5 DEF s

LEMMA ServerSteps == PoolInv /\ GuideInv /\ [Next]_vars => ServersInv'
<1> SUFFICES ASSUME PoolInv, GuideInv, [Next]_vars PROVE ServersInv'
  OBVIOUS
<1>0. /\ env.dsn \in Servers \cup {None} /\ env.libpq \in Servers \cup {None}
      /\ None \notin Servers /\ Default \in Servers /\ Answers \subseteq Servers
  BY ServersAssumption, CommandAssumption DEF GuideInv, StateInv, Servers
<1>a. env' = env
  BY DEF Next, Invoke, InvokeGuide, Started, Press, Cancel, Answer, AnswerEnv, AnswerConnection, AnswerAgain,
         AnswerScopes, AnswerMode, AnswerArtifacts, AnswerDirectory, AnswerConfirm, Asking, Step,
         GuideRefused, Open, checkServerVersion, SummarizeSchemas, CheckOptions, ResolveScope, Discover,
         WriteArtifact, Written, Report, Interrupt, Crash, vars, world
<1>b. /\ plan.fromEnv \in BOOLEAN /\ plan.dsn \in Servers \cup {None} /\ plan \in Plans
      /\ plan.full \in BOOLEAN /\ previous \in Servers \cup {None}
  BY PlanFields DEF GuideInv, ServersInv
<1>c. NoPlan \in Plans /\ NoPlan.fromEnv = FALSE /\ NoPlan.dsn = None
  BY NoPlanIsAPlan DEF NoPlan
<1>1. CASE Invoke
  <2>1. PICK l \in Lines : line' = Parsed(l)
    BY <1>1 DEF Invoke
  <2>2. line'.dsn \in Servers \cup {None} /\ line' # NoLine
    BY <2>1, TypedNamesAServer, ParsedIsALine
  <2>3. previous' = None /\ plan' = NoPlan /\ phase' = "options"
    BY <1>1 DEF Invoke, Started
  <2> QED BY <1>a, <1>c, <2>2, <2>3 DEF ServersInv, Guiding, Running
<1>2. CASE InvokeGuide
  <2>1. /\ previous' = None /\ plan' = NoPlan /\ line' = NoLine
        /\ phase' \in {"refused", "use-env", "connection"} /\ (phase' = "use-env" => env.dsn # None)
    BY <1>2 DEF InvokeGuide, Started, AskConnection
  <2> QED BY <1>a, <1>c, <2>1 DEF ServersInv, Guiding, Running
<1>3. CASE phase' = "over" /\ UNCHANGED <<previous, plan, line>>
  BY <1>a, <1>3 DEF GuideInv, ServersInv, Guiding, Running
<1>4. CASE UNCHANGED <<phase, previous, plan, line, target>>
  BY <1>a, <1>4 DEF GuideInv, ServersInv, Guiding, Running
<1>5. CASE AnswerEnv
  <2>1. phase = "use-env" /\ line' = line /\ previous' = previous /\ phase' \in {"connect", "connection"}
        /\ line = NoLine
    BY <1>5 DEF AnswerEnv, Asking, run, PoolInv
  <2>2. CASE plan' = [plan EXCEPT !.dsn = env.dsn, !.fromEnv = TRUE]
    <3>1. plan' \in Plans /\ plan'.dsn = env.dsn /\ env.dsn # None
      BY <1>0, <1>b, <2>1, <2>2, PlanWithConnection DEF GuideInv, ServersInv
    <3> QED BY <1>0, <1>a, <1>b, <2>1, <3>1 DEF ServersInv, Guiding, Running
  <2>3. CASE plan' = plan /\ phase' = "connection"
    BY <1>a, <2>1, <2>3 DEF GuideInv, ServersInv, Guiding, Running
  <2> QED BY <1>5, <2>2, <2>3 DEF AnswerEnv
<1>6. CASE AnswerConnection
  <2>1. PICK typed \in Answers \cup {IF previous = None THEN Default ELSE previous} :
          previous' = typed /\ plan' = [plan EXCEPT !.dsn = typed, !.fromEnv = FALSE]
    BY <1>6 DEF AnswerConnection
  <2>2. typed \in Servers
    BY <1>0, <1>b, <2>1
  <2>3. plan' \in Plans /\ plan'.dsn = typed /\ plan'.fromEnv = FALSE
    BY <1>b, <2>1, <2>2, PlanWithConnection
  <2>4. line' = line /\ line = NoLine /\ phase' = "connect"
    BY <1>6 DEF AnswerConnection, Asking, run, PoolInv
  <2> QED BY <1>a, <2>1, <2>2, <2>3, <2>4 DEF ServersInv, Guiding, Running
<1>7. CASE AnswerAgain
  <2>1. /\ UNCHANGED <<previous, plan, line>> /\ phase' \in {"use-env", "connection", "over"}
        /\ (phase' = "use-env" => env.dsn # None) /\ line = NoLine
    BY <1>7 DEF AnswerAgain, Asking, AskConnection, End, run, PoolInv
  <2> QED BY <1>a, <2>1 DEF GuideInv, ServersInv, Guiding, Running
<1>8. CASE AnswerScopes \/ AnswerMode \/ AnswerArtifacts \/ AnswerDirectory
  <2>1. /\ UNCHANGED <<previous, line>> /\ line = NoLine /\ plan.dsn \in Servers
        /\ phase' \in {"mode", "artifacts", "directory", "confirm"}
    BY <1>8 DEF AnswerScopes, AnswerMode, AnswerArtifacts, AnswerDirectory, Asking, Ask, Compose, run, PoolInv,
                Guiding, GuideInv, ServersInv
  <2>2. plan' \in Plans /\ plan'.dsn = plan.dsn /\ plan'.fromEnv = plan.fromEnv
    <3>1. CASE AnswerScopes
      <4>1. phase = "scopes" /\ plan' = [plan EXCEPT !.schemas = {SchemasOf[plan.dsn][i] : i \in chosen(prompt)}]
        BY <3>1 DEF AnswerScopes, Asking
      <4>2. {SchemasOf[plan.dsn][i] : i \in chosen(prompt)} \in SUBSET Schemas
        BY <2>1, <4>1, PickedSchemas DEF GuideInv
      <4> QED BY <1>b, <4>1, <4>2, PlanWithSchemas
    <3>2. CASE AnswerMode
      <4>1. plan' = [plan EXCEPT !.full = (chosen(prompt) = {2})]
        BY <3>2 DEF AnswerMode
      <4>2. (chosen(prompt) = {2}) \in BOOLEAN
        OBVIOUS
      <4> QED BY <1>b, <4>1, <4>2, PlanWithMode
    <3>3. CASE AnswerArtifacts
      BY <1>b, <3>3 DEF AnswerArtifacts, Compose
    <3>4. CASE AnswerDirectory
      BY <1>b, <3>4, PlanWithDirectory DEF AnswerDirectory, Compose
    <3> QED BY <1>8, <3>1, <3>2, <3>3, <3>4
  <2> QED BY <1>a, <2>1, <2>2 DEF GuideInv, ServersInv, Guiding, Running
<1>9. CASE AnswerConfirm
  <2>1. /\ UNCHANGED <<previous, plan>> /\ phase' \in {"options", "over"}
        /\ line' = line \/ line' = Parsed(Args(plan))
        /\ phase' = "options" => line' # NoLine
    BY ParsedIsALine, <1>9 DEF AnswerConfirm, End, guide
  <2>2. Parsed(Args(plan)).dsn \in Servers \cup {None}
    <3>1. Echoes(Parsed(Args(plan)), plan)
      BY <1>b, ParsedCommand
    <3>2. Parsed(Args(plan)).dsn = IF plan.fromEnv THEN None ELSE plan.dsn
      BY <3>1, Zenon DEF Echoes
    <3> QED BY <1>b, <3>2
  <2> QED BY <1>a, <2>1, <2>2 DEF GuideInv, ServersInv, Guiding, Running
<1>10. CASE Open \/ checkServerVersion \/ SummarizeSchemas
  <2>1. /\ UNCHANGED <<previous, plan, line, target>>
        /\ phase \in {"connect", "version", "schemas"}
        /\ phase' \in {"version", "again", "over"} \cup (IF line = NoLine THEN {"schemas", "scopes"} ELSE {"scope"})
    BY <1>10 DEF Open, checkServerVersion, SummarizeSchemas, OpenFailed, Holder, Ask, End, run, PoolInv, Guiding
  <2> QED BY <1>a, <2>1 DEF GuideInv, ServersInv, Guiding, Running, PoolInv
<1>11. CASE CheckOptions
  <2>1. /\ UNCHANGED <<previous, plan, line>>
        /\ phase' = "connect" => target' = ResolveDSN(line.dsn) /\ target' # None
        /\ phase' \in {"connect", "over"} /\ phase = "options"
    BY <1>11 DEF CheckOptions, End, guide
  <2>2. CASE line = NoLine
    BY <2>1, <2>2 DEF GuideInv, ServersInv
  <2>3. CASE line # NoLine
    <3>1. ResolveDSN(line.dsn) \in Servers \cup {None}
      BY <1>0, <2>3 DEF ResolveDSN, GuideInv, ServersInv
    <3> QED BY <1>a, <2>1, <2>3, <3>1 DEF GuideInv, ServersInv, Guiding, Running
  <2> QED BY <2>2, <2>3
<1>12. CASE ResolveScope \/ Discover \/ WriteArtifact \/ Written
  <2>1. /\ UNCHANGED <<previous, plan, line, target>> /\ phase \in Running /\ phase' \in Running \cup {"over"}
    BY <1>12 DEF ResolveScope, Discover, WriteArtifact, Written, End, guide, run, Running
  <2> QED BY <1>a, <2>1 DEF GuideInv, ServersInv, Guiding, Running
<1> QED
  BY <1>1, <1>2, <1>3, <1>4, <1>5, <1>6, <1>7, <1>8, <1>9, <1>10, <1>11, <1>12
     DEF Next, Answer, Step, GuideRefused, Press, Cancel, Report, Interrupt, Crash, End, vars, guide, run

------------------------------------------------------------------------------
LEMMA PromptSteps == PoolInv /\ GuideInv /\ [Next]_vars => PromptInv'
<1> SUFFICES ASSUME PoolInv, GuideInv, [Next]_vars PROVE PromptInv'
  OBVIOUS
<1>0. \A n \in Nat \ {0} : \A multi \in BOOLEAN :
        /\ Proper(chooser(n, multi)) /\ chooser(n, multi).multi = multi /\ chooser(n, multi).n = n
  BY FreshIsProper
<1>a. Proper(NoPrompt)
  BY NoPromptIsProper
<1>b. Proper(chooser(2, FALSE)) /\ ~chooser(2, FALSE).multi
  BY <1>0, 2 \in Nat \ {0}
<1>1. CASE Invoke
  BY <1>1, <1>a DEF Invoke, Started, PromptInv
<1>2. CASE InvokeGuide \/ AnswerAgain
  BY <1>2, <1>a, <1>b DEF InvokeGuide, AnswerAgain, Asking, AskConnection, End, PromptInv, GuideInv
<1>3. CASE AnswerEnv
  BY <1>3, <1>a DEF AnswerEnv, Asking, PromptInv, GuideInv
<1>4. CASE AnswerConnection
  BY <1>4 DEF AnswerConnection, Asking, PromptInv, GuideInv
<1>5. CASE AnswerScopes \/ AnswerMode
  BY <1>5, <1>b DEF AnswerScopes, AnswerMode, Ask, PromptInv
<1>6. CASE AnswerArtifacts \/ AnswerDirectory
  BY <1>6, <1>a, <1>b DEF AnswerArtifacts, AnswerDirectory, Compose, Ask, PromptInv
<1>7. CASE AnswerConfirm
  BY <1>7 DEF AnswerConfirm, End, guide, PromptInv, GuideInv
<1>8. CASE Press
  <2>1. PICK key \in Keys : prompt' = Update(prompt, key)
    BY <1>8 DEF Press
  <2>2. Proper(prompt') /\ prompt'.multi = prompt.multi /\ prompt'.n = prompt.n
    BY <2>1, KeysKeepProper DEF GuideInv, PromptInv
  <2> QED BY <1>8, <2>2 DEF Press, GuideInv, PromptInv
<1>9. CASE Open \/ checkServerVersion
  BY <1>9, <1>b DEF Open, checkServerVersion, OpenFailed, Ask, End, PromptInv, GuideInv
<1>10. CASE SummarizeSchemas
  <2>1. CASE phase' = "over" /\ prompt' = prompt
    BY <2>1 DEF PromptInv, GuideInv
  <2>2. CASE SchemasOf[plan.dsn] # <<>> /\ Ask("scopes", Len(SchemasOf[plan.dsn]), TRUE)
    <3>1. phase = "schemas" /\ plan' = plan
      BY <1>10 DEF SummarizeSchemas
    <3>2. plan.dsn \in Servers
      BY <3>1 DEF GuideInv, ServersInv, PoolInv, Guiding
    <3> DEFINE n == Len(SchemasOf[plan.dsn])
    <3>3. n \in Nat \ {0}
      <4> DEFINE s == SchemasOf[plan.dsn]
                 N == ToSet(s) \ {""}
      <4>1. s \in Seq(N)
        BY <3>2, ServersAssumption DEF Servers
      <4>2. s # <<>>
        BY <2>2
      <4> HIDE DEF s, N
      <4>3. Len(s) \in Nat \ {0}
        BY <4>1, <4>2
      <4> QED BY <4>3 DEF s
    <3>4. prompt' = chooser(n, TRUE) /\ phase' = "scopes"
      BY <2>2 DEF Ask
    <3> HIDE DEF n
    <3>5. Proper(prompt') /\ prompt'.n = n
      BY <1>0, <3>3, <3>4
    <3> QED BY <3>1, <3>4, <3>5 DEF PromptInv, n
  <2> QED BY <1>10, <2>1, <2>2 DEF SummarizeSchemas, End
<1>11. CASE GuideRefused \/ Cancel \/ Crash \/ UNCHANGED vars \/ Interrupt
  BY <1>11 DEF GuideRefused, Cancel, Crash, Interrupt, vars, guide, End, PromptInv, GuideInv
<1>12. CASE CheckOptions \/ ResolveScope \/ Discover
  BY <1>12 DEF CheckOptions, ResolveScope, Discover, guide, End, PromptInv, GuideInv
<1>13. CASE WriteArtifact \/ Written \/ Report
  BY <1>13 DEF WriteArtifact, Written, Report, guide, End, PromptInv, GuideInv
<1> QED
  BY <1>1, <1>2, <1>3, <1>4, <1>5, <1>6, <1>7, <1>8, <1>9, <1>10, <1>11, <1>12, <1>13
     DEF Next, Answer, Step

------------------------------------------------------------------------------
LEMMA ScopeFields ==
    ASSUME NEW r, NEW a, NEW b, NEW c, NEW d,
           r = [schemas |-> a, excluded |-> b, notAnalyzed |-> c, total |-> d]
    PROVE  r.schemas = a /\ r.excluded = b
OBVIOUS

(* Names that survive are read back as they were picked.                    *)
LEMMA SurvivorsAreReadBack ==
    ASSUME NEW names, \A n \in names : Survives(n)
    PROVE  ReadBack(names) = names
<1>1. JoinedSchemas(names) = names
  <2>1. \A n \in names : Parts(n) = {n}
    BY DEF Survives
  <2>2. {Parts(n) : n \in names} = {{n} : n \in names}
    BY <2>1
  <2>3. UNION {{n} : n \in names} = names
    OBVIOUS
  <2> QED BY <2>2, <2>3, Zenon DEF JoinedSchemas
<1>2. \A n \in names : Unquoted(n) = n
  BY DEF Survives
<1>3. {Unquoted(n) : n \in names} = names
  BY <1>2
<1> QED BY <1>1, <1>3, Zenon DEF ReadBack

(* A command without exclusions excludes nothing, and resolves to the       *)
(* schemas it names when none of them is trimmed.                           *)
LEMMA NothingExcluded ==
    ASSUME NEW l, NEW visible, l.exclude = {}
    PROVE  /\ resolveScope(visible, l).excluded = {}
           /\ resolveScope(visible, l).schemas = requested(visible, l) \/ resolveScope(visible, l) = EmptyScope
<1> DEFINE asked == requested(visible, l)
           none  == {s \in asked : matchesSchema(l.exclude, s)}
<1>1. none = {}
  BY DEF matchesSchema
<1>2. resolveScope(visible, l) =
        IF asked = none THEN EmptyScope
        ELSE [schemas |-> asked \ none, excluded |-> none, notAnalyzed |-> visible \ asked,
              total |-> Cardinality(visible)]
  BY Zenon DEF resolveScope
<1>3. asked \ none = asked
  BY <1>1
<1> HIDE DEF asked, none
<1>4. CASE asked = none
  BY <1>2, <1>4 DEF EmptyScope
<1>5. CASE asked # none
  <2>1. resolveScope(visible, l).schemas = asked \ none /\ resolveScope(visible, l).excluded = none
    BY <1>2, <1>5, ScopeFields, Zenon
  <2> QED BY <1>1, <1>3, <2>1 DEF asked
<1> QED BY <1>4, <1>5

LEMMA ResolvesToThePlan ==
    ASSUME NEW l, NEW visible, l.all = FALSE, l.schemas # {}, "" \notin l.schemas,
           \A n \in l.schemas : TrimSpace(n) = n
    PROVE  requested(visible, l) = l.schemas
<1>1. SortedSchemas(l.schemas) = l.schemas
  BY DEF SortedSchemas
<1> QED BY <1>1 DEF requested

LEMMA YesSteps == PoolInv /\ GuideInv /\ [Next]_vars => YesInv'
<1> SUFFICES ASSUME PoolInv, GuideInv, [Next]_vars PROVE YesInv'
  OBVIOUS
<1>a. plan \in Plans /\ plan.full \in BOOLEAN /\ plan.dsn \in Servers \cup {None} /\ plan.schemas \in SUBSET Schemas
  BY PlanFields DEF GuideInv, ServersInv
<1>1. CASE Invoke \/ InvokeGuide
  <2>1. /\ scope' = EmptyScope /\ target' = None
        /\ phase' \notin {"mode", "artifacts", "directory", "confirm"}
        /\ ~guided' \/ line' = NoLine
    BY <1>1 DEF Invoke, InvokeGuide, Started, AskConnection
  <2> QED BY <2>1 DEF YesInv
<1>2. CASE AnswerEnv \/ AnswerConnection \/ AnswerAgain
  <2>1. /\ line' = line /\ line = NoLine /\ scope' = scope /\ target' = target
        /\ phase' \notin {"mode", "artifacts", "directory", "confirm"}
    BY <1>2 DEF AnswerEnv, AnswerConnection, AnswerAgain, Asking, AskConnection, End, run, PoolInv
  <2> QED BY <2>1 DEF YesInv, GuideInv
<1>3. CASE AnswerScopes \/ AnswerMode \/ AnswerArtifacts \/ AnswerDirectory
  <2>1. /\ line' = line /\ line = NoLine /\ scope' = scope /\ target' = target
    BY <1>3 DEF AnswerScopes, AnswerMode, AnswerArtifacts, AnswerDirectory, Asking, run, PoolInv, Guiding
  <2>2. plan'.schemas # {}
    <3>1. CASE AnswerScopes
      <4>1. phase = "scopes" /\ plan' = [plan EXCEPT !.schemas = {SchemasOf[plan.dsn][i] : i \in chosen(prompt)}]
        BY <3>1 DEF AnswerScopes, Asking
      <4>2. plan.dsn \in Servers
        BY <2>1, <4>1 DEF GuideInv, ServersInv, Guiding
      <4>3. /\ {SchemasOf[plan.dsn][i] : i \in chosen(prompt)} # {}
            /\ {SchemasOf[plan.dsn][i] : i \in chosen(prompt)} \in SUBSET Schemas
        BY <4>1, <4>2, PickedSchemas DEF GuideInv
      <4> QED BY <1>a, <4>1, <4>3, PlanWithSchemas
    <3>2. CASE AnswerMode
      <4>1. plan' = [plan EXCEPT !.full = (chosen(prompt) = {2})] /\ phase = "mode"
        BY <3>2 DEF AnswerMode, Asking
      <4>2. (chosen(prompt) = {2}) \in BOOLEAN
        OBVIOUS
      <4> QED BY <1>a, <4>1, <4>2, PlanWithMode DEF GuideInv, YesInv
    <3>3. CASE AnswerArtifacts
      BY <3>3 DEF AnswerArtifacts, Asking, Compose, GuideInv, YesInv
    <3>4. CASE AnswerDirectory
      <4>1. plan' = [plan EXCEPT !.out = "out"] /\ phase = "directory"
        BY <3>4 DEF AnswerDirectory, Asking, Compose
      <4> QED BY <1>a, <4>1, PlanWithDirectory DEF GuideInv, YesInv
    <3> QED BY <1>3, <3>1, <3>2, <3>3, <3>4
  <2>3. phase' = "confirm" => shown' = Command(plan')
    BY <1>3 DEF AnswerScopes, AnswerMode, AnswerArtifacts, AnswerDirectory, Compose, Ask
  <2> QED BY <2>1, <2>2, <2>3 DEF YesInv, GuideInv
<1>4. CASE AnswerConfirm
  <2>1. UNCHANGED <<guided, plan, prompt, shown, scope, target>> /\ phase = "confirm" /\ line = NoLine
    BY <1>4 DEF AnswerConfirm, guide, PoolInv
  <2>2. CASE phase' = "over" /\ line' = line
    BY <2>1, <2>2 DEF YesInv, GuideInv
  <2>3. CASE phase' = "options" /\ chosen(prompt) = {2} /\ line' = Parsed(Args(plan))
    <3>1. prompt.cursor = 2
      BY <2>1, <2>3, ChosenIs DEF GuideInv, PromptInv
    <3>2. shown = Command(plan) /\ plan.schemas # {} /\ scope = EmptyScope /\ target = None
      BY <2>1 DEF GuideInv, YesInv
    <3>3. shown' = Command(plan') /\ line' = Parsed(Args(plan')) /\ line' # NoLine
      <4>1. shown' = shown /\ plan' = plan
        BY <2>1
      <4> QED BY <2>3, <3>2, <4>1, ParsedIsALine
    <3> QED BY <2>1, <2>3, <3>1, <3>2, <3>3 DEF YesInv
  <2> QED BY <1>4, <2>2, <2>3 DEF AnswerConfirm, End
<1>5. CASE CheckOptions
  <2>1. UNCHANGED <<guided, plan, prompt, shown, scope, line>> /\ phase = "options" /\ line # NoLine
    BY <1>5 DEF CheckOptions, guide, GuideInv, ServersInv
  <2>2. phase' \in {"connect", "over"} /\ target' \in {target, ResolveDSN(line.dsn)}
    BY <1>5 DEF CheckOptions, End
  <2>3. plan.fromEnv => ResolveDSN(line.dsn) = plan.dsn
    BY DEF ResolveDSN, GuideInv, ServersInv
  <2> QED BY <2>1, <2>2, <2>3 DEF YesInv, GuideInv
<1>6. CASE ResolveScope
  <2>1. UNCHANGED <<guided, plan, prompt, shown, line, target>> /\ phase = "scope" /\ line # NoLine
        /\ phase' \in {"discover", "over"}
    BY <1>6 DEF ResolveScope, guide, End, PoolInv, Running
  <2>2. CASE scope' = scope
    BY <2>1, <2>2 DEF YesInv, GuideInv
  <2>3. CASE scope' = Resolved
    <3>1. guided => line = Parsed(Args(plan)) /\ plan.schemas # {}
      BY <2>1 DEF GuideInv, YesInv
    <3>2. Echoes(Parsed(Args(plan)), plan)
      BY <1>a, ParsedCommand
    <3>3. guided => line.all = FALSE /\ line.exclude = {} /\ line.schemas = ReadBack(plan.schemas)
      BY <3>1, <3>2 DEF Echoes
    <3> DEFINE visible == ToSet(SchemasOf[target])
    <3>4. scope' = resolveScope(visible, line)
      BY <2>3 DEF Resolved
    <3>5. guided /\ scope' # EmptyScope => scope'.excluded = {} /\ scope'.schemas = requested(visible, line)
      BY <3>3, <3>4, NothingExcluded
    <3>6. ASSUME guided, \A n \in plan.schemas : Survives(n)
          PROVE  requested(visible, line) = plan.schemas
      <4>1. line.schemas = plan.schemas /\ line.all = FALSE
        BY <3>3, <3>6, SurvivorsAreReadBack
      <4>2. \A n \in line.schemas : TrimSpace(n) = n
        BY <3>6, <4>1 DEF Survives
      <4>3. "" \notin line.schemas /\ line.schemas # {}
        BY <1>a, <3>1, <3>6, <4>1 DEF Schemas
      <4> QED BY <4>1, <4>2, <4>3, ResolvesToThePlan
    <3> HIDE DEF visible
    <3>7. guided /\ scope' # EmptyScope =>
            /\ scope'.excluded = {}
            /\ (\A n \in plan.schemas : Survives(n)) => scope'.schemas = plan.schemas
      BY <3>5, <3>6
    <3> QED BY <2>1, <3>7 DEF YesInv, GuideInv
  <2> QED BY <1>6, <2>2, <2>3 DEF ResolveScope
<1>7. CASE Open \/ checkServerVersion \/ SummarizeSchemas
  <2>1. UNCHANGED <<guided, plan, shown, line, target, scope>>
        /\ phase' \notin {"mode", "artifacts", "directory", "confirm"}
    BY <1>7 DEF Open, checkServerVersion, SummarizeSchemas, OpenFailed, Ask, End, run
  <2>2. line # NoLine => prompt' = prompt
    BY <1>7 DEF Open, checkServerVersion, SummarizeSchemas, OpenFailed, Holder, PoolInv, Guiding
  <2> QED BY <2>1, <2>2 DEF YesInv, GuideInv
<1>8. CASE Press
  <2>1. UNCHANGED <<phase, plan, shown, line, target, scope>> /\ phase \in Choosing
    BY <1>8 DEF Press, run
  <2>2. line = NoLine
    BY <2>1 DEF Choosing, PoolInv, Guiding
  <2> QED BY <2>1, <2>2 DEF YesInv, GuideInv
<1>9. CASE UNCHANGED <<guided, plan, prompt, shown, line, target, scope>> /\ phase' \in {phase, "over", "write", "report"}
  BY <1>9 DEF YesInv, GuideInv
<1>10. CASE GuideRefused \/ Cancel \/ Interrupt \/ Crash \/ UNCHANGED vars
  BY <1>9, <1>10 DEF GuideRefused, Cancel, Interrupt, Crash, End, vars, guide, run
<1>11. CASE Discover \/ WriteArtifact \/ Written \/ Report
  BY <1>9, <1>11 DEF Discover, WriteArtifact, Written, Report, End, guide, run
<1> QED
  BY <1>1, <1>2, <1>3, <1>4, <1>5, <1>6, <1>7, <1>8, <1>10, <1>11 DEF Next, Answer, Step

LEMMA GuideSteps == PoolInv /\ GuideInv /\ [Next]_vars => GuideInv'
<1> SUFFICES ASSUME PoolInv, GuideInv, [Next]_vars PROVE GuideInv'
  OBVIOUS
<1> QED BY StateSteps, ServerSteps, PromptSteps, YesSteps DEF GuideInv

LEMMA GuideAsks == GuideInv => NothingRunsUnconfirmed
<1> SUFFICES ASSUME GuideInv PROVE NothingRunsUnconfirmed
  OBVIOUS
<1>1. prompt.cursor \in slice(prompt)
  BY CursorIsDrawn DEF GuideInv, PromptInv
<1>2. ASSUME guided, line # NoLine
      PROVE  /\ prompt.cursor = 2
             /\ line.full = plan.full /\ line.out = plan.out
             /\ scope # EmptyScope =>
                   /\ scope.excluded = {}
                   /\ (\A n \in plan.schemas : Survives(n)) => scope.schemas = plan.schemas
             /\ (\A t \in JoinedSchemas(plan.schemas) : Shell(t) = t) => line = Parsed(shown)
             /\ plan.fromEnv => target \in {None, plan.dsn}
  <2>1. plan.full \in BOOLEAN
    BY PlanFields DEF GuideInv, ServersInv
  <2>2. Echoes(Parsed(Args(plan)), plan)
    BY <2>1, ParsedCommand
  <2>3. line = Parsed(Args(plan)) /\ shown = Command(plan)
    BY <1>2 DEF GuideInv, YesInv
  <2>4. line.full = plan.full /\ line.out = plan.out
    BY <2>2, <2>3 DEF Echoes
  <2>5. (\A t \in JoinedSchemas(plan.schemas) : Shell(t) = t) => line = Parsed(shown)
    BY <2>3, PrintedIsRun
  <2> QED BY <1>2, <2>4, <2>5 DEF GuideInv, YesInv
<1> QED BY <1>1, <1>2 DEF NothingRunsUnconfirmed

LEMMA GuideTypes == PoolInv /\ FilesInv /\ GuideInv => TypeOK
<1> SUFFICES ASSUME PoolInv, FilesInv, GuideInv PROVE TypeOK
  OBVIOUS
<1>1. phase \in Phases
  BY DEF PoolInv, Unconnected, Guiding, Running, Phases, Choosing, Typing
<1>2. pools \subseteq [holder: {"setup", "discover"}, server: DOMAIN SchemasOf]
  <2>1. \/ pools = {}
        \/ pools = {SetupPool} /\ plan.dsn \in Servers
        \/ pools = {RunPool} /\ target \in Servers
    BY DEF PoolInv, Unconnected, Guiding, Running, GuideInv, ServersInv
  <2>2. CASE pools = {}
    BY <2>2
  <2>3. CASE pools = {SetupPool} /\ plan.dsn \in Servers
    BY <2>3 DEF SetupPool, Servers
  <2>4. CASE pools = {RunPool} /\ target \in Servers
    BY <2>4 DEF RunPool, Servers
  <2> QED BY <2>1, <2>2, <2>3, <2>4
<1>3. prompt.cursor \in 1..prompt.n /\ prompt.picked \subseteq 1..prompt.n
  BY DEF GuideInv, PromptInv, Proper
<1>4. chosen(prompt) # {} /\ (prompt.multi \/ Cardinality(chosen(prompt)) = 1)
  BY ChosenIs DEF GuideInv, PromptInv
<1>5. written \in 0..Len(DiscoverFiles)
  BY TwoFiles DEF FilesInv, FilesShape
<1>6. StateInv
  BY DEF GuideInv
<1> QED BY <1>1, <1>2, <1>3, <1>4, <1>5, <1>6 DEF TypeOK, StateInv

(* Whatever is pressed, whichever connection fails and is asked for again,  *)
(* whatever the environment holds and however the schemas are named, the    *)
(* guide's run starts on a yes the cursor had to be moved to, in the mode   *)
(* and the directory that were answered.  It reads the schemas that were    *)
(* picked if their names survive being joined and read back, and it is the  *)
(* command that was printed if they mean nothing to a shell.                *)
THEOREM NothingRunsUnasked == Spec => []NothingRunsUnconfirmed
<1>1. Init => PoolInv /\ GuideInv
  BY InitPools, InitGuide
<1>2. PoolInv /\ GuideInv /\ [Next]_vars => (PoolInv /\ GuideInv)'
  BY PoolSteps, GuideSteps
<1>3. GuideInv => NothingRunsUnconfirmed
  BY GuideAsks
<1> QED BY <1>1, <1>2, <1>3, PTL DEF Spec

(* The state of a command is well formed: each pool belongs to somebody and *)
(* is open to a known server, the cursor is on the list, and a question has *)
(* as many answers as it asks for.                                          *)
THEOREM TypesOfTheCommand == Spec => []TypeOK
<1>1. Init => PoolInv /\ FilesInv /\ GuideInv
  BY InitPools, InitFiles, InitGuide
<1>2. PoolInv /\ FilesInv /\ GuideInv /\ [Next]_vars => (PoolInv /\ FilesInv /\ GuideInv)'
  BY PoolSteps, FileSteps, GuideSteps
<1>3. PoolInv /\ FilesInv /\ GuideInv => TypeOK
  BY GuideTypes
<1> QED BY <1>1, <1>2, <1>3, PTL DEF Spec
------------------------------------------------------------------------------
(* RunsWhereAsked, as far as it goes.  What a composed command resolves its *)
(* connection to is decided by the plan and the environment alone.          *)
WhereInv ==
    /\ phase = "confirm" => plan.dsn \in Servers
    /\ guided /\ line # NoLine => plan.dsn \in Servers /\ target \in {None, ResolveDSN(plan.dsn)}

OnlyTheEnvironmentOverrides ==
    guided /\ phase \in {"scope", "discover", "write", "report"} =>
        (target = plan.dsn <=> env.dsn \in {None, plan.dsn})

LEMMA ConfirmedConnection == ASSUME PoolInv, GuideInv, WhereInv, AnswerConfirm PROVE WhereInv'
<1>1. /\ UNCHANGED <<guided, plan, target, env>> /\ phase = "confirm" /\ line = NoLine
      /\ phase' # "confirm"
  BY DEF AnswerConfirm, End, guide, world, PoolInv
<1>2. plan.dsn \in Servers /\ target = None
  BY <1>1 DEF WhereInv, GuideInv, YesInv
<1> QED BY <1>1, <1>2 DEF WhereInv

LEMMA ResolvedConnection == ASSUME PoolInv, GuideInv, WhereInv, CheckOptions PROVE WhereInv'
<1>1. /\ UNCHANGED <<guided, plan, line, env>> /\ phase = "options" /\ line # NoLine
      /\ target' \in {target, ResolveDSN(line.dsn)}
  BY DEF CheckOptions, End, guide, world, GuideInv, ServersInv
<1>2. ASSUME guided PROVE plan.dsn \in Servers /\ ResolveDSN(line.dsn) = ResolveDSN(plan.dsn)
  <2>1. line = Parsed(Args(plan)) /\ plan \in Plans
    BY <1>1, <1>2 DEF GuideInv, YesInv, ServersInv
  <2>2. plan.full \in BOOLEAN /\ plan.fromEnv \in BOOLEAN
    BY <2>1, PlanFields
  <2>3. Echoes(Parsed(Args(plan)), plan)
    BY <2>2, ParsedCommand
  <2>4. line.dsn = IF plan.fromEnv THEN None ELSE plan.dsn
    BY <2>1, <2>3, Zenon DEF Echoes
  <2>5. plan.fromEnv => env.dsn # None
    BY DEF GuideInv, ServersInv
  <2> QED BY <1>1, <1>2, <2>2, <2>4, <2>5 DEF ResolveDSN, WhereInv
<1>3. phase' # "confirm"
  BY DEF CheckOptions, End
<1> QED BY <1>1, <1>2, <1>3 DEF WhereInv, ResolveDSN

LEMMA WhereSteps == PoolInv /\ GuideInv /\ WhereInv /\ [Next]_vars => WhereInv'
<1> SUFFICES ASSUME PoolInv, GuideInv, WhereInv, [Next]_vars PROVE WhereInv'
  OBVIOUS
<1>1. CASE Invoke \/ InvokeGuide
  <2>1. (~guided' \/ line' = NoLine) /\ phase' # "confirm"
    BY <1>1 DEF Invoke, InvokeGuide, Started, AskConnection
  <2> QED BY <2>1 DEF WhereInv
<1>2. CASE UNCHANGED <<guided, plan, line, target, env>> /\ (phase' = "confirm" => phase = "confirm")
  BY <1>2 DEF WhereInv, ResolveDSN
<1>3. CASE line' = line /\ line = NoLine /\ (phase' = "confirm" => plan'.dsn \in Servers)
  BY <1>3 DEF WhereInv
<1>4. CASE AnswerEnv \/ AnswerConnection \/ AnswerAgain
  <2>1. line' = line /\ line = NoLine /\ phase' # "confirm"
    BY <1>4 DEF AnswerEnv, AnswerConnection, AnswerAgain, Asking, AskConnection, End, run, PoolInv
  <2> QED BY <1>3, <2>1
<1>5. CASE AnswerScopes \/ AnswerMode \/ AnswerArtifacts \/ AnswerDirectory
  <2>1. line' = line /\ line = NoLine
    BY <1>5 DEF AnswerScopes, AnswerMode, AnswerArtifacts, AnswerDirectory, Asking, run, PoolInv, Guiding
  <2>2. plan.dsn \in Servers
    BY <1>5, <2>1 DEF AnswerScopes, AnswerMode, AnswerArtifacts, AnswerDirectory, Asking, Guiding, GuideInv, ServersInv
  <2>3. plan'.dsn = plan.dsn
    <3>1. "dsn" \in DOMAIN plan
      BY DEF PoolInv
    <3> QED BY <1>5, <3>1, AnswersKeepTheConnection
               DEF AnswerScopes, AnswerMode, AnswerArtifacts, AnswerDirectory, Compose
  <2> QED BY <1>3, <2>1, <2>2, <2>3
<1>6. CASE AnswerConfirm
  BY <1>6, ConfirmedConnection
<1>7. CASE CheckOptions
  BY <1>7, ResolvedConnection
<1>8. CASE Press \/ Cancel \/ GuideRefused
  BY <1>2, <1>8 DEF Press, Cancel, GuideRefused, End, guide, run, world
<1>9. CASE Open \/ checkServerVersion \/ SummarizeSchemas
  BY <1>2, <1>9 DEF Open, checkServerVersion, SummarizeSchemas, OpenFailed, Ask, End, run, world
<1>10. CASE ResolveScope \/ Discover \/ WriteArtifact \/ Written \/ Report
  BY <1>2, <1>10 DEF ResolveScope, Discover, WriteArtifact, Written, Report, End, guide, run, world
<1>11. CASE Interrupt \/ Crash \/ UNCHANGED vars
  BY <1>2, <1>11 DEF Interrupt, Crash, vars, guide, run, world
<1> QED
  BY <1>1, <1>4, <1>5, <1>6, <1>7, <1>8, <1>9, <1>10, <1>11 DEF Next, Answer, Step

(* Exactly one thing sends a guided run to another server than the one the  *)
(* schemas were listed on: an environment that names one the operator did   *)
(* not take.                                                                *)
THEOREM OnlyTheEnvironmentMisleads == Spec => []OnlyTheEnvironmentOverrides
<1>1. Init => PoolInv /\ GuideInv /\ WhereInv
  BY InitPools, InitGuide DEF Init, WhereInv
<1>2. PoolInv /\ GuideInv /\ WhereInv /\ [Next]_vars => (PoolInv /\ GuideInv /\ WhereInv)'
  BY PoolSteps, GuideSteps, WhereSteps
<1>3. PoolInv /\ GuideInv /\ WhereInv => OnlyTheEnvironmentOverrides
  <2> SUFFICES ASSUME PoolInv, GuideInv, WhereInv, guided, phase \in {"scope", "discover", "write", "report"}
               PROVE  target = plan.dsn <=> env.dsn \in {None, plan.dsn}
    BY DEF OnlyTheEnvironmentOverrides
  <2>1. line # NoLine
    BY DEF PoolInv, Running
  <2>2. plan.dsn \in Servers /\ target \in {None, ResolveDSN(plan.dsn)} /\ target \in Servers
    BY <2>1 DEF WhereInv, GuideInv, ServersInv, Running
  <2>3. None \notin Servers
    BY CommandAssumption DEF Servers
  <2> QED BY <2>2, <2>3 DEF ResolveDSN
<1> QED BY <1>1, <1>2, <1>3, PTL DEF Spec
==============================================================================
