------------------------- MODULE BoundedExecutionProofs -------------------------
(***************************************************************************)
(* Proofs about BoundedExecution for any limit, chunk, amount of output,   *)
(* offspring, and with or without signals that fail.                       *)
(***************************************************************************)
EXTENDS BoundedExecution, TLAPS

USE LimitAssumption, ChunkAssumption, OutputAssumption

Errors == {"execution-error", "custody-failure"}
AfterLoop == {"joinOut", "joinErr", "closeOut", "closeErr", "report"}

\* What was read of a stream is in the buffer, in the reader's hands or dropped.
FlowInv ==
  \A s \in Streams :
    /\ retained[s] + reader[s].chunk <= taken[s] /\ taken[s] <= written[s]
    /\ reader[s].at # "storing" => reader[s].chunk = 0

\* Chunks that are still in the hands of a reader.
InHand == reader["stdout"].chunk + reader["stderr"].chunk
Taken  == taken["stdout"] + taken["stderr"]

\* The event is set exactly when something was dropped, and then the buffers are full.
LimitInv ==
  /\ Total <= OutputLimit
  /\ ~limited => \A s \in Streams : retained[s] + reader[s].chunk = taken[s]
  /\ limited => Total = OutputLimit /\ Taken - InHand > OutputLimit

\* A reader that ended without an exception has come to the end of its stream.
EndInv ==
  ~raised => \A s \in Streams :
    reader[s].at = "done" => holds[s] = {} /\ taken[s] = written[s]

\* A signal has a cause the classification puts before the return code.
StopInv ==
  /\ main.at \in {"start", "poll", "check"} => child.signal = "none"
  /\ child.signal # "none" => main.timedOut \/ limited
  /\ main.at \in {"stop", "graceTerm", "graceKill"} => main.timedOut \/ limited
  /\ main.at = "after" /\ Running => main.timedOut \/ limited

\* What main knows of the child and the readers.
ChildInv ==
  /\ main.at = "start" => \A s \in Streams : ~Alive(s)
  /\ main.at = "start" <=> child.state = "none" /\ result = NoResult
  /\ child.code = "none" <=> child.state # "gone"
  /\ child.code = "signal" => child.signal # "none"
  /\ main.confirmed = "yes" => child.state # "running"
  /\ main.at \in AfterLoop => child.state # "none" /\ main.confirmed # "none"
  /\ main.at \in {"start", "poll", "check"} => main.confirmed = "none"

\* A result comes last; one that is no error found the readers ended.
AnswerInv ==
  /\ result # NoResult <=> main.at = "done"
  /\ Status \in Statuses \ Errors => ~raised /\ child.state = "gone"

IInv == /\ TypeOK /\ FlowInv /\ LimitInv /\ EndInv /\ StopInv /\ ChildInv /\ AnswerInv
        /\ StatusTruthful /\ NothingLeftUnreported
--------------------------------------------------------------------------------
(* What a step leaves alone *)

AnswersOK == AnswerInv /\ StatusTruthful /\ NothingLeftUnreported

\* The calling thread touches no stream.
LEMMA StreamsStay ==
  ASSUME IInv, UNCHANGED <<reader, retained, taken, limited, raised, holds, written>>
  PROVE  FlowInv' /\ LimitInv' /\ EndInv'
BY DEF IInv, FlowInv, LimitInv, EndInv, Total, Taken, InHand

\* Before the end of the call there is no answer to be wrong.
LEMMA NoAnswerYet ==
  ASSUME IInv, UNCHANGED result, main.at # "done", main'.at # "done"
  PROVE  AnswersOK'
BY DEF IInv, AnswersOK, AnswerInv, StatusTruthful, AnswerIsWhole, StoppedIsNoAnswer,
       NothingLeftUnreported, Status, Statuses

\* Once there is an answer that is no error, the streams are at their end.
LEMMA Settled ==
  ASSUME IInv, Status \in Statuses \ Errors
  PROVE  /\ main.at = "done" /\ ~Running
         /\ \A s \in Streams : reader[s].at = "done" /\ holds[s] = {}
BY DEF IInv, AnswerInv, NothingLeftUnreported, EndInv, Status, Statuses, Errors, Alive, Running

\* Such an answer stays true while nothing it speaks of changes.
LEMMA AnswerStays ==
  ASSUME IInv, UNCHANGED <<main, result>>,
         Status \in Statuses \ Errors =>
           /\ UNCHANGED <<reader, retained, raised, written>>
           /\ child'.state = child.state /\ child'.code = child.code
           /\ child'.signal = child.signal
           /\ \A s \in Streams : holds[s] = {} => holds'[s] = {}
  PROVE  AnswersOK'
<1>1. Status' = Status
  BY DEF Status
<1>2. CASE Status \in Statuses \ Errors
  BY <1>1, <1>2, Settled DEF IInv, AnswersOK, AnswerInv, StatusTruthful, AnswerIsWhole,
     StoppedIsNoAnswer, NothingLeftUnreported, Running, Alive
<1>3. CASE Status \notin Statuses \ Errors
  BY <1>1, <1>3 DEF IInv, AnswersOK, AnswerInv, StatusTruthful, AnswerIsWhole,
     StoppedIsNoAnswer, NothingLeftUnreported, Statuses, Errors
<1> QED
  BY <1>2, <1>3
--------------------------------------------------------------------------------
(* The calling thread *)

LEMMA LaunchKeeps ==
  ASSUME IInv, Launch
  PROVE  IInv'
<1>1. TypeOK'
  BY DEF IInv, TypeOK, Launch, Goto, Writers, Streams
<1>2. FlowInv' /\ LimitInv' /\ EndInv'
  <2>1. \A s \in Streams : /\ reader'[s] = [at |-> "calling", chunk |-> 0]
                             /\ reader[s].at = "done" /\ reader[s].chunk = 0
    BY DEF IInv, FlowInv, ChildInv, Launch, Alive
  <2> QED
    BY <2>1 DEF IInv, TypeOK, FlowInv, LimitInv, EndInv, Launch, Total, Taken, InHand, Streams
<1>3. StopInv' /\ ChildInv'
  BY DEF IInv, TypeOK, StopInv, ChildInv, Alive, Launch, Goto, AfterLoop
<1>4. AnswersOK'
  BY NoAnswerYet DEF IInv, TypeOK, Launch, Goto
<1> QED
  BY <1>1, <1>2, <1>3, <1>4 DEF IInv, AnswersOK

LEMMA PollKeeps ==
  ASSUME IInv, Poll
  PROVE  IInv'
<1>1. TypeOK'
  BY DEF IInv, TypeOK, Poll, Goto, Running, worldVars
<1>2. FlowInv' /\ LimitInv' /\ EndInv'
  BY StreamsStay DEF Poll, worldVars
<1>3. StopInv' /\ ChildInv'
  BY DEF IInv, TypeOK, StopInv, ChildInv, Alive, AfterLoop, worldVars, Poll, Goto, Running
<1>4. AnswersOK'
  BY NoAnswerYet DEF IInv, TypeOK, Poll, Goto, Running
<1> QED
  BY <1>1, <1>2, <1>3, <1>4 DEF IInv, AnswersOK

LEMMA CheckKeeps ==
  ASSUME IInv, Check
  PROVE  IInv'
<1>1. TypeOK'
  BY ZenonT(60) DEF IInv, TypeOK, Check, worldVars
<1>2. FlowInv' /\ LimitInv' /\ EndInv'
  BY StreamsStay DEF Check, worldVars
<1>3. StopInv' /\ ChildInv'
  BY DEF IInv, TypeOK, StopInv, ChildInv, Alive, AfterLoop, worldVars, Check, Running
<1>4. AnswersOK'
  BY NoAnswerYet DEF IInv, TypeOK, Check
<1> QED
  BY <1>1, <1>2, <1>3, <1>4 DEF IInv, AnswersOK

LEMMA StopKeeps ==
  ASSUME IInv, Stop
  PROVE  IInv'
<1>1. TypeOK'
  BY ZenonT(60) DEF IInv, TypeOK, Stop, Goto, Running, Signal, StopReturns
<1>2. FlowInv' /\ LimitInv' /\ EndInv'
  BY StreamsStay DEF Stop, worldVars
<1>3. StopInv' /\ ChildInv'
  <2>1. main.at \notin {"start", "poll", "check", "done"} /\ child.state # "none" /\ result = NoResult
    BY DEF IInv, TypeOK, ChildInv, AnswerInv, Stop
  <2>2. StopInv'
    BY ZenonT(60), <2>1 DEF IInv, TypeOK, StopInv, Stop, Goto, Running, Signal, StopReturns
  <2>3. ChildInv'
    <3>1. /\ child'.state = child.state /\ child'.code = child.code
          /\ child'.signal = child.signal \/ child'.signal # "none"
      BY DEF IInv, TypeOK, Stop, Signal
    <3>2. /\ main'.confirmed = "yes" => main.confirmed = "yes" \/ child.state # "running"
          /\ main'.at \in AfterLoop => main'.confirmed # "none"
          /\ main'.at \notin {"start", "poll", "check"} /\ result' = result
      BY <2>1 DEF IInv, TypeOK, Stop, Goto, Running, StopReturns, AfterLoop
    <3> QED
      BY <2>1, <3>1, <3>2 DEF IInv, ChildInv
  <2> QED
    BY <2>2, <2>3
<1>4. AnswersOK'
  BY NoAnswerYet DEF IInv, TypeOK, Stop, Goto, Running, Signal, StopReturns
<1> QED
  BY <1>1, <1>2, <1>3, <1>4 DEF IInv, AnswersOK

LEMMA GraceTermKeeps ==
  ASSUME IInv, GraceTerm
  PROVE  IInv'
<1>1. TypeOK'
  BY ZenonT(60) DEF IInv, TypeOK, GraceTerm, Goto, Running, Signal, StopReturns
<1>2. FlowInv' /\ LimitInv' /\ EndInv'
  BY StreamsStay DEF GraceTerm, worldVars
<1>3. StopInv' /\ ChildInv'
  <2>1. main.at \notin {"start", "poll", "check", "done"} /\ child.state # "none" /\ result = NoResult
    BY DEF IInv, TypeOK, ChildInv, AnswerInv, GraceTerm
  <2>2. StopInv'
    BY ZenonT(60), <2>1 DEF IInv, TypeOK, StopInv, GraceTerm, Goto, Running, Signal, StopReturns
  <2>3. ChildInv'
    <3>1. /\ child'.state = child.state /\ child'.code = child.code
          /\ child'.signal = child.signal \/ child'.signal # "none"
      BY DEF IInv, TypeOK, GraceTerm, Signal
    <3>2. /\ main'.confirmed = "yes" => main.confirmed = "yes" \/ child.state # "running"
          /\ main'.at \in AfterLoop => main'.confirmed # "none"
          /\ main'.at \notin {"start", "poll", "check"} /\ result' = result
      BY <2>1 DEF IInv, TypeOK, GraceTerm, Goto, Running, StopReturns, AfterLoop
    <3> QED
      BY <2>1, <3>1, <3>2 DEF IInv, ChildInv
  <2> QED
    BY <2>2, <2>3
<1>4. AnswersOK'
  BY NoAnswerYet DEF IInv, TypeOK, GraceTerm, Goto, Running, Signal, StopReturns
<1> QED
  BY <1>1, <1>2, <1>3, <1>4 DEF IInv, AnswersOK

LEMMA GraceKillKeeps ==
  ASSUME IInv, GraceKill
  PROVE  IInv'
<1>1. TypeOK'
  BY ZenonT(60) DEF IInv, TypeOK, GraceKill, Running, StopReturns, worldVars
<1>2. FlowInv' /\ LimitInv' /\ EndInv'
  BY StreamsStay DEF GraceKill, worldVars
<1>3. StopInv' /\ ChildInv'
  <2>1. main.at \notin {"start", "poll", "check", "done"} /\ child.state # "none" /\ result = NoResult
    BY DEF IInv, TypeOK, ChildInv, AnswerInv, GraceKill
  <2>2. StopInv'
    BY <2>1 DEF IInv, TypeOK, StopInv, GraceKill, Running, StopReturns, worldVars
  <2>3. ChildInv'
    BY <1>1, <2>1 DEF IInv, TypeOK, ChildInv, AfterLoop, GraceKill, Running, StopReturns, worldVars
  <2> QED
    BY <2>2, <2>3
<1>4. AnswersOK'
  BY NoAnswerYet DEF IInv, TypeOK, GraceKill, Running, StopReturns
<1> QED
  BY <1>1, <1>2, <1>3, <1>4 DEF IInv, AnswersOK

LEMMA AfterKeeps ==
  ASSUME IInv, After
  PROVE  IInv'
<1>1. TypeOK'
  BY ZenonT(60) DEF IInv, TypeOK, After, Running, worldVars
<1>2. FlowInv' /\ LimitInv' /\ EndInv'
  BY StreamsStay DEF After, worldVars
<1>3. StopInv' /\ ChildInv'
  <2>1. main.at \notin {"start", "poll", "check", "done"} /\ child.state # "none" /\ result = NoResult
    BY DEF IInv, TypeOK, ChildInv, AnswerInv, After
  <2>2. StopInv'
    BY <2>1 DEF IInv, TypeOK, StopInv, After, Running, worldVars
  <2>3. ChildInv'
    BY <1>1, <2>1 DEF IInv, TypeOK, ChildInv, AfterLoop, After, Running, worldVars
  <2> QED
    BY <2>2, <2>3
<1>4. AnswersOK'
  BY NoAnswerYet DEF IInv, TypeOK, After, Running
<1> QED
  BY <1>1, <1>2, <1>3, <1>4 DEF IInv, AnswersOK

LEMMA JoinKeeps ==
  ASSUME IInv, Join
  PROVE  IInv'
<1>1. TypeOK'
  BY DEF IInv, TypeOK, Join, Goto, worldVars
<1>2. FlowInv' /\ LimitInv' /\ EndInv'
  BY StreamsStay DEF Join, worldVars
<1>3. StopInv' /\ ChildInv'
  BY DEF IInv, TypeOK, StopInv, ChildInv, Alive, AfterLoop, worldVars, Join, Goto, Running
<1>4. AnswersOK'
  BY NoAnswerYet DEF IInv, TypeOK, Join, Goto
<1> QED
  BY <1>1, <1>2, <1>3, <1>4 DEF IInv, AnswersOK

LEMMA CloseKeeps ==
  ASSUME IInv, NEW s \in Streams, Close(s)
  PROVE  IInv'
<1>1. TypeOK'
  BY DEF IInv, TypeOK, Close, Goto, worldVars
<1>2. FlowInv' /\ LimitInv' /\ EndInv'
  BY StreamsStay DEF Close, worldVars
<1>3. StopInv' /\ ChildInv'
  BY DEF IInv, TypeOK, StopInv, ChildInv, Alive, AfterLoop, worldVars, Close, Goto, Running
<1>4. AnswersOK'
  BY NoAnswerYet DEF IInv, TypeOK, Close, Goto
<1> QED
  BY <1>1, <1>2, <1>3, <1>4 DEF IInv, AnswersOK

\* What a caller makes of a classification.
Classes == {"execution-error", "timeout", "malformed-output", "nonzero", "success"}

LEMMA Conclusion ==
  ASSUME NEW class \in Classes, Conclude(class)
  PROVE  /\ result' \in [kind : Kinds, status : Statuses, replaced : SUBSET Files]
         /\ result' # NoResult /\ Status' = result'.status
         /\ result'.status \notin Errors => class # "execution-error"
         /\ result'.status = "nonzero" => class = "nonzero"
         /\ result'.status \in {"success", "profile-rejected"} =>
              /\ class = "success" /\ "executable" \notin result'.replaced
              /\ result'.kind = "inspection" => result'.replaced = {}
<1>1. PICK kind \in Kinds, replaced \in SUBSET Files,
           says \in {"accepted", "rejected", "unparsable"} :
        result' = [kind |-> kind, replaced |-> replaced,
                   status |-> IF kind = "version"
                              THEN VersionStatus(class, replaced, says)
                              ELSE InspectionStatus(class, replaced, says)]
  BY DEF Conclude
<1>2. result'.kind = kind /\ kind # "none"
  BY <1>1 DEF Kinds
<1>3. result' # NoResult
  BY <1>2 DEF NoResult
<1> QED
  BY <1>1, <1>3 DEF Status, Kinds, Statuses, Errors, Files, Classes, VersionStatus,
     InspectionStatus

LEMMA LaunchFailsKeeps ==
  ASSUME IInv, LaunchFails
  PROVE  IInv'
<1>1. Conclude("execution-error") /\ "execution-error" \in Classes
  BY DEF LaunchFails, Classes
<1>2. TypeOK'
  BY <1>1, Conclusion DEF IInv, TypeOK, LaunchFails, Goto, worldVars
<1>3. FlowInv' /\ LimitInv' /\ EndInv'
  BY StreamsStay DEF LaunchFails, worldVars
<1>4. StopInv' /\ ChildInv'
  BY <1>1, Conclusion DEF IInv, TypeOK, StopInv, ChildInv, Alive, LaunchFails, Goto, worldVars,
     AfterLoop, Running
<1>5. result' # NoResult /\ Status' \in Errors /\ main'.at = "done"
  BY <1>1, Conclusion DEF IInv, TypeOK, LaunchFails, Goto
<1>6. AnswersOK'
  BY <1>5 DEF AnswersOK, AnswerInv, StatusTruthful, AnswerIsWhole, StoppedIsNoAnswer,
     NothingLeftUnreported, Errors
<1> QED
  BY <1>2, <1>3, <1>4, <1>6 DEF IInv, AnswersOK

\* What each class says of the child and its output.
LEMMA ClassTruthful ==
  ASSUME IInv, main.at = "report"
  PROVE  /\ Classified \in Classes
         /\ Classified # "execution-error" =>
              /\ ~raised /\ child.state = "gone"
              /\ \A s \in Streams : reader[s].at = "done" /\ holds[s] = {}
         /\ Classified \in {"success", "nonzero"} =>
              /\ child.signal = "none"
              /\ \A s \in Streams : retained[s] = written[s]
         /\ Classified = "success" => child.code = "zero"
         /\ Classified = "nonzero" => child.code = "nonzero"
<1>1. /\ Classified \in Classes
      /\ Classified # "execution-error" <=> ~ErrorType
      /\ Classified \in {"success", "nonzero"} => ~main.timedOut /\ ~limited
      /\ Classified = "success" => child.code = "zero"
      /\ Classified = "nonzero" => child.code # "zero"
  BY DEF Classified, Classes
<1>2. ASSUME ~ErrorType
      PROVE  /\ ~raised /\ child.state = "gone" /\ child.code # "none"
             /\ \A s \in Streams : reader[s].at = "done" /\ holds[s] = {}
                                   /\ taken[s] = written[s]
  BY <1>2 DEF ErrorType, Alive, IInv, TypeOK, EndInv, ChildInv, AfterLoop
<1>3. ASSUME ~main.timedOut, ~limited
      PROVE  child.signal = "none" /\ child.code # "signal"
  BY <1>3 DEF IInv, TypeOK, StopInv, ChildInv
<1>4. ASSUME ~ErrorType, ~limited, NEW s \in Streams
      PROVE  retained[s] = written[s]
  BY <1>2, <1>4 DEF IInv, TypeOK, FlowInv, LimitInv
<1>5. child.code \in {"none", "zero", "nonzero", "signal"}
  BY DEF IInv, TypeOK
<1> QED
  BY <1>1, <1>2, <1>3, <1>4, <1>5

LEMMA ReportKeeps ==
  ASSUME IInv, Report
  PROVE  IInv'
<1>1. main.at = "report" /\ Conclude(Classified) /\ Classified \in Classes
  BY ClassTruthful DEF Report
<1>2. TypeOK'
  BY <1>1, Conclusion DEF IInv, TypeOK, Report, Goto, worldVars
<1>3. FlowInv' /\ LimitInv' /\ EndInv'
  BY StreamsStay DEF Report, worldVars
<1>4. StopInv' /\ ChildInv'
  BY <1>1, Conclusion DEF IInv, TypeOK, StopInv, ChildInv, Alive, Report, Goto, worldVars, AfterLoop,
     Running
<1>5. main'.at = "done" /\ UNCHANGED <<reader, retained, raised, limited, worldVars>>
  BY DEF IInv, TypeOK, Report, Goto
<1>6. AnswerInv' /\ NothingLeftUnreported'
  BY <1>1, <1>5, Conclusion, ClassTruthful
     DEF AnswerInv, NothingLeftUnreported, Running, Alive, worldVars, Errors
<1>7. AnswerIsWhole'
  BY <1>1, <1>5, Conclusion, ClassTruthful DEF AnswerIsWhole, worldVars
<1>8. Classified = "nonzero" => written["stdout"] + written["stderr"] <= OutputLimit
  BY <1>1, ClassTruthful DEF IInv, LimitInv, Total, Streams
<1>9. StoppedIsNoAnswer'
  BY <1>1, <1>5, <1>8, Conclusion, ClassTruthful DEF StoppedIsNoAnswer, worldVars
<1> QED
  BY <1>2, <1>3, <1>4, <1>6, <1>7, <1>9 DEF IInv, StatusTruthful
--------------------------------------------------------------------------------
(* The readers *)

LEMMA EnterReadKeeps ==
  ASSUME IInv, NEW s \in Streams, EnterRead(s)
  PROVE  IInv'
<1>1. TypeOK'
  <2>1. PICK place \in {"done", "reading"} :
          /\ reader' = [reader EXCEPT ![s] = [reader[s] EXCEPT !.at = place]]
          /\ raised' \in {TRUE, raised}
    BY DEF EnterRead
  <2>2. /\ reader \in [Streams -> [at : {"calling", "reading", "storing", "done"},
                                   chunk : 0..ReadChunk]]
        /\ raised \in BOOLEAN
    BY DEF IInv, TypeOK
  <2>3. [reader[s] EXCEPT !.at = place] \in [at : {"calling", "reading", "storing", "done"},
                                            chunk : 0..ReadChunk]
    BY <2>2
  <2>4. UNCHANGED <<main, retained, taken, limited, closed, result, worldVars>>
    BY DEF EnterRead
  <2>5. reader' \in [Streams -> [at : {"calling", "reading", "storing", "done"},
                                chunk : 0..ReadChunk]]
    BY <2>1, <2>2, <2>3
  <2>6. raised' \in BOOLEAN
    BY <2>1, <2>2
  <2> QED
    BY <2>4, <2>5, <2>6 DEF IInv, TypeOK, worldVars
<1>2. FlowInv' /\ LimitInv' /\ EndInv'
  BY DEF IInv, TypeOK, FlowInv, LimitInv, EndInv, EnterRead, worldVars, Total, Taken, InHand,
     Streams
<1>3. StopInv' /\ ChildInv'
  BY DEF IInv, StopInv, ChildInv, Alive, EnterRead, worldVars, Running
<1>4. AnswersOK'
  BY AnswerStays, Settled DEF EnterRead, worldVars
<1> QED
  BY <1>1, <1>2, <1>3, <1>4 DEF IInv, AnswersOK

LEMMA ReadKeeps ==
  ASSUME IInv, NEW s \in Streams, Read(s)
  PROVE  IInv'
<1> DEFINE unread == written[s] - taken[s]
           got    == IF unread > ReadChunk THEN ReadChunk ELSE unread
<1>1. /\ reader[s].at = "reading" /\ reader[s].chunk = 0
      /\ got \in 0..ReadChunk /\ taken[s] + got <= written[s]
      /\ got = 0 => holds[s] = {} /\ taken[s] = written[s]
  BY DEF IInv, TypeOK, FlowInv, Read
<1>2. /\ taken' = [taken EXCEPT ![s] = @ + got]
      /\ reader' = [reader EXCEPT ![s] = [at |-> IF got = 0 THEN "done" ELSE "storing",
                                         chunk |-> got]]
      /\ UNCHANGED <<main, retained, limited, raised, closed, result, worldVars>>
  BY DEF Read
<1> HIDE DEF got
<1>3. TypeOK'
  BY <1>1, <1>2 DEF IInv, TypeOK, worldVars
<1>4. FlowInv' /\ EndInv'
  BY <1>1, <1>2 DEF IInv, TypeOK, FlowInv, EndInv, worldVars
<1>5. LimitInv'
  BY <1>1, <1>2 DEF IInv, TypeOK, LimitInv, Total, Taken, InHand, Streams
<1>6. StopInv' /\ ChildInv'
  BY <1>1, <1>2 DEF IInv, StopInv, ChildInv, Alive, worldVars, Running
<1>7. AnswersOK'
  BY <1>1, <1>2, AnswerStays, Settled DEF worldVars
<1> QED
  BY <1>3, <1>4, <1>5, <1>6, <1>7 DEF IInv, AnswersOK

LEMMA StoreKeeps ==
  ASSUME IInv, NEW s \in Streams, Store(s)
  PROVE  IInv'
<1> DEFINE remaining == OutputLimit - Total
           size == reader[s].chunk
           kept == IF size > remaining THEN remaining ELSE size
<1>1. /\ reader[s].at = "storing" /\ size \in Nat /\ remaining \in Nat
      /\ kept \in Nat /\ retained[s] + size <= taken[s] /\ kept <= size
      /\ kept <= remaining /\ taken[s] <= MaxOutput
  BY DEF IInv, TypeOK, FlowInv, LimitInv, Store, Total, Streams
<1>2. /\ retained' = [retained EXCEPT ![s] = @ + kept]
      /\ limited' = (limited \/ size > remaining)
      /\ reader' = [reader EXCEPT ![s] = [at |-> "calling", chunk |-> 0]]
      /\ UNCHANGED <<main, taken, raised, closed, result, worldVars>>
  BY DEF Store
<1>3. size > remaining <=> kept < size
  BY <1>1
<1>4. size > remaining => kept = remaining
  OBVIOUS
<1>5. Total' = Total + kept /\ InHand' = InHand - size /\ Taken' = Taken
  BY <1>1, <1>2 DEF IInv, TypeOK, Total, InHand, Taken, Streams
<1> HIDE DEF kept
<1>6. TypeOK'
  BY <1>1, <1>2 DEF IInv, TypeOK, worldVars
<1>7. FlowInv' /\ EndInv'
  BY <1>1, <1>2 DEF IInv, TypeOK, FlowInv, EndInv, worldVars
<1>8. LimitInv'
  <2>1. Total' <= OutputLimit
    BY <1>1, <1>5 DEF IInv, TypeOK, LimitInv, Total, Streams
  <2>2. ~limited' => \A t \in Streams : retained'[t] + reader'[t].chunk = taken'[t]
    <3> SUFFICES ASSUME ~limited', NEW t \in Streams
                 PROVE  retained'[t] + reader'[t].chunk = taken'[t]
      OBVIOUS
    <3>1. ~limited /\ kept = size
      <4>1. ~(size > remaining)
        BY <1>2
      <4> QED
        BY <1>2, <4>1 DEF kept
    <3>2. retained[t] + reader[t].chunk = taken[t]
      BY <3>1 DEF IInv, LimitInv
    <3> QED
      BY <1>1, <1>2, <3>1, <3>2 DEF IInv, TypeOK
  <2>3. ASSUME limited'
        PROVE  Total' = OutputLimit /\ Taken' - InHand' > OutputLimit
    <3>1. CASE limited
      <4>1. Total = OutputLimit /\ Taken - InHand > OutputLimit
        BY <3>1 DEF IInv, LimitInv
      <4>2. Taken \in Nat /\ InHand \in Nat
        BY DEF IInv, TypeOK, Taken, InHand, Streams
      <4> QED
        BY <1>1, <1>5, <4>1, <4>2
    <3>2. CASE ~limited
      <4>1. size > remaining /\ Total = Taken - InHand
        BY <1>2, <2>3, <3>2 DEF IInv, TypeOK, LimitInv, Total, InHand, Taken, Streams
      <4> QED
        BY <1>1, <1>4, <1>5, <4>1 DEF IInv, TypeOK, Total, InHand, Taken, Streams
    <3> QED
      BY <3>1, <3>2
  <2> QED
    BY <2>1, <2>2, <2>3 DEF LimitInv
<1>9. StopInv' /\ ChildInv'
  BY <1>1, <1>2 DEF IInv, StopInv, ChildInv, Alive, worldVars, Running
<1>10. AnswersOK'
  BY <1>1, <1>2, AnswerStays, Settled DEF worldVars
<1> QED
  BY <1>6, <1>7, <1>8, <1>9, <1>10 DEF IInv, AnswersOK
--------------------------------------------------------------------------------
(* The world *)

LEMMA WritesKeeps ==
  ASSUME IInv, NEW s \in Streams, Writes(s)
  PROVE  IInv'
<1>1. TypeOK'
  BY DEF IInv, TypeOK, Writes, threadVars
<1>2. FlowInv' /\ LimitInv' /\ EndInv'
  BY DEF IInv, TypeOK, FlowInv, LimitInv, EndInv, Writes, threadVars, Total, Taken, InHand
<1>3. StopInv' /\ ChildInv'
  BY DEF IInv, TypeOK, StopInv, ChildInv, Alive, Writes, threadVars, Running
<1>4. AnswersOK'
  BY AnswerStays, Settled DEF Writes, threadVars
<1> QED
  BY <1>1, <1>2, <1>3, <1>4 DEF IInv, AnswersOK

LEMMA ChildClosesKeeps ==
  ASSUME IInv, NEW s \in Streams, ChildCloses(s)
  PROVE  IInv'
<1>1. TypeOK'
  BY DEF IInv, TypeOK, ChildCloses, threadVars, Writers, Running
<1>2. FlowInv' /\ LimitInv' /\ EndInv'
  BY DEF IInv, TypeOK, FlowInv, LimitInv, EndInv, ChildCloses, threadVars, Total, Taken, InHand
<1>3. StopInv' /\ ChildInv'
  BY DEF IInv, TypeOK, StopInv, ChildInv, Alive, ChildCloses, threadVars, Running
<1>4. AnswersOK'
  BY AnswerStays, Settled DEF ChildCloses, threadVars
<1> QED
  BY <1>1, <1>2, <1>3, <1>4 DEF IInv, AnswersOK

LEMMA ChildForksKeeps ==
  ASSUME IInv, NEW o \in Offspring, ChildForks(o)
  PROVE  IInv'
<1>1. TypeOK'
  BY DEF IInv, TypeOK, ChildForks, threadVars, Writers, Running
<1>2. FlowInv' /\ LimitInv' /\ EndInv'
  BY DEF IInv, TypeOK, FlowInv, LimitInv, EndInv, ChildForks, threadVars, Total, Taken, InHand
<1>3. StopInv' /\ ChildInv'
  BY DEF IInv, TypeOK, StopInv, ChildInv, Alive, ChildForks, threadVars, Running
<1>4. AnswersOK'
  BY AnswerStays, Settled DEF ChildForks, threadVars
<1> QED
  BY <1>1, <1>2, <1>3, <1>4 DEF IInv, AnswersOK

LEMMA HeirEndsKeeps ==
  ASSUME IInv, NEW o \in Offspring, HeirEnds(o)
  PROVE  IInv'
<1>1. TypeOK'
  BY DEF IInv, TypeOK, HeirEnds, threadVars, Drop
<1>2. FlowInv' /\ LimitInv' /\ EndInv'
  BY DEF IInv, TypeOK, FlowInv, LimitInv, EndInv, HeirEnds, threadVars, Total, Taken, InHand, Drop
<1>3. StopInv' /\ ChildInv'
  BY DEF IInv, TypeOK, StopInv, ChildInv, Alive, HeirEnds, threadVars, Running
<1>4. AnswersOK'
  BY AnswerStays, Settled DEF HeirEnds, threadVars, Drop
<1> QED
  BY <1>1, <1>2, <1>3, <1>4 DEF IInv, AnswersOK

LEMMA ChildExitsKeeps ==
  ASSUME IInv, NEW code \in {"zero", "nonzero"}, ChildExits(code)
  PROVE  IInv'
<1>1. TypeOK'
  <2>1. child' = [state |-> "gone", code |-> code, signal |-> child.signal]
    BY DEF IInv, TypeOK, ChildExits
  <2> QED
    BY <2>1 DEF IInv, TypeOK, ChildExits, threadVars, Drop
<1>2. FlowInv' /\ LimitInv' /\ EndInv'
  BY DEF IInv, TypeOK, FlowInv, LimitInv, EndInv, ChildExits, threadVars, Total, Taken, InHand, Drop
<1>3. StopInv' /\ ChildInv'
  BY DEF IInv, TypeOK, StopInv, ChildInv, Alive, ChildExits, threadVars, Running
<1>4. AnswersOK'
  BY AnswerStays, Settled DEF ChildExits, threadVars, Drop
<1> QED
  BY <1>1, <1>2, <1>3, <1>4 DEF IInv, AnswersOK

LEMMA ChildDiesKeeps ==
  ASSUME IInv, ChildDies
  PROVE  IInv'
<1>1. TypeOK'
  <2>1. child' = [state |-> "gone", code |-> "signal", signal |-> child.signal]
    BY DEF IInv, TypeOK, ChildDies
  <2> QED
    BY <2>1 DEF IInv, TypeOK, ChildDies, threadVars, Drop
<1>2. FlowInv' /\ LimitInv' /\ EndInv'
  BY DEF IInv, TypeOK, FlowInv, LimitInv, EndInv, ChildDies, threadVars, Total, Taken, InHand, Drop
<1>3. StopInv' /\ ChildInv'
  BY DEF IInv, TypeOK, StopInv, ChildInv, Alive, ChildDies, threadVars, Running
<1>4. AnswersOK'
  BY AnswerStays, Settled DEF ChildDies, threadVars, Drop
<1> QED
  BY <1>1, <1>2, <1>3, <1>4 DEF IInv, AnswersOK

LEMMA DeadlinePassesKeeps ==
  ASSUME IInv, DeadlinePasses
  PROVE  IInv'
<1>1. TypeOK'
  BY DEF IInv, TypeOK, DeadlinePasses, threadVars
<1>2. FlowInv' /\ LimitInv' /\ EndInv'
  BY StreamsStay DEF DeadlinePasses, threadVars
<1>3. StopInv' /\ ChildInv'
  BY DEF IInv, TypeOK, StopInv, ChildInv, Alive, DeadlinePasses, threadVars, Running
<1>4. AnswersOK'
  BY AnswerStays, Settled DEF DeadlinePasses, threadVars
<1> QED
  BY <1>1, <1>2, <1>3, <1>4 DEF IInv, AnswersOK

--------------------------------------------------------------------------------
LEMMA Initially == Init => IInv
<1> SUFFICES ASSUME Init PROVE IInv
  OBVIOUS
<1>1. TypeOK
  BY 0 \in 0..ReadChunk, 0 \in 0..MaxOutput DEF Init, TypeOK
<1>2. FlowInv /\ LimitInv /\ EndInv
  BY DEF Init, FlowInv, LimitInv, EndInv, Total, Taken, InHand, Streams
<1>3. StopInv /\ ChildInv
  BY DEF Init, StopInv, ChildInv, AfterLoop, Alive
<1>4. Status = "none" /\ AnswerInv
  BY DEF Init, Status, AnswerInv, Statuses
<1> QED
  BY <1>1, <1>2, <1>3, <1>4
     DEF IInv, StatusTruthful, AnswerIsWhole, StoppedIsNoAnswer, NothingLeftUnreported, Statuses

LEMMA StepInv == IInv /\ [Next]_vars => IInv'
<1> SUFFICES ASSUME IInv, [Next]_vars PROVE IInv'
  OBVIOUS
<1>1. CASE Main
  BY <1>1, LaunchKeeps, LaunchFailsKeeps, PollKeeps, CheckKeeps, StopKeeps, GraceTermKeeps,
     GraceKillKeeps, AfterKeeps, JoinKeeps, ReportKeeps, CloseKeeps DEF Main
<1>2. ASSUME NEW s \in Streams, Reader(s) PROVE IInv'
  BY <1>2, EnterReadKeeps, ReadKeeps, StoreKeeps DEF Reader
<1>3. CASE World
  BY <1>3, WritesKeeps, ChildClosesKeeps, ChildForksKeeps, HeirEndsKeeps, ChildExitsKeeps,
     ChildDiesKeeps, DeadlinePassesKeeps DEF World
<1>4. CASE UNCHANGED vars
  BY <1>4 DEF vars, IInv, TypeOK, FlowInv, LimitInv, EndInv, StopInv, ChildInv, AnswerInv,
     StatusTruthful, AnswerIsWhole, StoppedIsNoAnswer, NothingLeftUnreported, Total, Taken,
     InHand, Status, Running, Alive
<1> QED
  BY <1>1, <1>2, <1>3, <1>4 DEF Next

LEMMA Invariance == Spec => []IInv
BY Initially, StepInv, PTL DEF Spec

\* Every reachable state of a probe is well typed.
THEOREM ProbeTypeCorrect == Spec => []TypeOK
BY Invariance, PTL DEF IInv

\* The room for output is shared without loss, and the event of the limit is set
\* exactly when the readers took more than fits, in whatever order they came.
THEOREM LimitIsExact == Spec => []LimitExact
<1>1. IInv => LimitExact
  <2> SUFFICES ASSUME IInv PROVE LimitExact
    OBVIOUS
  <2>1. ASSUME \A s \in Streams : reader[s].at # "storing"
        PROVE  limited <=> Taken > OutputLimit
    <3>1. InHand = 0
      BY <2>1 DEF IInv, FlowInv, InHand, Streams
    <3>2. ~limited => Taken = Total
      BY <2>1 DEF IInv, TypeOK, FlowInv, LimitInv, Taken, Total, Streams
    <3>3. Taken \in Nat /\ Total \in Nat
      BY DEF IInv, TypeOK, Taken, Total, Streams
    <3> QED
      BY <3>1, <3>2, <3>3 DEF IInv, LimitInv
  <2> QED
    BY <2>1 DEF LimitExact, IInv, LimitInv, Taken
<1> QED
  BY <1>1, Invariance, PTL

\* A status says what happened to the command: an answer is taken at its word only
\* when it is whole, and a probe that was stopped is never one that answered.
THEOREM StatusIsTruthful == Spec => []StatusTruthful
BY Invariance, PTL DEF IInv

\* A child or a reader that is left running is reported.
THEOREM RunningIsReported == Spec => []NothingLeftUnreported
BY Invariance, PTL DEF IInv
=================================================================================
