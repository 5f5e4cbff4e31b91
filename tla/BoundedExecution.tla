-------------------------- MODULE BoundedExecution --------------------------
(***************************************************************************)
(* One runtime probe of preflight_runtime.py: resolve a tool, run it with   *)
(* a deadline and a limit on the output kept, classify what came of it.     *)
(*                                                                         *)
(* The actors are the calling thread (main), the two reader threads that    *)
(* drain stdout and stderr, the child process, processes the child leaves   *)
(* behind, the clock, and a host that replaces files.  Output is counted    *)
(* in units.  stream.read(n) is the read of an io.BufferedReader: it holds  *)
(* the stream's lock until n units or the end of the stream have come, and  *)
(* stream.close() waits for that lock.  The end of a stream comes when no   *)
(* process has its write end open.                                          *)
(***************************************************************************)
EXTENDS Naturals, FiniteSets

CONSTANTS
    OutputLimit,   \* output_limit_bytes, in units of output
    ReadChunk,     \* _READ_CHUNK_BYTES, in the same units
    MaxOutput,     \* bound: units written to each stream
    Offspring,     \* processes the child may leave: "grouped" stays in its
                   \* process group, "detached" leaves it
    SignalsFail    \* whether a signal can fail to be delivered

ASSUME LimitAssumption  == OutputLimit \in Nat \ {0}
ASSUME ChunkAssumption  == ReadChunk \in Nat \ {0}
ASSUME OutputAssumption == MaxOutput \in Nat
ASSUME OffspringAssumption == Offspring \subseteq {"grouped", "detached"}
ASSUME SignalsAssumption == SignalsFail \in BOOLEAN

VARIABLES
    main,      \* the calling thread: where it is, timed_out, confirmed, round
    reader,    \* where each reader thread is and the chunk in its hands
    retained,  \* buffers: the units kept of each stream
    limited,   \* the event output_limited
    raised,    \* whether a reader appended to reader_error
    closed,    \* the streams main has closed
    child,     \* the process: running or not, return code, signal delivered
    heirs,     \* the offspring alive
    holds,     \* who has the write end of each stream open
    written,   \* units written to each stream
    taken,     \* units the readers have read of each stream
    expired,   \* whether the deadline has passed
    result     \* of the probe: kind of query, status, files found replaced

vars == <<main, reader, retained, limited, raised, closed, child, heirs,
          holds, written, taken, expired, result>>

threadVars == <<main, reader, retained, taken, limited, raised, closed,
                result>>
worldVars  == <<child, heirs, holds, written, expired>>

Streams == {"stdout", "stderr"}
Writers == {"child"} \cup Offspring

(* RESULT_STATUSES, less "absent": the tool of this probe was found.  *)
Statuses == {"success", "nonzero", "timeout", "malformed-output",
             "execution-error", "custody-failure", "profile-rejected"}

Kinds == {"version", "inspection"}

(* The files whose identity a probe takes before and after.                *)
Files == {"executable", "source"}
NoResult == [kind |-> "none"]

Running == child.state = "running"
Alive(s) == reader[s].at # "done"
Total == retained["stdout"] + retained["stderr"]

TypeOK ==
    /\ main \in [at : {"start", "poll", "check", "stop", "graceTerm",
                       "graceKill", "after", "joinOut", "joinErr",
                       "closeOut", "closeErr", "report", "done"},
                 timedOut : BOOLEAN, round : {1, 2},
                 confirmed : {"none", "yes", "no"}]
    /\ reader \in [Streams -> [at : {"calling", "reading", "storing", "done"},
                               chunk : 0..ReadChunk]]
    /\ retained \in [Streams -> 0..MaxOutput]
    /\ written \in [Streams -> 0..MaxOutput]
    /\ taken \in [Streams -> 0..MaxOutput]
    /\ limited \in BOOLEAN /\ raised \in BOOLEAN /\ expired \in BOOLEAN
    /\ closed \subseteq Streams
    /\ child \in [state : {"none", "running", "gone"},
                  code : {"none", "zero", "nonzero", "signal"},
                  signal : {"none", "term", "kill"}]
    /\ heirs \subseteq Offspring
    /\ holds \in [Streams -> SUBSET Writers]
    /\ result \in [kind : Kinds,
                   status : Statuses, replaced : SUBSET Files] \cup {NoResult}

(* The probe as its call begins: the tool is resolved, and for an          *)
(* inspection the source is open and its digest known.                     *)
Init ==
    /\ main = [at |-> "start", timedOut |-> FALSE, round |-> 1,
               confirmed |-> "none"]
    /\ reader = [s \in Streams |-> [at |-> "done", chunk |-> 0]]
    /\ retained = [s \in Streams |-> 0]
    /\ written = [s \in Streams |-> 0]
    /\ taken = [s \in Streams |-> 0]
    /\ limited = FALSE /\ raised = FALSE /\ expired = FALSE
    /\ closed = {} /\ heirs = {}
    /\ child = [state |-> "none", code |-> "none", signal |-> "none"]
    /\ holds = [s \in Streams |-> {}]
    /\ result = NoResult

----------------------------------------------------------------------------
(* The answer: _classify_outcome, then what the caller makes of it.        *)

ErrorOfReaders == raised    \* faulty: only what the readers report
ErrorType ==
    \/ main.confirmed = "no"
    \/ raised
    \/ \E s \in Streams : Alive(s)

ClassifiedByCode ==         \* faulty: the return code comes first
    IF ErrorType THEN "execution-error"
    ELSE CASE child.code # "zero" -> "nonzero"
           [] child.code = "zero" /\ main.timedOut -> "timeout"
           [] child.code = "zero" /\ ~main.timedOut /\ limited -> "malformed-output"
           [] OTHER -> "success"
Classified ==
    CASE ErrorType            -> "execution-error"
      [] ~ErrorType /\ main.timedOut -> "timeout"
      [] ~ErrorType /\ ~main.timedOut /\ limited -> "malformed-output"
      [] ~ErrorType /\ ~main.timedOut /\ ~limited /\ child.code # "zero"
                              -> "nonzero"
      [] OTHER                -> "success"

(* query_version: the executable is looked at again, and a replaced one    *)
(* spoils any answer; a whole answer must have the accepted form.          *)
VersionStatus(class, replaced, says) ==
    IF "executable" \in replaced
    THEN IF class = "success" THEN "malformed-output" ELSE "execution-error"
    ELSE IF class = "success" /\ says # "accepted" THEN "malformed-output"
    ELSE class

(* inspect_source_media: custody of the executable and of the source       *)
(* outranks every classification; a whole listing is then judged.          *)
InspectionStatus(class, replaced, says) ==
    IF replaced # {} THEN "custody-failure"
    ELSE IF class # "success" THEN class
    ELSE CASE says = "accepted" -> "success"
           [] says = "rejected" -> "profile-rejected"
           [] OTHER             -> "malformed-output"

(* The host may have replaced the files at any time since the first look,  *)
(* and the output may say anything: both matter only here.                 *)
Conclude(class) ==
    \E kind \in Kinds, replaced \in SUBSET Files,
       says \in {"accepted", "rejected", "unparsable"} :
        result' = [kind |-> kind, replaced |-> replaced,
                   status |-> IF kind = "version"
                              THEN VersionStatus(class, replaced, says)
                              ELSE InspectionStatus(class, replaced, says)]

----------------------------------------------------------------------------
(* The calling thread, _bounded_execute.                                   *)

Goto(at) == main' = [main EXCEPT !.at = at]

(* Popen: the child has both write ends, the readers are started.          *)
Launch ==
    /\ main.at = "start"
    /\ child' = [child EXCEPT !.state = "running"]
    /\ holds' = [s \in Streams |-> {"child"}]
    /\ reader' = [s \in Streams |-> [at |-> "calling", chunk |-> 0]]
    /\ Goto("poll")
    /\ UNCHANGED <<retained, taken, limited, raised, closed, heirs, written, expired,
                   result>>

(* Popen raises, or the argv, timeout or limit is refused.                 *)
LaunchFails ==
    /\ main.at = "start"
    /\ Conclude("execution-error")
    /\ Goto("done")
    /\ UNCHANGED <<reader, retained, taken, limited, raised, closed, worldVars>>

(* The condition of the loop.                                              *)
Poll ==
    /\ main.at = "poll"
    /\ Goto(IF Running THEN "check" ELSE "after")
    /\ UNCHANGED <<reader, retained, taken, limited, raised, closed, result,
                   worldVars>>

(* Its body; the process may have ended since the poll.                    *)
Check ==
    /\ main.at = "check"
    /\ main' = [main EXCEPT
                  !.timedOut = ~limited /\ expired,
                  !.at = IF limited \/ expired THEN "stop" ELSE "poll"]
    /\ UNCHANGED <<reader, retained, taken, limited, raised, closed, result,
                   worldVars>>

(* _signal_process reaches the group, or nobody.                           *)
Signal(sig) ==
    \/ child' = [child EXCEPT !.signal = sig]
    \/ SignalsFail /\ UNCHANGED child

(* What a call of _stop_process that found out `gone' leads to.            *)
StopReturns(gone) ==
    main' = [main EXCEPT !.confirmed = IF gone THEN "yes" ELSE "no",
                         !.at = IF main.round = 1 THEN "after" ELSE "joinOut"]

Stop ==
    /\ main.at = "stop"
    /\ IF Running THEN Signal("term") /\ Goto("graceTerm")
                  ELSE StopReturns(TRUE) /\ UNCHANGED child
    /\ UNCHANGED <<reader, retained, taken, limited, raised, closed, result,
                   heirs, holds, written, expired>>

(* The first grace ends with the process, or with SIGKILL.                 *)
GraceTerm ==
    /\ main.at = "graceTerm"
    /\ IF Running THEN Signal("kill") /\ Goto("graceKill")
                  ELSE StopReturns(TRUE) /\ UNCHANGED child
    /\ UNCHANGED <<reader, retained, taken, limited, raised, closed, result,
                   heirs, holds, written, expired>>

GraceKillPatient ==         \* faulty: the wait has no timeout
    /\ main.at = "graceKill" /\ ~Running
    /\ StopReturns(TRUE)
    /\ UNCHANGED <<reader, retained, taken, limited, raised, closed, result,
                   worldVars>>
(* The second ends with whatever poll() says then.                         *)
GraceKill ==
    /\ main.at = "graceKill"
    /\ StopReturns(~Running)
    /\ UNCHANGED <<reader, retained, taken, limited, raised, closed, result,
                   worldVars>>

(* After the loop: one more attempt at a process that is still there.      *)
After ==
    /\ main.at = "after"
    /\ main' = IF Running
               THEN [main EXCEPT !.round = 2, !.at = "stop"]
               ELSE [main EXCEPT !.at = "joinOut",
                       !.confirmed = IF @ = "none" THEN "yes" ELSE @]
    /\ UNCHANGED <<reader, retained, taken, limited, raised, closed, result,
                   worldVars>>

(* reader.join(timeout) returns when the reader has ended, or in any case  *)
(* after the timeout.                                                      *)
Join ==
    /\ main.at \in {"joinOut", "joinErr"}
    /\ Goto(IF main.at = "joinOut" THEN "joinErr" ELSE "closeOut")
    /\ UNCHANGED <<reader, retained, taken, limited, raised, closed, result,
                   worldVars>>

(* stream.close() needs the lock that a read in progress holds.            *)
Close(s) ==
    /\ main.at = (IF s = "stdout" THEN "closeOut" ELSE "closeErr")
    /\ reader[s].at # "reading"
    /\ closed' = closed \cup {s}
    /\ Goto(IF s = "stdout" THEN "closeErr" ELSE "report")
    /\ UNCHANGED <<reader, retained, taken, limited, raised, result, worldVars>>

(* The outcome, its classification and the result of the probe.            *)
Report ==
    /\ main.at = "report"
    /\ Conclude(Classified)
    /\ Goto("done")
    /\ UNCHANGED <<reader, retained, taken, limited, raised, closed, worldVars>>

Main ==
    \/ Launch \/ LaunchFails \/ Poll \/ Check \/ Stop \/ GraceTerm
    \/ GraceKill \/ After \/ Join \/ Report
    \/ \E s \in Streams : Close(s)

----------------------------------------------------------------------------
(* The reader threads, drain.                                              *)

(* stream.read is called; on a closed stream it raises.                    *)
EnterRead(s) ==
    /\ reader[s].at = "calling"
    /\ IF s \in closed
       THEN /\ raised' = TRUE
            /\ reader' = [reader EXCEPT ![s].at = "done"]
       ELSE /\ reader' = [reader EXCEPT ![s].at = "reading"]
            /\ UNCHANGED raised
    /\ UNCHANGED <<main, retained, taken, limited, closed, result, worldVars>>

(* It returns with a whole chunk, or with what there is at the end of the  *)
(* stream; with nothing, the reader ends.                                  *)
Read(s) ==
    LET unread == written[s] - taken[s]
        got    == IF unread > ReadChunk THEN ReadChunk ELSE unread
    IN  /\ reader[s].at = "reading"
        /\ unread >= ReadChunk \/ holds[s] = {}
        /\ taken' = [taken EXCEPT ![s] = @ + got]
        /\ reader' = [reader EXCEPT ![s] =
                         [at |-> IF got = 0 THEN "done" ELSE "storing",
                          chunk |-> got]]
        /\ UNCHANGED <<main, retained, limited, raised, closed, result,
                       worldVars>>

StoreEarly(s) ==         \* faulty: a chunk that just fits passes the limit
    LET remaining == OutputLimit - Total
        size == reader[s].chunk
    IN  /\ reader[s].at = "storing"
        /\ retained' = [retained EXCEPT
                          ![s] = @ + IF size > remaining THEN remaining
                                                         ELSE size]
        /\ limited' = (limited \/ size >= remaining)
        /\ reader' = [reader EXCEPT ![s] = [at |-> "calling", chunk |-> 0]]
        /\ UNCHANGED <<main, taken, raised, closed, result, worldVars>>

StoreShared(s) ==        \* faulty: both readers use the last stream's buffer
    LET remaining == OutputLimit - Total
        size == reader[s].chunk
    IN  /\ reader[s].at = "storing"
        /\ retained' = [retained EXCEPT
                          !["stderr"] = @ + IF size > remaining THEN remaining
                                                         ELSE size]
        /\ limited' = (limited \/ size > remaining)
        /\ reader' = [reader EXCEPT ![s] = [at |-> "calling", chunk |-> 0]]
        /\ UNCHANGED <<main, taken, raised, closed, result, worldVars>>

(* Under buffer_lock: the room both readers share is looked at, filled, and *)
(* the event set for what does not fit.                                    *)
Store(s) ==
    LET remaining == OutputLimit - Total
        size == reader[s].chunk
    IN  /\ reader[s].at = "storing"
        /\ retained' = [retained EXCEPT
                          ![s] = @ + IF size > remaining THEN remaining
                                                         ELSE size]
        /\ limited' = (limited \/ size > remaining)
        /\ reader' = [reader EXCEPT ![s] = [at |-> "calling", chunk |-> 0]]
        /\ UNCHANGED <<main, taken, raised, closed, result, worldVars>>

Reader(s) == EnterRead(s) \/ Read(s) \/ Store(s)

----------------------------------------------------------------------------
(* The world: the child, what it leaves behind, the clock, the host.       *)

Drop(w) == [s \in Streams |-> holds[s] \ {w}]

Writes(s) ==
    /\ holds[s] # {}
    /\ written[s] < MaxOutput
    /\ written' = [written EXCEPT ![s] = @ + 1]
    /\ UNCHANGED <<threadVars, child, heirs, holds, expired>>

ChildCloses(s) ==
    /\ Running /\ "child" \in holds[s]
    /\ holds' = [holds EXCEPT ![s] = @ \ {"child"}]
    /\ UNCHANGED <<threadVars, child, heirs, written, expired>>

ChildForks(o) ==
    /\ Running /\ child.signal = "none" /\ o \notin heirs
    /\ heirs' = heirs \cup {o}
    /\ holds' = [s \in Streams |->
                   IF "child" \in holds[s] THEN holds[s] \cup {o} ELSE holds[s]]
    /\ UNCHANGED <<threadVars, child, written, expired>>

(* The child ends by itself, whether or not SIGTERM has reached it.        *)
ChildExits(code) ==
    /\ Running /\ child.signal # "kill"
    /\ child' = [child EXCEPT !.state = "gone", !.code = code]
    /\ holds' = Drop("child")
    /\ UNCHANGED <<threadVars, heirs, written, expired>>

(* It ends of the signal: SIGTERM can be handled or ignored, SIGKILL not.  *)
ChildDies ==
    /\ Running /\ child.signal # "none"
    /\ child' = [child EXCEPT !.state = "gone", !.code = "signal"]
    /\ holds' = Drop("child")
    /\ UNCHANGED <<threadVars, heirs, written, expired>>

HeirEnds(o) ==
    /\ o \in heirs
    /\ heirs' = heirs \ {o}
    /\ holds' = Drop(o)
    /\ UNCHANGED <<threadVars, child, written, expired>>

DeadlinePasses ==
    /\ main.at # "start" /\ ~expired
    /\ expired' = TRUE
    /\ UNCHANGED <<threadVars, child, heirs, holds, written>>

World ==
    \/ \E s \in Streams : Writes(s) \/ ChildCloses(s)
    \/ \E o \in Offspring : ChildForks(o) \/ HeirEnds(o)
    \/ \E code \in {"zero", "nonzero"} : ChildExits(code)
    \/ ChildDies \/ DeadlinePasses

Next == Main \/ (\E s \in Streams : Reader(s)) \/ World

Spec == Init /\ [][Next]_vars

(* The three threads run, time passes, and SIGKILL ends what it reaches:   *)
(* the child and the offspring in its group.  Nothing is assumed of what   *)
(* no signal reaches.                                                      *)
Fairness ==
    /\ WF_vars(Main)
    /\ \A s \in Streams : WF_vars(Reader(s))
    /\ WF_vars(DeadlinePasses)
    /\ WF_vars(ChildDies /\ child.signal = "kill")
    /\ \A o \in Offspring \cap {"grouped"} :
           WF_vars(HeirEnds(o) /\ child.signal = "kill")

FairSpec == Spec /\ Fairness

----------------------------------------------------------------------------
Status == IF result = NoResult THEN "none" ELSE result.status

(* An answer is taken at its word (success, or a listing of the wrong      *)
(* profile) only if it is whole: the child ended by itself with 0, no      *)
(* signal was sent to it, nobody can still write, both readers came to the *)
(* end and everything written is in the buffers, and the files looked at   *)
(* were the same before and after.                                         *)
AnswerIsWhole ==
    Status \in {"success", "profile-rejected"} =>
        /\ child.code = "zero" /\ child.signal = "none"
        /\ \A s \in Streams : /\ holds[s] = {}
                              /\ reader[s].at = "done"
                              /\ retained[s] = written[s]
        /\ "executable" \notin result.replaced
        /\ result.kind = "inspection" => result.replaced = {}

(* The limit is one for both streams whatever the order of the readers,    *)
(* and it is exact: the event is set if and only if the readers have taken *)
(* more than fits, so an output of just the limit is a whole one.          *)
LimitExact ==
    /\ Total <= OutputLimit
    /\ (\A s \in Streams : reader[s].at # "storing") =>
          (limited <=> taken["stdout"] + taken["stderr"] > OutputLimit)

(* A probe that had to be stopped is never reported as one that answered:  *)
(* where a signal was sent, and where the limit was passed, the status is  *)
(* not that of an exit, whatever code the child leaves when terminated.    *)
StoppedIsNoAnswer ==
    Status = "nonzero" =>
        /\ child.signal = "none"
        /\ child.code = "nonzero"
        /\ written["stdout"] + written["stderr"] <= OutputLimit

(* What the status says of the command is what happened to it, whatever    *)
(* the child, its offspring, the readers and the deadline did when.        *)
StatusTruthful == AnswerIsWhole /\ StoppedIsNoAnswer

(* What a probe leaves running it reports: any status that is not an error *)
(* of execution or of custody means the child is gone, and the readers.    *)
NothingLeftUnreported ==
    Status \in Statuses \ {"execution-error", "custody-failure"} =>
        /\ ~Running
        /\ \A s \in Streams : ~Alive(s)

(* Once nobody has the pipes open the call returns.                        *)
ReturnsWhenReleased ==
    (main.at # "start" /\ \A s \in Streams : holds[s] = {}) ~>
        main.at = "done"

=============================================================================
