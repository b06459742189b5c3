---------------------------- MODULE ChildProcess ----------------------------
(***************************************************************************)
(* process.runCmd and its ChildProcess: process/js_childprocess.cpp.       *)
(*                                                                         *)
(* A command runs in a process of its own.  Three works of the thread pool *)
(* of libuv serve it: one reads what it writes to stdout, one what it      *)
(* writes to stderr, and one kills it after a time.  They share, without a *)
(* lock, the flag isNeedRun_ of the object with the calls of the script,   *)
(* and each has a record of its own that is deleted on the thread of the   *)
(* script when the work is done.                                           *)
(***************************************************************************)
EXTENDS Naturals, Sequences

CONSTANTS
  Signals,    \* bound: signals that the script and the timeout send
  ExitCodes,  \* bound: exit codes of the command
  Limits,     \* bound: values of maxBuffer
  PipeSize,   \* bound: units of output that a pipe holds
  ReadSize,   \* MAXSIZE - 1: units that are read at once
  MaxWritten  \* bound: units that the command writes to each of the Outputs

VARIABLE child

Outputs == {"out", "err"}
SIGKILL == 9
SIGPIPE == 13
SignalType == {2, 3, 9, 15}  \* SIGINT, SIGQUIT, SIGKILL, SIGTERM: after these nothing is read
Junk == 99                   \* an uninitialized status
Statuses == {256 * c : c \in ExitCodes} \cup Signals \cup {SIGKILL, SIGPIPE}

(* js: what the thread of the script is at                                 *)
(* proc, how: the process and its status, which waitpid gives to one call  *)
(* listener, reader: the works; freed ones have lost their record.  A      *)
(*   reader is about to look at the flag, in read, or about to kill        *)
(* wrote, pipe, data: what was written (0 is a NUL, another unit its       *)
(*   number), waits in the pipe and is in stdData                          *)
(* defied: the command has survived a signal after which nothing is read   *)
(* late: Close has found the process ended, and has not noted it           *)
(* astray: a number that is not, or no longer, the process's was used: of  *)
(*   a freed record, of a process that is gone, or 0                       *)
TypeOK ==
  /\ child.js \in {"new", "idle", "waiting", "closing", "noting", "deleting", "deleted"}
  /\ child.proc \in {"none", "running", "zombie", "gone"} /\ child.how \in Statuses \cup {0}
  /\ child.listener \in {"none", "asleep", "killing", "done", "freed"}
  /\ child.reader \in [Outputs -> {"none", "looking", "reading", "killing", "ended", "freed"}]
  /\ \A o \in Outputs :
       /\ Len(child.wrote[o]) <= MaxWritten[o] /\ Len(child.pipe[o]) <= PipeSize
       /\ child.data[o] \in Seq(1..MaxWritten[o])
  /\ {child.status, child.exitCode} \subseteq Statuses \cup {0, Junk}
  /\ {child.isWait, child.isNeedRun, child.defied, child.late, child.astray} \subseteq BOOLEAN

Init ==
  child = [js |-> "new", proc |-> "none", how |-> 0, status |-> 0, exitCode |-> 0,
           listener |-> "none", max |-> 0,
           reader |-> [o \in Outputs |-> "none"], wrote |-> [o \in Outputs |-> << >>],
           pipe |-> [o \in Outputs |-> << >>], data |-> [o \in Outputs |-> << >>],
           isWait |-> TRUE, isNeedRun |-> TRUE, defied |-> FALSE,
           late |-> FALSE, astray |-> FALSE]

----------------------------------------------------------------------------
(* The process, which no code of the repository decides upon.              *)

IsOpen == child.js \notin {"deleting", "deleted"}  \* the pipes, at the end of the script

Ended(c, how) == [c EXCEPT !.proc = "zombie", !.how = how]

Exit(code) == child.proc = "running" /\ child' = Ended(child, 256 * code)

Write(o, nul) ==
  LET n == Len(child.wrote[o]) + 1
      unit == IF nul THEN 0 ELSE n
  IN
  /\ child.proc = "running" /\ n <= MaxWritten[o] /\ Len(child.pipe[o]) < PipeSize
  /\ ~IsOpen => child.reader[o] = "reading"
  /\ child' = [child EXCEPT !.wrote[o] = Append(@, unit), !.pipe[o] = Append(@, unit)]

(* Nobody can read any more what it writes. *)
PipeBreaks(o) ==
  /\ child.proc = "running" /\ ~IsOpen /\ child.reader[o] # "reading"
  /\ child' = Ended(child, SIGPIPE)

(* kill(): whether it succeeds, and the state after it.  The command may   *)
(* survive every signal but SIGKILL.                                       *)
Sent(c, sig) ==
  {Ended(c, sig)} \cup (IF sig = SIGKILL THEN {} ELSE {[c EXCEPT !.defied = @ \/ sig \in SignalType]})

KillProcess(c, own, sig) ==
  CASE own /\ c.proc = "running" -> {TRUE} \X Sent(c, sig)
    [] own /\ c.proc = "zombie" -> {<<TRUE, c>>}
    [] OTHER -> {<<TRUE, [c EXCEPT !.astray = TRUE]>>} \cup (IF c.proc = "none" THEN {} ELSE {<<FALSE, c>>})

(* waitpid() of a process that has ended, or of a number that no child has *)
WaitPid(c, own) ==
  IF own /\ c.proc = "zombie" THEN [c EXCEPT !.proc = "gone", !.status = c.how]
  ELSE [c EXCEPT !.astray = @ \/ ~own, !.status = Junk]

----------------------------------------------------------------------------
(* InitOptionsInfo: the options; killSignal is chosen when it is used.     *)
InitOptionsInfo(c, timeout, limit) ==
  [c EXCEPT !.listener = IF timeout THEN "asleep" ELSE "done", !.max = limit]

(* CreateWorker: the two readers. *)
CreateWorker(c) == [c EXCEPT !.reader = [o \in Outputs |-> "looking"]]

(* Spawn: nothing is started when there is no pipe or no process.          *)
Spawn(c) ==
  {[c EXCEPT !.listener = "none"], [CreateWorker(c) EXCEPT !.proc = "running"]}

(* DealType and the constructor: an error is thrown for arguments that are *)
(* refused, and the command is run nevertheless (for an object that the    *)
(* script never gets, so that it can only be deleted).                     *)
ChildProcessConstructor(c, timeout, limit) == Spawn(InitOptionsInfo(c, timeout, limit))

RunCommand(timeout, limit) ==
  /\ child.js = "new"
  /\ \E c \in ChildProcessConstructor(child, timeout, limit) : child' = [c EXCEPT !.js = "idle"]

(* A number read from the options: that of the process, if the record is   *)
(* still there or its memory not used again (0 if none was started).       *)
Getpid(c) == IF c.listener = "freed" THEN BOOLEAN ELSE {c.proc # "none"}

(* Kill (killed_, which only tells of a success, is left out) *)
Kill(sig) ==
  \E own \in Getpid(child) : \E r \in KillProcess(child, own, sig) :
    child' = [r[2] EXCEPT !.isNeedRun = @ /\ ~(r[1] /\ sig \in SignalType)]

(* Wait blocks the thread of the script until the process has ended, and   *)
(* takes its status ...                                                    *)
Wait ==
  child' = IF child.isWait THEN [child EXCEPT !.isWait = FALSE, !.js = "waiting"]
           ELSE [child EXCEPT !.isNeedRun = FALSE]

Waited ==
  /\ child.js = "waiting"
  /\ \E own \in Getpid(child) :
       /\ own => child.proc # "running"
       /\ child' = [WaitPid(child, own) EXCEPT !.js = "noting"]

(* Close: a process that still runs is killed and waited for ...           *)
Close ==
  \E own \in Getpid(child) :
    child' = CASE child.isWait /\ own /\ child.proc = "zombie" -> [child EXCEPT !.proc = "gone", !.late = TRUE]
               [] child.isWait /\ own /\ child.proc = "running" /\ child.isNeedRun -> [child EXCEPT !.js = "closing"]
               [] OTHER -> child

\* Mutant: the process is killed and not waited for.
ClosedAtOnce ==
  /\ child.js = "closing"
  /\ \E r \in KillProcess(child, TRUE, SIGKILL) : child' = [r[2] EXCEPT !.js = "noting"]

Closed ==
  /\ child.js = "closing"
  /\ \E r \in KillProcess(child, TRUE, SIGKILL) : child' = [WaitPid(r[2], TRUE) EXCEPT !.js = "noting"]

(* ... and both note that it was.                                          *)
Noted ==
  /\ child.js = "noting"
  /\ child' = [child EXCEPT !.js = "idle", !.isWait = FALSE, !.isNeedRun = FALSE,
                           !.exitCode = child.status, !.status = 0]

(* The destructor closes the pipes and waits for the process, and then the *)
(* flag is gone.                                                           *)
Delete == child' = [child EXCEPT !.js = "deleting"]

Deleted ==
  /\ child.js = "deleting"
  /\ \E own \in Getpid(child) :
       /\ child.isWait /\ own => child.proc # "running"
       /\ child' = [(IF child.isWait THEN WaitPid(child, own) ELSE child)
                      EXCEPT !.js = "deleted", !.isNeedRun = FALSE]

(* The calls of the script, and the end of an object that it has not.      *)
Call ==
  /\ child.js = "idle"
  /\ Wait \/ Close \/ Delete \/ \E sig \in Signals : Kill(sig)

----------------------------------------------------------------------------
(* What a work finds in isNeedRun_: anything, after the object is deleted. *)
IsNeedRun == IF child.js = "deleted" THEN BOOLEAN ELSE {child.isNeedRun}
IsFree == child.js \in {"idle", "deleted"}  \* the thread of the script is in its loop

(* TimeoutListener: asleep, and then it kills, if the flag is still set.   *)
TimeoutListener ==
  \/ /\ child.listener = "asleep"
     /\ \E run \in IsNeedRun : child' = [child EXCEPT !.listener = IF run THEN "killing" ELSE "done"]
  \/ /\ child.listener = "killing"
     /\ \E sig \in Signals : \E r \in KillProcess(child, TRUE, sig) :
          child' = [r[2] EXCEPT !.listener = "done", !.isNeedRun = @ /\ ~(r[1] /\ sig \in SignalType)]

TimeoutListenerEnds == IsFree /\ child.listener = "done" /\ child' = [child EXCEPT !.listener = "freed"]

(* ReadStdOut and ReadStdErr: the flag is looked at at first (and all the  *)
(* time when the pipe was closed) ...                                      *)
Look(o) ==
  /\ child.reader[o] = "looking"
  /\ \E run \in IsNeedRun :
       /\ run => IsOpen
       /\ child' = [child EXCEPT !.reader[o] = IF run THEN "reading" ELSE "ended"]

(* ... what is read, nothing at the end of the output, is added up to the  *)
(* first NUL, and the flag is looked at again ...                          *)
UpToNul(units) ==
  LET nuls == {n \in 1..Len(units) : units[n] = 0}
      upTo == IF nuls = {} THEN Len(units) ELSE (CHOOSE n \in nuls : \A k \in nuls : n <= k) - 1
  IN SubSeq(units, 1, upTo)

Read(o) ==
  LET pipe == child.pipe[o]
      n == IF Len(pipe) < ReadSize THEN Len(pipe) ELSE ReadSize
      data == child.data[o] \o UpToNul(SubSeq(pipe, 1, n))
      next == IF Len(data) > child.max THEN "killing" ELSE IF IsOpen THEN "reading" ELSE "looking"
  IN
  /\ child.reader[o] = "reading" /\ (n > 0 \/ child.proc # "running")
  /\ \E run \in IsNeedRun :
       child' = [child EXCEPT !.pipe[o] = SubSeq(pipe, n + 1, Len(pipe)), !.data[o] = data,
                              !.reader[o] = IF run THEN next ELSE "ended"]

(* ... and the process is killed when that is too much.                    *)
Overflow(o) ==
  /\ child.reader[o] = "killing"
  /\ \E r \in KillProcess(child, TRUE, SIGKILL) :
       LET c == [r[2] EXCEPT !.reader[o] = "looking"] IN
       child' = IF r[1] THEN [c EXCEPT !.isNeedRun = FALSE, !.data[o] = SubSeq(@, 1, child.max)] ELSE c

(* The record of a reader is deleted, as that of the timeout. *)
EndStd(o) == IsFree /\ child.reader[o] = "ended" /\ child' = [child EXCEPT !.reader[o] = "freed"]

ReadStdOut == Look("out") \/ Read("out") \/ Overflow("out")
ReadStdErr == Look("err") \/ Read("err") \/ Overflow("err")
EndStdOut == EndStd("out")
EndStdErr == EndStd("err")

Next ==
  \/ \E timeout \in BOOLEAN, limit \in Limits : RunCommand(timeout, limit)
  \/ \E code \in ExitCodes : Exit(code)
  \/ Call \/ Waited \/ Closed \/ Noted \/ Deleted \/ TimeoutListener \/ TimeoutListenerEnds
  \/ ReadStdOut \/ ReadStdErr \/ EndStdOut \/ EndStdErr
  \/ \E o \in Outputs : PipeBreaks(o) \/ \E nul \in BOOLEAN : Write(o, nul)

----------------------------------------------------------------------------
(* What a getter may answer: the text so far, and no text that anything    *)
(* could be told of when the record is freed or was not made.              *)
Output(o) == IF child.reader[o] \in {"none", "freed"} THEN {} ELSE {child.data[o]}
GetOutput == Output("out")
GetErrorOutput == Output("err")

(* The low byte of the status. *)
GetExitCode == child.exitCode % 256

----------------------------------------------------------------------------
(* What holds, as long as no number went astray.                           *)

(* Nothing is left of the process when its object is deleted, and while it *)
(* is kept its end is known just when it has been waited for (unless Close *)
(* came late).                                                             *)
IsReaped ==
  ~child.astray =>
    /\ child.js = "deleted" => child.proc \in {"none", "gone"}
    /\ child.js = "idle" /\ child.proc # "none" => (child.isWait \/ child.proc = "gone")
    /\ child.js = "idle" /\ child.proc = "gone" => (~child.isWait \/ child.late)

(* Whichever call has taken the status, the object keeps the one that the  *)
(* process ended with, and shows a signal as its number.  Of exit codes    *)
(* nothing is said: 0 is shown instead of the child's (README, finding 6). *)
StatusIsKept ==
  child.js = "idle" /\ child.proc = "gone" /\ ~child.late /\ ~child.astray =>
    /\ child.exitCode = child.how
    /\ child.how \in Signals \cup {SIGKILL, SIGPIPE} => GetExitCode = child.how

(* An output is what was written, from the beginning and in order; a gap   *)
(* begins with a NUL.                                                      *)
InOrder(text, wrote) ==
  \A i \in 1..Len(text) :
    LET last == IF i = 1 THEN 0 ELSE text[i - 1] IN
    /\ last < text[i]
    /\ text[i] # last + 1 => wrote[last + 1] = 0

OutputIsInOrder ==
  /\ \A text \in GetOutput : InOrder(text, child.wrote["out"])
  /\ \A text \in GetErrorOutput : InOrder(text, child.wrote["err"])

(* More than maxBuffer is not read on, but of a process that is gone.      *)
OutputIsLimited ==
  \A o \in Outputs :
    Len(child.data[o]) > child.max /\ child.reader[o] = "reading" =>
      ~child.isNeedRun \/ child.proc = "gone" \/ child.js = "deleted"

(* A command that runs is read from, so that it is not stuck at a pipe     *)
(* while the script waits for it, unless it survived a signal to end.      *)
ReadWhileItRuns ==
  child.proc = "running" /\ ~child.astray /\ child.js \notin {"deleting", "deleted"} =>
    \/ \A o \in Outputs : child.reader[o] \notin {"ended", "freed"}
    \/ child.defied
=============================================================================
