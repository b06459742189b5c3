------------------------------- MODULE Streams -------------------------------
(***************************************************************************)
(* @ohos.util.stream: stream/src/stream_js.ts.  A Readable and a Writable, *)
(* used alone or joined by pipe.  Everything runs on one thread; what the  *)
(* code leaves to Promise.resolve().then is in a queue of its own, and     *)
(* doRead and doWrite are the program's.  A chunk is the sequence of the   *)
(* units it was made of, numbered as the source has made them.             *)
(***************************************************************************)
EXTENDS Integers, Sequences, SequencesExt

CONSTANTS
  MaxUnits,      \* bound: the units the source makes
  HighWatermark  \* of both streams

VARIABLE streams

Units == 1..MaxUnits
Modes == {"pipe", "data", "write"}

(* r.jobs: queued Promise jobs; r.data, r.ends: what was emitted           *)
(* w.open, w.vectors: writes whose callback is still to come               *)
(* w.accepted, w.started: what write has taken, and what doWrite was given *)
(* sync: doWrite calls back before it returns; vector: there is a doWritev *)
TypeOK ==
  /\ streams.mode \in Modes /\ streams.sync \in BOOLEAN /\ streams.vector \in BOOLEAN
  /\ streams.made \in 0..MaxUnits /\ streams.exhausted \in BOOLEAN
  /\ \A f \in {"flowing", "readable", "ended", "paused"} : streams.r[f] \in BOOLEAN
  /\ streams.r.buf \in Seq(Units) /\ streams.r.data \in Seq(Units)
  /\ streams.r.ends \in 0..1 /\ streams.r.hwm \in Nat
  /\ \A f \in {"writing", "ending", "needDrain", "finished", "ended", "errored", "finishing"} :
       streams.w[f] \in BOOLEAN
  /\ streams.w.corked \in Nat /\ streams.w.length \in Int /\ streams.w.vectors \in Nat
  /\ streams.w.accepted \in Seq(Units) /\ streams.w.started \in Seq(Units)
  /\ streams.w.buffer \in Seq(Seq(Units)) /\ streams.w.open \in Seq(Seq(Units))

(* The constructors; a Readable asks for data at once. *)
NewReadable(mode) ==
  [buf |-> <<>>, flowing |-> TRUE, readable |-> TRUE, ended |-> FALSE, paused |-> FALSE,
   hwm |-> HighWatermark, data |-> <<>>, ends |-> 0,
   jobs |-> IF mode = "write" THEN <<>> ELSE <<<<"data">>>>]

NewWritable ==
  [buffer |-> <<>>, writing |-> FALSE, ending |-> FALSE, corked |-> 0, length |-> 0,
   needDrain |-> FALSE, finished |-> FALSE, ended |-> FALSE, errored |-> FALSE,
   finishing |-> FALSE, accepted |-> <<>>, started |-> <<>>, open |-> <<>>, vectors |-> 0, gaps |-> {}]

Init ==
  \E mode \in Modes, sync, vector \in BOOLEAN :
    /\ mode # "write" => ~sync /\ ~vector
    /\ streams = [mode |-> mode, sync |-> sync, vector |-> vector, made |-> 0, exhausted |-> FALSE, gaps |-> {},
                  r |-> NewReadable(mode), w |-> NewWritable]

Pop(s) == SubSeq(s, 2, Len(s))

----------------------------------------------------------------------------
(* Writable *)

FinishMayBe(w) == ~w.writing /\ w.corked = 0 /\ w.ending

DoWrite(w, chunk) == [w EXCEPT !.started = @ \o chunk, !.open = Append(@, chunk)]

\* Mutant: the chunk that was buffered last is written first.
FreshCacheLast(w) ==
  IF w.buffer # <<>>
  THEN [DoWrite(w, Last(w.buffer)) EXCEPT !.buffer = Front(@), !.length = @ - Len(Last(w.buffer))]
  ELSE [w EXCEPT !.writing = FALSE, !.length = 0, !.needDrain = @ /\ w.ending]

(* freshCache: the next chunk, or a drain. *)
FreshCache(w) ==
  IF w.buffer # <<>>
  THEN [DoWrite(w, Head(w.buffer)) EXCEPT !.buffer = Pop(@), !.length = @ - Len(Head(w.buffer))]
  ELSE LET idle == [w EXCEPT !.writing = FALSE, !.length = 0] IN
       IF FinishMayBe(idle) THEN idle ELSE [idle EXCEPT !.needDrain = FALSE]

(* freshCache, when every doWrite calls back at once: the length that the  *)
(* innermost call has set to 0 is reduced by all chunks.                   *)
FreshCacheSync(w) ==
  LET idle == [w EXCEPT !.started = @ \o FlattenSeq(w.buffer), !.buffer = <<>>, !.writing = FALSE,
                        !.length = 0 - Len(FlattenSeq(w.buffer))]
  IN  IF FinishMayBe(idle) THEN idle ELSE [idle EXCEPT !.needDrain = FALSE]

(* write: nothing is written after the end or an error. *)
Write(w, chunk, sync) ==
  LET taken == [w EXCEPT !.length = @ + Len(chunk), !.accepted = @ \o chunk]
      full == taken.length >= HighWatermark
      begun == [taken EXCEPT !.writing = TRUE]
      written == IF w.corked > 0 \/ w.writing THEN [taken EXCEPT !.buffer = Append(@, chunk)]
                 ELSE IF sync THEN FreshCacheSync([begun EXCEPT !.started = @ \o chunk])
                 ELSE DoWrite(begun, chunk)
  IN  IF (w.ending /\ ~w.writing) \/ w.errored THEN w ELSE [written EXCEPT !.needDrain = @ \/ full]

(* freshCacheV: doWritev gets all chunks, which are dropped by its         *)
(* callback; without it freshCache starts one, and does not set writing.   *)
FreshCacheV(w, sync, vector) ==
  IF w.buffer = <<>> THEN w
  ELSE IF vector
       THEN [w EXCEPT !.started = @ \o FlattenSeq(w.buffer), !.vectors = @ + 1,
                      !.needDrain = @ \/ ~FinishMayBe(w), !.gaps = @ \cup {"vectored"}]
       ELSE [IF sync THEN FreshCacheSync(w) ELSE FreshCache(w) EXCEPT !.gaps = @ \cup {"uncorked"}]

Uncorked(w, sync, vector) ==
  LET less == [w EXCEPT !.corked = IF @ > 0 THEN @ - 1 ELSE 0] IN
  IF less.corked = 0 THEN FreshCacheV(less, sync, vector) ELSE less

(* endInner: a last chunk is written, but when a write is under way nothing *)
(* is finished then; without one the stream is finished at once.           *)
EndInner(w, chunk, sync) ==
  IF chunk = <<>>
  THEN [w EXCEPT !.finished = TRUE, !.finishing = TRUE,
                 !.gaps = IF w.open # <<>> THEN @ \cup {"finishedEarly"} ELSE @]
  ELSE IF w.writing THEN [Write(w, chunk, sync) EXCEPT !.gaps = @ \cup {"unfinished"}]
  ELSE [DoWrite(w, chunk) EXCEPT !.accepted = @ \o chunk, !.gaps = @ \cup {"lastChunk"}]

(* end: in a corked stream the last chunk is lost. *)
End(w, chunk, sync, vector) ==
  LET ending == [w EXCEPT !.needDrain = FALSE, !.ending = TRUE]
      corked == [Uncorked([ending EXCEPT !.corked = 1], sync, vector) EXCEPT !.gaps = @ \cup {"unfinished"}]
  IN  IF w.finished \/ w.ended THEN [w EXCEPT !.errored = TRUE]
      ELSE IF w.errored THEN w
      ELSE [IF w.corked = 0 THEN EndInner(ending, chunk, sync) ELSE corked EXCEPT !.ended = TRUE]

----------------------------------------------------------------------------
(* Readable *)

Job(s, job) == [s EXCEPT !.r.jobs = Append(@, job)]

(* computeNewReadableHighWatermark: the next power of two. *)
NextPower(n) == CHOOSE p \in {1, 2, 4, 8} : p >= n /\ \A q \in {1, 2, 4, 8} : q >= n => p <= q

(* push, of a chunk of n units *)
Push(s, n) ==
  LET buf == s.r.buf \o [i \in 1..n |-> s.made + i] IN
  Job([s EXCEPT !.made = @ + n, !.r.buf = buf,
                !.gaps = IF Len(buf) > s.r.hwm THEN @ \cup {"overfull"} ELSE @], <<"push", Len(buf) <= s.r.hwm>>)

PushNull(s) ==
  LET last == [s EXCEPT !.exhausted = TRUE] IN
  IF s.r.ended \/ ~s.r.readable THEN last ELSE Job([last EXCEPT !.r.readable = FALSE], <<"end">>)

(* doRead of the program may push at once, later, or fail. *)
Source(s) ==
  IF s.exhausted THEN {} ELSE {PushNull(s)} \cup {Push(s, n) : n \in 1..(MaxUnits - s.made)}
DoRead(s) == {s} \cup Source(s)
DoReadFails(s) == [s EXCEPT !.r.readable = FALSE, !.r.ended = TRUE, !.exhausted = TRUE]

(* A DATA event, and the dataCallback of a pipe. *)
Piped(s) ==
  IF s.w.length > HighWatermark
  THEN [s EXCEPT !.r.paused = TRUE, !.r.flowing = FALSE, !.gaps = @ \cup {"pressed"}] ELSE s
Emitted(s, chunk) ==
  LET emitted == [s EXCEPT !.r.data = @ \o chunk] IN
  IF s.mode # "pipe" THEN emitted ELSE Piped([emitted EXCEPT !.w = Write(@, chunk, FALSE)])

ReadOn(s, n) == IF s.r.flowing /\ s.r.readable /\ n >= 0 THEN DoRead(s) \cup {DoReadFails(s)} ELSE {s}
Read(s, size) ==
  LET length == Len(s.r.buf)
      n == IF size > length THEN length ELSE size
      grown == [s EXCEPT !.r.hwm = IF size > @ THEN NextPower(size) ELSE @]
      taken == IF n <= 0 THEN grown
               ELSE Emitted([grown EXCEPT !.r.buf = SubSeq(@, n + 1, length)], SubSeq(s.r.buf, 1, n))
  IN  IF size > length /\ ~s.r.flowing THEN {grown}
      ELSE ReadOn(taken, n)

(* drainCallback of a pipe *)
Drained(s) ==
  IF s.mode = "pipe" THEN Read([s EXCEPT !.r.paused = FALSE, !.r.flowing = TRUE], Len(s.r.buf)) ELSE {s}

(* END and CLOSE; a pipe ends its destination. *)
Ended(s) ==
  LET ended == [s EXCEPT !.r.ended = TRUE, !.r.paused = TRUE, !.r.ends = @ + 1] IN
  IF s.mode = "pipe" THEN [ended EXCEPT !.w = End(@, <<>>, FALSE, FALSE)] ELSE ended

(* A job that was left to a Promise. *)
JobDone(s, job) ==
  LET length == Len(s.r.buf) IN
  CASE job[1] = "push" /\ s.r.flowing ->
         IF s.r.paused THEN {s} ELSE Read(s, IF job[2] THEN length ELSE -1)
    [] job[1] = "push" /\ ~s.r.flowing -> IF job[2] THEN DoRead(s) ELSE {s}
    [] job[1] = "data" ->
         LET s1 == [s EXCEPT !.r.flowing = TRUE] IN IF s.r.paused THEN {s1} ELSE Read(s1, length)
    [] job[1] = "resume" -> Read(s, IF s.r.hwm < length THEN -1 ELSE length)
    [] job[1] = "pause" -> {[s EXCEPT !.r.flowing = FALSE]}
    [] job[1] = "end" -> {Ended(s)}

RunJob ==
  /\ streams.r.jobs # <<>>
  /\ streams' \in JobDone([streams EXCEPT !.r.jobs = Pop(@)], Head(streams.r.jobs))

----------------------------------------------------------------------------
(* The program. *)

Reading == streams.mode # "write"

(* The source pushes of its own accord. *)
SourcePush == Reading /\ streams' \in Source(streams)

PushInvalid ==
  /\ Reading /\ ~streams.exhausted
  /\ streams' = [streams EXCEPT !.r.readable = FALSE, !.exhausted = TRUE]

CallRead ==
  /\ streams.mode = "data"
  /\ \E size \in {0, 1, Len(streams.r.buf)} : streams' \in Read(streams, size)

Pause ==
  /\ Reading /\ ~streams.r.paused /\ streams.r.jobs = <<>>
  /\ streams' = Job([streams EXCEPT !.r.paused = TRUE, !.gaps = @ \cup {"paused"}], <<"pause">>)

Resume ==
  /\ Reading /\ streams.r.paused /\ streams.r.jobs = <<>>
  /\ LET s == [streams EXCEPT !.r.paused = FALSE, !.r.flowing = TRUE, !.gaps = @ \cup {"resumed"}] IN
     streams' = IF streams.r.buf = <<>> THEN Job(s, <<"resume">>) ELSE s

(* unpipe does not find the listeners pipe has added. *)
Unpipe ==
  /\ streams.mode = "pipe"
  /\ streams' = [streams EXCEPT !.r.readable = FALSE]

CallWrite ==
  /\ ~Reading /\ streams.made < MaxUnits
  /\ streams' = [streams EXCEPT !.made = @ + 1, !.w = Write(@, <<streams.made + 1>>, streams.sync)]

Cork ==
  /\ ~Reading /\ streams.w.corked < 2
  /\ streams' = [streams EXCEPT !.w.corked = @ + 1]

Uncork ==
  /\ ~Reading /\ Len(streams.w.started) <= MaxUnits
  /\ streams' = [streams EXCEPT !.w = Uncorked(@, streams.sync, streams.vector)]

CallEnd ==
  /\ ~Reading /\ Len(streams.w.started) <= MaxUnits
  /\ \/ streams' = [streams EXCEPT !.w = End(@, <<>>, streams.sync, streams.vector)]
     \/ /\ streams.made < MaxUnits
        /\ streams' = [streams EXCEPT !.made = @ + 1,
                                      !.w = End(@, <<streams.made + 1>>, streams.sync, streams.vector)]

(* doWrite calls back, with an error or without; a second call only emits. *)
Callback ==
  \E i \in DOMAIN streams.w.open :
    LET w == [streams.w EXCEPT !.open = RemoveAt(@, i)]
        last == "lastChunk" \in w.gaps /\ w.buffer = <<>> /\ ~w.writing
        next == FreshCache(w)
        failed == IF last THEN {w} ELSE IF Reading THEN {next} ELSE {w, next}  \* bytes or a string
    IN \/ \E f \in failed : streams' = [streams EXCEPT !.w = [f EXCEPT !.errored = TRUE]]
       \/ /\ last
          /\ streams' = [streams EXCEPT !.w = [w EXCEPT !.length = @ - Len(streams.w.open[i]),
                                                       !.finished = TRUE, !.finishing = TRUE]]
       \/ /\ ~last
          /\ IF w.buffer = <<>> /\ ~FinishMayBe(next) THEN streams' \in Drained([streams EXCEPT !.w = next])
             ELSE streams' = [streams EXCEPT !.w = next]

(* doWritev calls back. *)
VectorCallback ==
  /\ streams.w.vectors > 0
  /\ \/ streams' = [streams EXCEPT !.w.vectors = @ - 1, !.w.buffer = <<>>]
     \/ streams' = [streams EXCEPT !.w.vectors = @ - 1, !.w.errored = TRUE]

(* The timer of FINISH. *)
Finish ==
  /\ streams.w.finishing
  /\ streams' = [streams EXCEPT !.w.finishing = FALSE]

Next ==
  \/ RunJob \/ SourcePush \/ PushInvalid \/ CallRead \/ Pause \/ Resume \/ Unpipe
  \/ CallWrite \/ Cork \/ Uncork \/ CallEnd \/ Callback \/ VectorCallback \/ Finish

----------------------------------------------------------------------------
(* What must hold.  Of a Readable that goes wrong, these are the ways:     *)
(*   overfull: a push beyond the high watermark is not emitted (read(-1))  *)
(*   paused, pressed: the source ends while it is paused, by the program   *)
(*     or by the destination of a pipe: END overtakes what is buffered     *)
(*   resumed: resume emits nothing of what is buffered; and it goes past   *)
(*     the pressure of a destination                                       *)
(* and of a Writable:                                                      *)
(*   uncorked: freshCacheV starts a chunk and does not set writing: later  *)
(*     writes overtake what is still buffered                              *)
(*   vectored: what is buffered while doWritev works is dropped with it    *)
(*   lastChunk, unfinished, finishedEarly: the chunk of end is not in      *)
(*     writableLength, FINISH does not come, or before the writes are done *)

(* Nothing the source has made is lost or repeated: it has been emitted,   *)
(* in its order, or it is in the buffer.                                   *)
EmittedInOrder == Reading => streams.r.data \o streams.r.buf = [i \in 1..streams.made |-> i]

(* END comes after all data. *)
EndLast ==
  streams.r.ends = 1 /\ streams.r.buf # <<>> => streams.gaps \cap {"paused", "overfull", "pressed"} # {}

(* What is buffered in a flowing stream will be read by a job.             *)
NotStalled ==
  Reading /\ streams.r.buf # <<>> /\ streams.r.flowing /\ ~streams.r.paused =>
    streams.r.jobs # <<>> \/ streams.gaps \cap {"overfull", "resumed"} # {}

(* doWrite is given what write has accepted, in that order. *)
WrittenInOrder ==
  streams.w.gaps \cap {"uncorked", "vectored"} = {} =>
    streams.w.started \o FlattenSeq(streams.w.buffer) = streams.w.accepted

(* One doWrite at a time; writableLength covers at least what is buffered. *)
Backlog ==
  streams.w.gaps = {} /\ ~streams.w.errored =>
    /\ Len(streams.w.open) <= 1
    /\ streams.w.open = <<>> /\ streams.w.corked = 0 => streams.w.length = 0 /\ streams.w.buffer = <<>>
    /\ streams.w.open # <<>> => streams.w.length > Len(FlattenSeq(streams.w.buffer))

(* A writer that was told to wait for a drain gets one, unless doWrite has *)
(* called back at once: then the drain is over before write returns.       *)
DrainComes ==
  streams.w.needDrain /\ ~streams.w.errored /\ ~streams.w.ending /\ ~streams.sync =>
    streams.w.open # <<>> \/ streams.w.corked > 0 \/ "vectored" \in streams.w.gaps

(* A pipe puts no more into its destination than one buffer beyond its     *)
(* high watermark.                                                         *)
Pressure ==
  streams.mode = "pipe" /\ streams.gaps \cap {"resumed", "overfull"} = {} =>
    streams.w.length <= 2 * HighWatermark
=============================================================================
