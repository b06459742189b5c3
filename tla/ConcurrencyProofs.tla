-------------------------- MODULE ConcurrencyProofs --------------------------
(***************************************************************************)
(* What WorkerPoolProofs, TaskProofs and WorkerProofs show of each part    *)
(* holds of the specification that the runs check: one part runs, and      *)
(* keeps its invariant.  That of the child process comes first.            *)
(***************************************************************************)
EXTENDS ConcurrencyMC, TLAPS

----------------------------------------------------------------------------
(* The child process.  Its status is taken by the thread of the script     *)
(* alone, so that it is known of every place of that thread whether it is  *)
(* still there; of every output it is known how far it was read.           *)

Written == [out |-> MaxOut, err |-> MaxErr]

(* What the system and the options are: a signal is the low byte of a      *)
(* status, an exit code the one above it.                                  *)
ProcessAssumption ==
  /\ Signals \subseteq 1..127 /\ ExitCodes \subseteq 0..255
  /\ Limits \subseteq Nat /\ PipeSize \in Nat /\ ReadSize \in Nat /\ MaxOut \in Nat /\ MaxErr \in Nat

Scripts == {"new", "idle", "waiting", "closing", "noting", "deleting", "deleted"}
Processes == {"none", "running", "zombie", "gone"}
ListenerPlaces == {"none", "asleep", "killing", "done", "freed"}
ReaderPlaces == {"none", "looking", "reading", "killing", "ended", "freed"}

(* The values of child. *)
ProcessValues ==
  [js : Scripts, proc : Processes, how : Process!Statuses \cup {0},
   status : Process!Statuses \cup {0, 99}, exitCode : Process!Statuses \cup {0, 99},
   listener : ListenerPlaces, max : Nat, reader : [Process!Outputs -> ReaderPlaces],
   wrote : [Process!Outputs -> Seq(Nat)], pipe : [Process!Outputs -> Seq(Nat)],
   data : [Process!Outputs -> Seq(Nat)],
   isWait : BOOLEAN, isNeedRun : BOOLEAN, defied : BOOLEAN, late : BOOLEAN, astray : BOOLEAN]

(* Where the thread of the script is, and what it has left of the process. *)
Scripted(c) ==
  /\ c.js = "new" =>
       /\ c.proc = "none" /\ c.listener = "none" /\ c.isWait /\ c.isNeedRun
       /\ \A o \in Process!Outputs :
            c.wrote[o] = <<>> /\ c.pipe[o] = <<>> /\ c.data[o] = <<>> /\ c.reader[o] = "none"
  /\ c.js = "waiting" => ~c.isWait
  /\ c.js = "closing" => c.isWait /\ c.proc \in {"running", "zombie"}
  /\ c.js = "deleted" => ~c.isNeedRun
  /\ \A o \in Process!Outputs : c.reader[o] \in {"ended", "freed"} => ~c.isNeedRun

(* Unless a number went astray: who has waited for the process, and knows  *)
(* its status.                                                             *)
Awaited(c) ==
  /\ c.js \in {"noting", "deleted"} \/ (~c.isWait /\ c.js # "waiting") => c.proc \in {"none", "gone"}
  /\ ~c.late /\ c.proc = "gone" =>
       /\ c.js # "waiting" /\ (c.isWait => c.js \in {"noting", "deleted"})
       /\ c.js = "noting" => c.status = c.how
       /\ c.js = "idle" => c.exitCode = c.how
  /\ c.proc = "running" /\ c.js \notin {"deleting", "deleted"} /\ ~c.isNeedRun => c.defied

(* An output: what is in the pipe is the end of what was written, the text *)
(* is a part of what was read, ...                                         *)
Traced(wrote, pipe, text) ==
  /\ Len(pipe) <= Len(wrote)
  /\ \A i \in 1..Len(wrote) : wrote[i] \in {0, i}
  /\ \A i \in 1..Len(pipe) : pipe[i] = wrote[Len(wrote) - Len(pipe) + i]
  /\ \A i \in 1..Len(text) : text[i] <= Len(wrote) - Len(pipe)
  /\ Process!InOrder(text, wrote)

(* ... and all of it but what a NUL has cut off, ...                       *)
EndOf(text) == IF text = <<>> THEN 0 ELSE text[Len(text)]
Gapless(wrote, pipe, text) ==
  EndOf(text) < Len(wrote) - Len(pipe) => wrote[EndOf(text) + 1] = 0

(* ... unless it was cut at its limit, after which nothing is read.        *)
Kept(c, o) ==
  /\ Len(c.wrote[o]) <= Written[o] /\ Len(c.pipe[o]) <= PipeSize
  /\ Traced(c.wrote[o], c.pipe[o], c.data[o])
  /\ \/ Gapless(c.wrote[o], c.pipe[o], c.data[o])
     \/ ~c.isNeedRun /\ c.reader[o] \in {"looking", "ended", "freed"}
  /\ c.reader[o] = "killing" => Len(c.data[o]) > c.max
  /\ c.reader[o] \in {"looking", "reading"} /\ Len(c.data[o]) > c.max =>
       ~c.isNeedRun \/ c.proc = "gone" \/ c.js = "deleted"

ProcessInv ==
  /\ state \in ProcessValues /\ Scripted(state) /\ (~state.astray => Awaited(state))
  /\ \A o \in Process!Outputs : Kept(state, o)

(* The fields of a value of child. *)
LEMMA ProcessFields ==
  ASSUME NEW c \in ProcessValues
  PROVE  /\ c.js \in Scripts /\ c.proc \in Processes /\ c.how \in Process!Statuses \cup {0}
         /\ c.status \in Process!Statuses \cup {0, 99} /\ c.exitCode \in Process!Statuses \cup {0, 99}
         /\ c.listener \in ListenerPlaces /\ c.max \in Nat /\ c.reader \in [Process!Outputs -> ReaderPlaces]
         /\ c.wrote \in [Process!Outputs -> Seq(Nat)] /\ c.pipe \in [Process!Outputs -> Seq(Nat)]
         /\ c.data \in [Process!Outputs -> Seq(Nat)]
         /\ c.isWait \in BOOLEAN /\ c.isNeedRun \in BOOLEAN /\ c.defied \in BOOLEAN
         /\ c.late \in BOOLEAN /\ c.astray \in BOOLEAN
BY ZenonT(60) DEF ProcessValues

(* The places have their names. *)
LEMMA ProcessPlacesAre ==
  /\ "new" \in Scripts /\ "idle" \in Scripts /\ "waiting" \in Scripts /\ "closing" \in Scripts
  /\ "noting" \in Scripts /\ "deleting" \in Scripts /\ "deleted" \in Scripts
  /\ "none" \in Processes /\ "running" \in Processes /\ "zombie" \in Processes /\ "gone" \in Processes
  /\ "none" \in ListenerPlaces /\ "asleep" \in ListenerPlaces /\ "killing" \in ListenerPlaces
  /\ "done" \in ListenerPlaces /\ "freed" \in ListenerPlaces
  /\ "none" \in ReaderPlaces /\ "looking" \in ReaderPlaces /\ "reading" \in ReaderPlaces
  /\ "killing" \in ReaderPlaces /\ "ended" \in ReaderPlaces /\ "freed" \in ReaderPlaces
  /\ "out" \in Process!Outputs /\ "err" \in Process!Outputs
BY Zenon DEF Scripts, Processes, ListenerPlaces, ReaderPlaces, Process!Outputs

(* The statuses of a process. *)
LEMMA StatusesAre ==
  /\ Signals \subseteq Process!Statuses /\ 9 \in Process!Statuses /\ 13 \in Process!Statuses
  /\ \A code \in ExitCodes : 256 * code \in Process!Statuses
BY DEF Process!Statuses, Process!SIGKILL, Process!SIGPIPE

----------------------------------------------------------------------------
(* One output. *)

(* The beginning and the end of a sequence, and two of them together. *)
LEMMA BeginningIs ==
  ASSUME NEW s \in Seq(Nat), NEW n \in 0..Len(s)
  PROVE  /\ SubSeq(s, 1, n) \in Seq(Nat) /\ Len(SubSeq(s, 1, n)) = n
         /\ \A i \in 1..n : SubSeq(s, 1, n)[i] = s[i]
<1>1. 1 \in Int /\ n \in Int /\ n \in Nat /\ \A i \in 1..n : s[i] \in Nat
  OBVIOUS
<1>2. /\ SubSeq(s, 1, n) \in Seq(Nat) /\ Len(SubSeq(s, 1, n)) = IF 1 <= n THEN n - 1 + 1 ELSE 0
      /\ \A i \in 1..(n - 1 + 1) : SubSeq(s, 1, n)[i] = s[1 + i - 1]
  BY <1>1, SubSeqProperties
<1>3. (IF 1 <= n THEN n - 1 + 1 ELSE 0) = n /\ 1..(n - 1 + 1) = 1..n
  BY <1>1
<1>4. \A i \in 1..n : 1 + i - 1 = i
  BY <1>1
<1> QED BY <1>2, <1>3, <1>4, Zenon

LEMMA EndIs ==
  ASSUME NEW s \in Seq(Nat), NEW n \in 0..Len(s)
  PROVE  /\ SubSeq(s, n + 1, Len(s)) \in Seq(Nat) /\ Len(SubSeq(s, n + 1, Len(s))) = Len(s) - n
         /\ \A i \in 1..(Len(s) - n) : SubSeq(s, n + 1, Len(s))[i] = s[n + i]
<1>1. n + 1 \in Int /\ Len(s) \in Int /\ n \in Nat /\ Len(s) \in Nat /\ \A i \in (n + 1)..Len(s) : s[i] \in Nat
  OBVIOUS
<1>2. /\ SubSeq(s, n + 1, Len(s)) \in Seq(Nat)
      /\ Len(SubSeq(s, n + 1, Len(s))) = IF n + 1 <= Len(s) THEN Len(s) - (n + 1) + 1 ELSE 0
      /\ \A i \in 1..(Len(s) - (n + 1) + 1) : SubSeq(s, n + 1, Len(s))[i] = s[(n + 1) + i - 1]
  BY <1>1, SubSeqProperties
<1>3. /\ (IF n + 1 <= Len(s) THEN Len(s) - (n + 1) + 1 ELSE 0) = Len(s) - n
      /\ 1..(Len(s) - (n + 1) + 1) = 1..(Len(s) - n)
  BY <1>1
<1>4. \A i \in 1..(Len(s) - n) : (n + 1) + i - 1 = n + i
  BY <1>1
<1> QED BY <1>2, <1>3, <1>4, Zenon

LEMMA JoinedIs ==
  ASSUME NEW s \in Seq(Nat), NEW t \in Seq(Nat)
  PROVE  /\ s \o t \in Seq(Nat) /\ Len(s \o t) = Len(s) + Len(t)
         /\ \A i \in 1..Len(s) : (s \o t)[i] = s[i]
         /\ \A i \in 1..Len(t) : (s \o t)[Len(s) + i] = t[i]
<1>1. /\ s \o t \in Seq(Nat) /\ Len(s \o t) = Len(s) + Len(t)
      /\ \A i \in 1..Len(s) + Len(t) : (s \o t)[i] = IF i <= Len(s) THEN s[i] ELSE t[i - Len(s)]
  BY ConcatProperties
<1>2. \A i \in 1..Len(s) : i \in 1..Len(s) + Len(t) /\ i <= Len(s)
  OBVIOUS
<1>3. \A i \in 1..Len(t) :
        Len(s) + i \in 1..Len(s) + Len(t) /\ ~(Len(s) + i <= Len(s)) /\ (Len(s) + i) - Len(s) = i
  OBVIOUS
<1> QED BY <1>1, <1>2, <1>3, Zenon

(* What is written comes to the end of the pipe. *)
LEMMA WrittenIsTraced ==
  ASSUME NEW wrote \in Seq(Nat), NEW pipe \in Seq(Nat), NEW text \in Seq(Nat),
         NEW unit \in {0, Len(wrote) + 1}, Traced(wrote, pipe, text)
  PROVE  /\ Traced(Append(wrote, unit), Append(pipe, unit), text)
         /\ Gapless(wrote, pipe, text) => Gapless(Append(wrote, unit), Append(pipe, unit), text)
<1> DEFINE w == Append(wrote, unit)
           p == Append(pipe, unit)
<1>1. /\ Len(w) = Len(wrote) + 1 /\ \A i \in 1..Len(wrote) : w[i] = wrote[i]
      /\ w[Len(wrote) + 1] = unit
      /\ Len(p) = Len(pipe) + 1 /\ \A i \in 1..Len(pipe) : p[i] = pipe[i]
      /\ p[Len(pipe) + 1] = unit
  BY AppendProperties
<1>2. /\ Len(wrote) \in Nat /\ Len(pipe) \in Nat /\ Len(text) \in Nat /\ Len(pipe) <= Len(wrote)
      /\ \A i \in 1..Len(text) : text[i] \in Nat /\ text[i] <= Len(wrote) - Len(pipe)
  BY DEF Traced
<1> HIDE DEF w, p
<1>3. \A i \in 1..Len(w) : w[i] \in {0, i}
  <2> TAKE i \in 1..Len(w)
  <2>1. CASE i = Len(wrote) + 1
    BY <1>1, <2>1
  <2>2. CASE i \in 1..Len(wrote)
    <3>1. wrote[i] \in {0, i} /\ w[i] = wrote[i]
      BY <1>1, <2>2 DEF Traced
    <3> QED BY <3>1
  <2>3. i = Len(wrote) + 1 \/ i \in 1..Len(wrote)
    BY <1>1, <1>2
  <2> QED BY <2>1, <2>2, <2>3
<1>4. \A i \in 1..Len(p) : p[i] = w[Len(w) - Len(p) + i]
  <2> TAKE i \in 1..Len(p)
  <2>1. CASE i = Len(pipe) + 1
    BY <1>1, <1>2, <2>1
  <2>2. CASE i \in 1..Len(pipe)
    <3>1. Len(wrote) - Len(pipe) + i \in 1..Len(wrote)
      BY <1>2, <2>2
    <3>2. pipe[i] = wrote[Len(wrote) - Len(pipe) + i]
      BY <2>2 DEF Traced
    <3>3. Len(w) - Len(p) + i = Len(wrote) - Len(pipe) + i
      BY <1>1, <1>2, <2>2
    <3>4. p[i] = pipe[i]
      BY <1>1, <2>2, Zenon
    <3>5. w[Len(wrote) - Len(pipe) + i] = wrote[Len(wrote) - Len(pipe) + i]
      BY <1>1, <3>1, Zenon
    <3>6. w[Len(w) - Len(p) + i] = w[Len(wrote) - Len(pipe) + i]
      BY <3>3, Zenon
    <3> QED BY <3>2, <3>4, <3>5, <3>6
  <2>3. i = Len(pipe) + 1 \/ i \in 1..Len(pipe)
    <3>1. i \in 1..(Len(pipe) + 1)
      BY <1>1
    <3> QED BY <1>2, <3>1
  <2> QED BY <2>1, <2>2, <2>3
<1>5. Process!InOrder(text, w)
  <2> SUFFICES ASSUME NEW i \in 1..Len(text)
               PROVE  LET last == IF i = 1 THEN 0 ELSE text[i - 1] IN
                      last < text[i] /\ (text[i] # last + 1 => w[last + 1] = 0)
    BY DEF Process!InOrder
  <2> DEFINE last == IF i = 1 THEN 0 ELSE text[i - 1]
  <2>1. last < text[i] /\ (text[i] # last + 1 => wrote[last + 1] = 0)
    BY DEF Traced, Process!InOrder
  <2>2. last \in Nat
    <3>1. CASE i = 1
      BY <3>1
    <3>2. CASE i # 1
      <4>1. i - 1 \in 1..Len(text)
        BY <1>2, <3>2
      <4> QED BY <1>2, <3>2, <4>1
    <3> QED BY <3>1, <3>2
  <2>3. text[i] \in Nat /\ text[i] <= Len(wrote) - Len(pipe)
    BY <1>2
  <2> HIDE DEF last
  <2>4. last + 1 \in 1..Len(wrote)
    BY <1>2, <2>1, <2>2, <2>3
  <2>5. last < text[i] /\ (text[i] # last + 1 => w[last + 1] = 0)
    BY <1>1, <2>1, <2>4
  <2> QED BY <2>5 DEF last
<1>6. Traced(w, p, text)
  BY <1>1, <1>2, <1>3, <1>4, <1>5 DEF Traced
<1>7. ASSUME Gapless(wrote, pipe, text) PROVE Gapless(w, p, text)
  <2>1. EndOf(text) \in Nat
    BY <1>2 DEF EndOf
  <2>2. CASE EndOf(text) < Len(wrote) - Len(pipe)
    <3>1. EndOf(text) + 1 \in 1..Len(wrote)
      BY <1>2, <2>1, <2>2
    <3> QED BY <1>1, <1>7, <2>2, <3>1 DEF Gapless
  <2>3. CASE ~(EndOf(text) < Len(wrote) - Len(pipe))
    BY <1>1, <1>2, <2>1, <2>3 DEF Gapless
  <2> QED BY <2>2, <2>3
<1> QED BY <1>6, <1>7 DEF w, p

(* A text is read up to the first NUL. *)
LEMMA UpToNulIs ==
  ASSUME NEW units \in Seq(Nat)
  PROVE  \E m \in 0..Len(units) :
           /\ Process!UpToNul(units) = SubSeq(units, 1, m)
           /\ \A i \in 1..m : units[i] # 0
           /\ m < Len(units) => units[m + 1] = 0
<1> DEFINE nuls == {n \in 1..Len(units) : units[n] = 0}
           first == CHOOSE n \in nuls : \A k \in nuls : n <= k
<1>1. CASE nuls = {}
  <2>1. Process!UpToNul(units) = SubSeq(units, 1, Len(units))
    BY <1>1 DEF Process!UpToNul
  <2> QED BY <1>1, <2>1
<1>2. CASE nuls # {}
  <2>1. \E n \in nuls : \A k \in nuls : n <= k
    <3>1. nuls \in SUBSET Nat
      OBVIOUS
    <3> HIDE DEF nuls
    <3> QED BY <1>2, <3>1, LeastNumber
  <2>2. first \in nuls /\ \A k \in nuls : first <= k
    <3> HIDE DEF nuls
    <3> QED BY <2>1
  <2>3. Process!UpToNul(units) = SubSeq(units, 1, first - 1)
    BY <1>2 DEF Process!UpToNul
  <2> HIDE DEF first
  <2>4. first - 1 \in 0..Len(units) /\ units[(first - 1) + 1] = 0
    BY <2>2
  <2>5. \A i \in 1..(first - 1) : units[i] # 0
    BY <2>2
  <2> QED BY <2>3, <2>4, <2>5
<1> QED BY <1>1, <1>2

(* What is read leaves the pipe, and comes to the end of the text. *)
LEMMA ReadIsTraced ==
  ASSUME NEW wrote \in Seq(Nat), NEW pipe \in Seq(Nat), NEW text \in Seq(Nat), NEW n \in 0..Len(pipe),
         Traced(wrote, pipe, text), Gapless(wrote, pipe, text)
  PROVE  LET rest == SubSeq(pipe, n + 1, Len(pipe))
             longer == text \o Process!UpToNul(SubSeq(pipe, 1, n))
         IN /\ rest \in Seq(Nat) /\ longer \in Seq(Nat) /\ Len(rest) <= Len(pipe)
            /\ Traced(wrote, rest, longer) /\ Gapless(wrote, rest, longer)
<1>1. PICK k \in Nat, size \in Nat, room \in Nat :
        Len(wrote) = size /\ Len(pipe) = room /\ size = k + room /\ k = Len(wrote) - Len(pipe)
  <2>1. Len(wrote) \in Nat /\ Len(pipe) \in Nat /\ Len(pipe) <= Len(wrote)
    BY DEF Traced
  <2>2. Len(wrote) - Len(pipe) \in Nat /\ Len(wrote) = (Len(wrote) - Len(pipe)) + Len(pipe)
    BY <2>1
  <2> QED BY <2>1, <2>2
<1>2. PICK length \in Nat : Len(text) = length
  OBVIOUS
<1>3. /\ n \in 0..room
      /\ \A i \in 1..length : text[i] \in Nat /\ text[i] <= k
      /\ \A i \in 1..room : pipe[i] \in Nat /\ pipe[i] = wrote[k + i]
      /\ \A i \in 1..size : wrote[i] \in Nat /\ (wrote[i] = 0 \/ wrote[i] = i)
  <2>1. n \in 0..room
    BY <1>1
  <2>2. \A i \in 1..length : text[i] \in Nat /\ text[i] <= k
    BY <1>1, <1>2 DEF Traced
  <2>3. \A i \in 1..room : pipe[i] \in Nat
    BY <1>1
  <2>4. \A i \in 1..Len(pipe) : pipe[i] = wrote[Len(wrote) - Len(pipe) + i]
    BY DEF Traced
  <2>5. \A i \in 1..size : wrote[i] \in Nat
    BY <1>1
  <2>6. \A i \in 1..Len(wrote) : wrote[i] \in {0, i}
    BY DEF Traced
  <2>7. \A i \in 1..room : pipe[i] = wrote[k + i]
    BY <1>1, <2>4, Zenon
  <2>8. \A i \in 1..size : wrote[i] = 0 \/ wrote[i] = i
    BY <1>1, <2>6, Zenon
  <2> QED BY <2>1, <2>2, <2>3, <2>5, <2>7, <2>8
<1>4. PICK rest \in Seq(Nat) :
        /\ rest = SubSeq(pipe, n + 1, Len(pipe)) /\ Len(rest) = room - n
        /\ \A i \in 1..(room - n) : rest[i] = pipe[n + i]
  BY <1>1, EndIs, Zenon
<1>5. PICK units \in Seq(Nat) :
        units = SubSeq(pipe, 1, n) /\ Len(units) = n /\ \A i \in 1..n : units[i] = pipe[i]
  BY BeginningIs, Zenon
<1>6. PICK m \in 0..n : /\ Process!UpToNul(units) = SubSeq(units, 1, m)
                        /\ \A i \in 1..m : units[i] # 0
                        /\ m < n => units[m + 1] = 0
  BY <1>5, UpToNulIs
<1>7. PICK more \in Seq(Nat) :
        more = SubSeq(units, 1, m) /\ Len(more) = m /\ \A i \in 1..m : more[i] = k + i
  <2>1. m \in 0..Len(units)
    BY <1>5
  <2>2. /\ SubSeq(units, 1, m) \in Seq(Nat) /\ Len(SubSeq(units, 1, m)) = m
        /\ \A i \in 1..m : SubSeq(units, 1, m)[i] = units[i]
    BY <2>1, BeginningIs, Zenon
  <2>3. \A i \in 1..m : units[i] = k + i
    <3> TAKE i \in 1..m
    <3>1. i \in 1..n /\ i \in 1..room /\ k + i \in 1..size
      BY <1>1, <1>3
    <3>2. units[i] = wrote[k + i] /\ units[i] # 0
      BY <1>3, <1>5, <1>6, <3>1
    <3> QED BY <1>3, <3>1, <3>2
  <2> QED BY <2>2, <2>3, Zenon
<1>8. PICK longer \in Seq(Nat) :
        /\ longer = text \o more /\ Len(longer) = length + m
        /\ \A i \in 1..length : longer[i] = text[i]
        /\ \A i \in 1..m : longer[length + i] = k + i
  <2>1. /\ text \o more \in Seq(Nat) /\ Len(text \o more) = length + m
        /\ \A i \in 1..length : (text \o more)[i] = text[i]
        /\ \A i \in 1..m : (text \o more)[length + i] = more[i]
    <3>1. /\ text \o more \in Seq(Nat) /\ Len(text \o more) = Len(text) + Len(more)
          /\ \A i \in 1..Len(text) : (text \o more)[i] = text[i]
          /\ \A i \in 1..Len(more) : (text \o more)[Len(text) + i] = more[i]
      BY JoinedIs
    <3> QED BY <1>2, <1>7, <3>1
  <2>2. \A i \in 1..m : (text \o more)[length + i] = k + i
    BY <1>7, <2>1
  <2> QED BY <2>1, <2>2
<1>9. Len(wrote) - Len(rest) = k + n
  BY <1>1, <1>3, <1>4
<1>10. EndOf(text) \in 0..k /\ (EndOf(text) < k => wrote[EndOf(text) + 1] = 0)
  <2>1. EndOf(text) \in 0..k
    BY <1>2, <1>3, EmptySeq DEF EndOf
  <2> QED BY <1>1, <2>1 DEF Gapless
<1>11. EndOf(longer) = IF m = 0 THEN EndOf(text) ELSE k + m
  <2>1. CASE m = 0
    <3>1. more = <<>> /\ longer = text
      BY <1>7, <1>8, <2>1, EmptySeq, ConcatEmptySeq
    <3> QED BY <2>1, <3>1
  <2>2. CASE m # 0
    <3>1. longer # <<>> /\ m \in 1..m
      BY <1>8, <2>2, EmptySeq
    <3> QED BY <1>8, <2>2, <3>1 DEF EndOf
  <2> QED BY <2>1, <2>2
<1>12. m < n => wrote[k + m + 1] = 0
  <2> SUFFICES ASSUME m < n PROVE wrote[k + m + 1] = 0
    OBVIOUS
  <2>1. m + 1 \in 1..n /\ m + 1 \in 1..room
    BY <1>3
  <2>2. pipe[m + 1] = wrote[k + (m + 1)] /\ units[m + 1] = pipe[m + 1]
    BY <1>3, <1>5, <2>1
  <2> QED BY <1>6, <2>2
<1>13. Process!InOrder(longer, wrote)
  <2> SUFFICES ASSUME NEW i \in 1..Len(longer)
               PROVE  LET last == IF i = 1 THEN 0 ELSE longer[i - 1] IN
                      last < longer[i] /\ (longer[i] # last + 1 => wrote[last + 1] = 0)
    BY DEF Process!InOrder
  <2>1. CASE i \in 1..length
    <3>1. LET before == IF i = 1 THEN 0 ELSE text[i - 1] IN
          before < text[i] /\ (text[i] # before + 1 => wrote[before + 1] = 0)
      BY <1>2, <2>1 DEF Traced, Process!InOrder
    <3>2. longer[i] = text[i] /\ (i # 1 => longer[i - 1] = text[i - 1])
      <4>1. i # 1 => i - 1 \in 1..length
        BY <2>1
      <4> QED BY <1>8, <2>1, <4>1
    <3> QED BY <3>1, <3>2
  <2>2. CASE i = length + 1
    <3>1. 1 \in 1..m /\ longer[i] = k + 1
      <4>1. 1 \in 1..m
        <5>1. length + 1 \in 1..(length + m)
          BY <1>8, <2>2
        <5> QED BY <5>1
      <4> QED BY <1>8, <2>2, <4>1, Zenon
    <3>2. (IF i = 1 THEN 0 ELSE longer[i - 1]) = EndOf(text)
      <4>1. CASE length = 0
        BY <1>2, <2>2, <4>1, EmptySeq DEF EndOf
      <4>2. CASE length # 0
        <5>1. length \in 1..length /\ text # <<>> /\ i # 1 /\ i - 1 = length
          BY <1>2, <2>2, <4>2, EmptySeq
        <5> QED BY <1>2, <1>8, <5>1 DEF EndOf
      <4> QED BY <4>1, <4>2
    <3>3. EndOf(text) < k + 1 /\ (k + 1 # EndOf(text) + 1 => wrote[EndOf(text) + 1] = 0)
      <4>1. EndOf(text) \in 0..k
        BY <1>10
      <4>2. EndOf(text) < k + 1 /\ (k + 1 # EndOf(text) + 1 => EndOf(text) < k)
        <5>1. \A e \in 0..k : e < k + 1 /\ (k + 1 # e + 1 => e < k)
          OBVIOUS
        <5> QED BY <4>1, <5>1, Zenon
      <4> QED BY <1>10, <4>2, Zenon
    <3> QED BY <3>1, <3>2, <3>3
  <2>3. CASE i > length + 1
    <3>1. PICK j \in 2..m : i = length + j
      <4>1. i - length \in 2..m /\ i = length + (i - length)
        BY <1>8, <2>3
      <4> QED BY <4>1
    <3>2. j - 1 \in 1..m /\ j \in 1..m /\ i - 1 = length + (j - 1) /\ i # 1
      BY <3>1
    <3>3. longer[i] = k + j /\ longer[i - 1] = k + (j - 1)
      BY <1>8, <3>1, <3>2
    <3> QED BY <3>2, <3>3
  <2>4. i \in 1..length \/ i = length + 1 \/ i > length + 1
    BY <1>8
  <2> QED BY <2>1, <2>2, <2>3, <2>4
<1>14. Traced(wrote, rest, longer)
  <2>1. \A i \in 1..Len(rest) : rest[i] = wrote[Len(wrote) - Len(rest) + i]
    <3> TAKE i \in 1..Len(rest)
    <3>1. i \in 1..(room - n) /\ n + i \in 1..room
      BY <1>3, <1>4
    <3>2. rest[i] = wrote[k + (n + i)]
      BY <1>3, <1>4, <3>1
    <3>3. k + (n + i) = Len(wrote) - Len(rest) + i
      <4>1. k + (n + i) = (k + n) + i
        BY <1>3
      <4> QED BY <1>9, <4>1
    <3> QED BY <3>2, <3>3
  <2>2. \A i \in 1..Len(longer) : longer[i] <= Len(wrote) - Len(rest)
    <3> TAKE i \in 1..Len(longer)
    <3>1. CASE i \in 1..length
      <4>1. longer[i] = text[i] /\ text[i] \in Nat /\ text[i] <= k
        BY <1>3, <1>8, <3>1
      <4>2. text[i] <= k + n
        <5>1. n \in Nat
          BY <1>3
        <5> QED BY <4>1, <5>1
      <4> QED BY <1>9, <4>1, <4>2
    <3>2. CASE i > length
      <4>1. i - length \in 1..m /\ i = length + (i - length)
        BY <1>8, <3>2
      <4>2. longer[i] = k + (i - length)
        BY <1>8, <4>1
      <4> QED BY <1>3, <1>9, <4>1, <4>2
    <3> QED BY <1>8, <3>1, <3>2
  <2>3. Len(rest) <= Len(wrote)
    BY <1>1, <1>3, <1>4
  <2>4. \A i \in 1..Len(wrote) : wrote[i] \in {0, i}
    BY DEF Traced
  <2> QED BY <1>13, <2>1, <2>2, <2>3, <2>4 DEF Traced
<1>15. Gapless(wrote, rest, longer)
  <2> SUFFICES ASSUME EndOf(longer) < k + n PROVE wrote[EndOf(longer) + 1] = 0
    BY <1>9 DEF Gapless
  <2>1. CASE m = 0
    <3>1. EndOf(longer) = EndOf(text)
      BY <1>11, <2>1
    <3>2. CASE EndOf(text) < k
      BY <1>10, <3>1, <3>2
    <3>3. CASE EndOf(text) = k
      BY <1>12, <2>1, <3>1, <3>3
    <3> QED BY <1>10, <3>2, <3>3
  <2>2. CASE m # 0
    BY <1>11, <1>12, <2>2
  <2> QED BY <2>1, <2>2
<1>16. Len(rest) <= Len(pipe)
  BY <1>1, <1>3, <1>4
<1> QED BY <1>4, <1>5, <1>6, <1>7, <1>8, <1>14, <1>15, <1>16

(* A text that is cut is still in order. *)
LEMMA CutIsTraced ==
  ASSUME NEW wrote \in Seq(Nat), NEW pipe \in Seq(Nat), NEW text \in Seq(Nat), NEW m \in 0..Len(text),
         Traced(wrote, pipe, text)
  PROVE  SubSeq(text, 1, m) \in Seq(Nat) /\ Traced(wrote, pipe, SubSeq(text, 1, m)) /\ Len(SubSeq(text, 1, m)) = m
<1> DEFINE cut == SubSeq(text, 1, m)
<1>1. /\ cut \in Seq(Nat) /\ Len(cut) = m /\ \A i \in 1..m : cut[i] = text[i]
  BY BeginningIs
<1> HIDE DEF cut
<1>2. Process!InOrder(cut, wrote)
  <2> SUFFICES ASSUME NEW i \in 1..Len(cut)
               PROVE  LET last == IF i = 1 THEN 0 ELSE cut[i - 1] IN
                      last < cut[i] /\ (cut[i] # last + 1 => wrote[last + 1] = 0)
    BY DEF Process!InOrder
  <2>1. i \in 1..Len(text) /\ cut[i] = text[i] /\ (i # 1 => cut[i - 1] = text[i - 1])
    BY <1>1
  <2> QED BY <2>1 DEF Traced, Process!InOrder
<1>3. \A i \in 1..Len(cut) : cut[i] <= Len(wrote) - Len(pipe)
  <2> TAKE i \in 1..Len(cut)
  <2>1. i \in 1..Len(text) /\ cut[i] = text[i]
    BY <1>1
  <2>2. \A l \in 1..Len(text) : text[l] <= Len(wrote) - Len(pipe)
    BY DEF Traced
  <2> QED BY <2>1, <2>2
<1>4. Traced(wrote, pipe, cut)
  BY <1>2, <1>3 DEF Traced
<1> QED BY <1>1, <1>4 DEF cut

----------------------------------------------------------------------------
(* The process and its signals. *)

(* Init establishes the invariant. *)
LEMMA ProcessInitEstablishesInv ==
  ASSUME ProcessAssumption, Process!Init
  PROVE  ProcessInv
<1> DEFINE empty == [o \in Process!Outputs |-> <<>>]
           idle == [o \in Process!Outputs |-> "none"]
<1>1. state = [js |-> "new", proc |-> "none", how |-> 0, status |-> 0, exitCode |-> 0,
               listener |-> "none", max |-> 0, reader |-> idle, wrote |-> empty, pipe |-> empty, data |-> empty,
               isWait |-> TRUE, isNeedRun |-> TRUE, defied |-> FALSE, late |-> FALSE, astray |-> FALSE]
  BY DEF Process!Init
<1>2. state \in ProcessValues
  <2>1. empty \in [Process!Outputs -> Seq(Nat)] /\ idle \in [Process!Outputs -> ReaderPlaces]
    BY ProcessPlacesAre
  <2>2. 0 \in Nat /\ 0 \in Process!Statuses \cup {0} /\ 0 \in Process!Statuses \cup {0, 99}
    OBVIOUS
  <2> HIDE DEF empty, idle
  <2> QED BY <1>1, <2>1, <2>2, ProcessPlacesAre, ZenonT(60) DEF ProcessValues
<1>3. \A o \in Process!Outputs :
        state.wrote[o] = <<>> /\ state.pipe[o] = <<>> /\ state.data[o] = <<>> /\ state.reader[o] = "none"
  BY <1>1
<1>4. Scripted(state) /\ Awaited(state)
  BY <1>1, <1>3 DEF Scripted, Awaited
<1>5. ASSUME NEW o \in Process!Outputs PROVE Kept(state, o)
  <2>1. Traced(<<>>, <<>>, <<>>) /\ Gapless(<<>>, <<>>, <<>>)
    BY DEF Traced, Gapless, Process!InOrder, EndOf
  <2>2. Written[o] \in Nat /\ PipeSize \in Nat
    BY DEF Written, ProcessAssumption, Process!Outputs
  <2>3. Len(<<>>) = 0
    OBVIOUS
  <2> QED BY <1>3, <2>1, <2>2, <2>3 DEF Kept
<1> QED BY <1>2, <1>4, <1>5 DEF ProcessInv

(* What an output depends on besides its reader. *)
LEMMA KeptStays ==
  ASSUME NEW c, NEW v, NEW o \in Process!Outputs, Kept(c, o),
         v.wrote[o] = c.wrote[o], v.pipe[o] = c.pipe[o], v.data[o] = c.data[o], v.max = c.max,
         v.reader[o] = c.reader[o], v.isNeedRun => c.isNeedRun,
         c.proc = "gone" => v.proc = "gone", c.js = "deleted" => v.js = "deleted"
  PROVE  Kept(v, o)
BY DEF Kept

(* What the script and the readers leave alone when the process ends. *)
SameTexts(c, v) ==
  v.max = c.max /\ v.reader = c.reader /\ v.wrote = c.wrote /\ v.pipe = c.pipe /\ v.data = c.data
SameScript(c, v) ==
  /\ v.js = c.js /\ v.status = c.status /\ v.exitCode = c.exitCode /\ v.isWait = c.isWait /\ v.late = c.late
  /\ SameTexts(c, v)

(* The process ends, or is told to. *)
LEMMA ProcessMoves ==
  ASSUME NEW c \in ProcessValues, NEW v \in ProcessValues, Scripted(c), ~c.astray => Awaited(c),
         \A o \in Process!Outputs : Kept(c, o), SameScript(c, v), c.js # "new",
         (v.proc = c.proc /\ v.how = c.how) \/ (c.proc = "running" /\ v.proc = "zombie"),
         c.astray => v.astray, c.defied => v.defied, v.isNeedRun => c.isNeedRun,
         c.isNeedRun /\ ~v.isNeedRun /\ ~v.astray => v.proc # "running" \/ v.defied
  PROVE  /\ Scripted(v) /\ (~v.astray => Awaited(v))
         /\ \A o \in Process!Outputs : Kept(v, o)
<1>1. \A o \in Process!Outputs : Kept(v, o)
  <2> TAKE o \in Process!Outputs
  <2> QED BY KeptStays DEF SameScript, SameTexts
<1>2. Scripted(v)
  BY DEF Scripted, SameScript, SameTexts
<1>3. ~v.astray => Awaited(v)
  BY DEF Awaited, SameScript
<1> QED BY <1>1, <1>2, <1>3

(* A number goes astray. *)
LEMMA StrayIs ==
  ASSUME NEW c \in ProcessValues, NEW a \in BOOLEAN
  PROVE  /\ [c EXCEPT !.astray = a] \in ProcessValues /\ [c EXCEPT !.astray = a].astray = a
         /\ [c EXCEPT !.astray = a].proc = c.proc /\ [c EXCEPT !.astray = a].how = c.how
         /\ [c EXCEPT !.astray = a].defied = c.defied /\ [c EXCEPT !.astray = a].isNeedRun = c.isNeedRun
         /\ [c EXCEPT !.astray = a].listener = c.listener /\ SameScript(c, [c EXCEPT !.astray = a])
<1>1. [c EXCEPT !.astray = a] \in ProcessValues
  BY ZenonT(60) DEF ProcessValues
<1>2. /\ [c EXCEPT !.astray = a].astray = a
      /\ [c EXCEPT !.astray = a].proc = c.proc /\ [c EXCEPT !.astray = a].how = c.how
      /\ [c EXCEPT !.astray = a].defied = c.defied /\ [c EXCEPT !.astray = a].isNeedRun = c.isNeedRun
      /\ [c EXCEPT !.astray = a].listener = c.listener /\ SameScript(c, [c EXCEPT !.astray = a])
  BY DEF ProcessValues, SameScript, SameTexts
<1> QED BY <1>1, <1>2

(* What kill() may do: only a process that runs can end by it; it succeeds *)
(* at a process that is there, and at another one that is not ours.        *)
Struck(c, v, own, sig, done) ==
  /\ (v.proc = c.proc /\ v.how = c.how) \/ (c.proc = "running" /\ v.proc = "zombie")
  /\ (c.astray => v.astray) /\ (c.defied => v.defied) /\ done \in BOOLEAN
  /\ done /\ sig \in Process!SignalType /\ ~v.astray => v.proc # "running" \/ v.defied
  /\ own /\ ~done => c.proc = "gone"
  /\ own /\ sig = 9 /\ c.proc \in {"running", "zombie"} => v.proc = "zombie" /\ v.astray = c.astray

LEMMA KillIs ==
  ASSUME NEW c \in ProcessValues, NEW own \in BOOLEAN, NEW sig \in Signals \cup {9},
         NEW r \in Process!KillProcess(c, own, sig)
  PROVE  /\ r[2] \in ProcessValues /\ Struck(c, r[2], own, sig, r[1])
         /\ SameScript(c, r[2]) /\ r[2].isNeedRun = c.isNeedRun /\ r[2].listener = c.listener
<1>1. /\ c.proc \in Processes /\ c.how \in Process!Statuses \cup {0}
      /\ c.defied \in BOOLEAN /\ c.astray \in BOOLEAN
  BY ProcessFields
<1>2. sig \in Process!Statuses \cup {0}
  BY StatusesAre
<1>3. CASE own /\ c.proc = "running"
  <2>1. r \in {TRUE} \X Process!Sent(c, sig)
    BY <1>3 DEF Process!KillProcess
  <2>2. r[1] = TRUE /\ r[2] \in Process!Sent(c, sig)
    BY <2>1
  <2>3. CASE r[2] = [c EXCEPT !.proc = "zombie", !.how = sig]
    <3>1. r[2] \in ProcessValues
      BY <1>2, <2>3, ProcessPlacesAre, ZenonT(60) DEF ProcessValues
    <3>2. /\ r[2].proc = "zombie" /\ r[2].defied = c.defied /\ r[2].astray = c.astray
          /\ r[2].isNeedRun = c.isNeedRun /\ r[2].listener = c.listener /\ SameScript(c, r[2])
      BY <2>3 DEF ProcessValues, SameScript, SameTexts
    <3>3. "zombie" # "running"
      OBVIOUS
    <3>4. Struck(c, r[2], own, sig, r[1])
      BY <1>3, <2>2, <3>2, <3>3, Zenon DEF Struck
    <3> QED BY <3>1, <3>2, <3>4
  <2>4. CASE sig # 9 /\ r[2] = [c EXCEPT !.defied = @ \/ sig \in Process!SignalType]
    <3>1. r[2] \in ProcessValues
      <4>1. (c.defied \/ sig \in Process!SignalType) \in BOOLEAN
        OBVIOUS
      <4> QED BY <2>4, <4>1, ZenonT(60) DEF ProcessValues
    <3>2. /\ r[2].proc = c.proc /\ r[2].how = c.how /\ r[2].astray = c.astray
          /\ r[2].isNeedRun = c.isNeedRun /\ r[2].listener = c.listener /\ SameScript(c, r[2])
      BY <2>4 DEF ProcessValues, SameScript, SameTexts
    <3>3. (c.defied => r[2].defied) /\ (sig \in Process!SignalType => r[2].defied)
      BY <2>4 DEF ProcessValues
    <3>4. Struck(c, r[2], own, sig, r[1])
      <4>1. r[1] \in BOOLEAN /\ r[1]
        BY <2>2
      <4> QED BY <2>4, <3>2, <3>3, <4>1, Zenon DEF Struck
    <3> QED BY <3>1, <3>2, <3>4
  <2> QED BY <2>2, <2>3, <2>4 DEF Process!Sent, Process!Ended, Process!SIGKILL
<1>4. SameScript(c, c)
  BY DEF SameScript, SameTexts
<1>5. CASE r = <<TRUE, c>> /\ own /\ c.proc = "zombie"
  <2>1. r[1] = TRUE /\ r[2] = c
    BY <1>5
  <2>2. "zombie" # "running"
    OBVIOUS
  <2>3. Struck(c, r[2], own, sig, r[1])
    BY <1>5, <2>1, <2>2, Zenon DEF Struck
  <2>4. c \in ProcessValues /\ SameScript(c, c) /\ c.isNeedRun = c.isNeedRun /\ c.listener = c.listener
    BY <1>4
  <2> QED BY <2>1, <2>3, <2>4, Zenon
<1>6. CASE r = <<FALSE, c>> /\ ~(own /\ c.proc \in {"running", "zombie"}) /\ c.proc # "none"
  <2>1. r[1] = FALSE /\ r[2] = c
    BY <1>6
  <2>2. own => c.proc = "gone"
    BY <1>1, <1>6 DEF Processes
  <2>3. Struck(c, r[2], own, sig, r[1])
    <3>1. r[1] \in BOOLEAN /\ ~r[1] /\ r[2].proc = c.proc /\ r[2].how = c.how /\ r[2].astray = c.astray
      BY <2>1
    <3>2. (c.defied => r[2].defied) /\ (c.astray => r[2].astray)
      BY <2>1
    <3> QED BY <1>6, <2>2, <3>1, <3>2, Zenon DEF Struck
  <2>4. c \in ProcessValues /\ SameScript(c, c) /\ c.isNeedRun = c.isNeedRun /\ c.listener = c.listener
    BY <1>4
  <2> QED BY <2>1, <2>3, <2>4, Zenon
<1>7. CASE r = <<TRUE, [c EXCEPT !.astray = TRUE]>> /\ ~(own /\ c.proc \in {"running", "zombie"})
  <2>1. r[1] = TRUE /\ r[2] = [c EXCEPT !.astray = TRUE]
    BY <1>7
  <2>2. /\ r[2] \in ProcessValues /\ r[2].astray
        /\ r[2].proc = c.proc /\ r[2].how = c.how /\ r[2].defied = c.defied
        /\ r[2].isNeedRun = c.isNeedRun /\ r[2].listener = c.listener /\ SameScript(c, r[2])
    <3>1. TRUE \in BOOLEAN
      OBVIOUS
    <3> DEFINE v == [c EXCEPT !.astray = TRUE]
    <3>2. /\ v \in ProcessValues /\ v.astray = TRUE
          /\ v.proc = c.proc /\ v.how = c.how /\ v.defied = c.defied
          /\ v.isNeedRun = c.isNeedRun /\ v.listener = c.listener /\ SameScript(c, v)
      BY <3>1, StrayIs, Zenon
    <3>3. r[2] = v
      BY <2>1
    <3> HIDE DEF v
    <3> QED BY <3>2, <3>3, Zenon
  <2>4. Struck(c, r[2], own, sig, r[1])
    <3>1. r[1] \in BOOLEAN /\ r[1]
      BY <2>1
    <3> QED BY <1>7, <2>2, <3>1, Zenon DEF Struck
  <2> QED BY <2>2, <2>4
<1>8. \/ own /\ c.proc = "running"
      \/ r = <<TRUE, c>> /\ own /\ c.proc = "zombie"
      \/ r = <<TRUE, [c EXCEPT !.astray = TRUE]>> /\ ~(own /\ c.proc \in {"running", "zombie"})
      \/ r = <<FALSE, c>> /\ ~(own /\ c.proc \in {"running", "zombie"}) /\ c.proc # "none"
  <2>1. CASE own /\ c.proc = "zombie"
    BY <2>1 DEF Process!KillProcess
  <2>2. CASE ~(own /\ c.proc \in {"running", "zombie"})
    <3>1. r \in {<<TRUE, [c EXCEPT !.astray = TRUE]>>} \cup (IF c.proc = "none" THEN {} ELSE {<<FALSE, c>>})
      BY <2>2 DEF Process!KillProcess
    <3> QED BY <2>2, <3>1
  <2> QED BY <2>1, <2>2
<1> QED BY <1>3, <1>5, <1>6, <1>7, <1>8

(* waitpid() takes the status of a process that has ended. *)
LEMMA WaitPidIs ==
  ASSUME NEW c \in ProcessValues, NEW own \in BOOLEAN
  PROVE  LET w == Process!WaitPid(c, own) IN
         /\ w \in ProcessValues /\ SameTexts(c, w)
         /\ w.js = c.js /\ w.how = c.how /\ w.exitCode = c.exitCode /\ w.listener = c.listener
         /\ w.isWait = c.isWait /\ w.isNeedRun = c.isNeedRun /\ w.late = c.late /\ w.defied = c.defied
         /\ \/ own /\ c.proc = "zombie" /\ w.proc = "gone" /\ w.status = c.how /\ w.astray = c.astray
            \/ ~(own /\ c.proc = "zombie") /\ w.proc = c.proc /\ (c.astray \/ ~own => w.astray)
<1>1. CASE own /\ c.proc = "zombie"
  <2>1. Process!WaitPid(c, own) = [c EXCEPT !.proc = "gone", !.status = c.how]
    BY <1>1 DEF Process!WaitPid
  <2>2. c.how \in Process!Statuses \cup {0, 99}
    <3>1. c.how \in Process!Statuses \cup {0}
      BY ProcessFields
    <3> QED BY <3>1
  <2>3. [c EXCEPT !.proc = "gone", !.status = c.how] \in ProcessValues
    BY <2>2, ProcessPlacesAre, ZenonT(60) DEF ProcessValues
  <2> DEFINE w == [c EXCEPT !.proc = "gone", !.status = c.how]
  <2>4. /\ SameTexts(c, w) /\ w.js = c.js /\ w.how = c.how /\ w.exitCode = c.exitCode /\ w.listener = c.listener
        /\ w.isWait = c.isWait /\ w.isNeedRun = c.isNeedRun /\ w.late = c.late /\ w.defied = c.defied
        /\ w.proc = "gone" /\ w.status = c.how /\ w.astray = c.astray
    BY DEF ProcessValues, SameTexts
  <2> HIDE DEF w
  <2> QED BY <1>1, <2>1, <2>3, <2>4 DEF w
<1>2. CASE ~(own /\ c.proc = "zombie")
  <2> DEFINE a == c.astray \/ ~own
  <2>1. a \in BOOLEAN /\ 99 \in Process!Statuses \cup {0, 99}
    OBVIOUS
  <2>2. Process!WaitPid(c, own) = [c EXCEPT !.astray = a, !.status = 99]
    BY <1>2 DEF Process!WaitPid, Process!Junk
  <2>3. c.astray \/ ~own => a
    OBVIOUS
  <2> HIDE DEF a
  <2>4. [c EXCEPT !.astray = a, !.status = 99] \in ProcessValues
    BY <2>1, ZenonT(60) DEF ProcessValues
  <2> QED BY <1>2, <2>2, <2>3, <2>4 DEF ProcessValues, SameTexts
<1> QED BY <1>1, <1>2

(* The process ends by itself, or because nobody reads from it. *)
LEMMA ProcessEndsKeepsInv ==
  ASSUME ProcessInv,
         \/ \E code \in ExitCodes : Process!Exit(code)
         \/ \E o \in Process!Outputs : Process!PipeBreaks(o)
  PROVE  ProcessInv'
<1>1. PICK how \in Process!Statuses : state' = [state EXCEPT !.proc = "zombie", !.how = how] /\ state.proc = "running"
  <2>1. CASE \E code \in ExitCodes : Process!Exit(code)
    BY <2>1, StatusesAre DEF Process!Exit, Process!Ended
  <2>2. CASE \E o \in Process!Outputs : Process!PipeBreaks(o)
    BY <2>2, StatusesAre DEF Process!PipeBreaks, Process!Ended, Process!SIGPIPE
  <2> QED BY <2>1, <2>2
<1>2. state \in ProcessValues /\ how \in Process!Statuses \cup {0}
  BY DEF ProcessInv
<1>3. state' \in ProcessValues
  BY <1>1, <1>2, ProcessPlacesAre, ZenonT(60) DEF ProcessValues
<1>4. /\ SameScript(state, state') /\ state'.proc = "zombie" /\ state'.astray = state.astray
      /\ state'.defied = state.defied /\ state'.isNeedRun = state.isNeedRun
  BY <1>1, <1>2 DEF ProcessValues, SameScript, SameTexts
<1>5. state.js # "new"
  BY <1>1 DEF ProcessInv, Scripted
<1> QED BY <1>1, <1>2, <1>3, <1>4, <1>5, ProcessMoves DEF ProcessInv

(* The script or the timeout kills the process. *)
LEMMA KillKeepsInv ==
  ASSUME ProcessInv,
         \/ state.js = "idle" /\ \E sig \in Signals : Process!Kill(sig)
         \/ Process!TimeoutListener \/ Process!TimeoutListenerEnds
  PROVE  ProcessInv'
<1>1. state \in ProcessValues /\ state.js # "new"
  BY DEF ProcessInv, Scripted, Process!TimeoutListener, Process!TimeoutListenerEnds
<1>2. CASE \E l \in ListenerPlaces : state' = [state EXCEPT !.listener = l]
  <2>1. PICK l \in ListenerPlaces : state' = [state EXCEPT !.listener = l]
    BY <1>2
  <2>2. state' \in ProcessValues
    BY <1>1, <2>1, ZenonT(60) DEF ProcessValues
  <2>3. /\ SameScript(state, state') /\ state'.proc = state.proc /\ state'.how = state.how
        /\ state'.astray = state.astray /\ state'.defied = state.defied /\ state'.isNeedRun = state.isNeedRun
    BY <1>1, <2>1 DEF ProcessValues, SameScript, SameTexts
  <2> QED BY <1>1, <2>2, <2>3, ProcessMoves DEF ProcessInv
<1>3. ASSUME NEW own \in BOOLEAN, NEW sig \in Signals, NEW r \in Process!KillProcess(state, own, sig),
             NEW l \in ListenerPlaces,
             state' = [r[2] EXCEPT !.listener = l, !.isNeedRun = @ /\ ~(r[1] /\ sig \in Process!SignalType)]
      PROVE  ProcessInv'
  <2> DEFINE n == r[2].isNeedRun /\ ~(r[1] /\ sig \in Process!SignalType)
  <2>1. /\ r[2] \in ProcessValues /\ Struck(state, r[2], own, sig, r[1])
        /\ SameScript(state, r[2]) /\ r[2].isNeedRun = state.isNeedRun
    BY <1>1, KillIs
  <2>2. /\ n \in BOOLEAN /\ (n => state.isNeedRun)
        /\ state.isNeedRun /\ ~n /\ ~r[2].astray => r[2].proc # "running" \/ r[2].defied
    BY <2>1, Zenon DEF Struck
  <2>3. state' = [r[2] EXCEPT !.listener = l, !.isNeedRun = n]
    BY <1>3
  <2> HIDE DEF n
  <2>4. state' \in ProcessValues
    BY <2>1, <2>2, <2>3, ZenonT(60) DEF ProcessValues
  <2>5. /\ SameScript(r[2], state') /\ state'.proc = r[2].proc /\ state'.how = r[2].how
        /\ state'.astray = r[2].astray /\ state'.defied = r[2].defied /\ state'.isNeedRun = n
    BY <2>1, <2>3 DEF ProcessValues, SameScript, SameTexts
  <2>6. SameScript(state, state')
    BY <2>1, <2>5 DEF SameScript, SameTexts
  <2>7. /\ (state'.proc = state.proc /\ state'.how = state.how) \/ (state.proc = "running" /\ state'.proc = "zombie")
        /\ (state.astray => state'.astray) /\ (state.defied => state'.defied)
    BY <2>1, <2>5 DEF Struck
  <2>8. /\ state'.isNeedRun => state.isNeedRun
        /\ state.isNeedRun /\ ~state'.isNeedRun /\ ~state'.astray => state'.proc # "running" \/ state'.defied
    BY <2>2, <2>5
  <2> QED BY <1>1, <2>4, <2>6, <2>7, <2>8, ProcessMoves DEF ProcessInv
<1>4. CASE \E sig \in Signals : Process!Kill(sig)
  <2>0. PICK sig \in Signals, own \in BOOLEAN : \E r \in Process!KillProcess(state, own, sig) :
          state' = [r[2] EXCEPT !.isNeedRun = @ /\ ~(r[1] /\ sig \in Process!SignalType)]
    BY <1>4 DEF Process!Kill, Process!Getpid
  <2>1. PICK r \in Process!KillProcess(state, own, sig) :
          state' = [r[2] EXCEPT !.isNeedRun = @ /\ ~(r[1] /\ sig \in Process!SignalType)]
    BY <2>0
  <2>2. r[2] \in ProcessValues
    BY <1>1, KillIs
  <2>3. r[2].listener \in ListenerPlaces
    BY <2>2, ProcessFields
  <2>4. state' = [r[2] EXCEPT !.listener = r[2].listener,
                               !.isNeedRun = @ /\ ~(r[1] /\ sig \in Process!SignalType)]
    BY <2>1, <2>2 DEF ProcessValues
  <2> QED BY <1>3, <2>3, <2>4
<1>5. CASE Process!TimeoutListener \/ Process!TimeoutListenerEnds
  <2>1. CASE state.listener = "killing" /\ Process!TimeoutListener
    <3>0. PICK sig \in Signals : \E r \in Process!KillProcess(state, TRUE, sig) :
            state' = [r[2] EXCEPT !.listener = "done", !.isNeedRun = @ /\ ~(r[1] /\ sig \in Process!SignalType)]
      BY <2>1 DEF Process!TimeoutListener
    <3>1. PICK r \in Process!KillProcess(state, TRUE, sig) :
            state' = [r[2] EXCEPT !.listener = "done", !.isNeedRun = @ /\ ~(r[1] /\ sig \in Process!SignalType)]
      BY <3>0
    <3> QED BY <1>3, <3>1, ProcessPlacesAre
  <2>2. CASE state.listener # "killing" \/ Process!TimeoutListenerEnds
    BY <1>2, <1>5, <2>2, ProcessPlacesAre DEF Process!TimeoutListener, Process!TimeoutListenerEnds
  <2> QED BY <1>5, <2>1, <2>2
<1> QED BY <1>4, <1>5

(* The thread of the script goes on, and leaves the readers alone. *)
LEMMA ScriptMoves ==
  ASSUME NEW c, NEW v, \A o \in Process!Outputs : Kept(c, o), SameTexts(c, v), Scripted(c),
         v.isNeedRun => c.isNeedRun, c.proc = "gone" => v.proc = "gone", c.js # "new", c.js # "deleted",
         v.js \in {"idle", "waiting", "closing", "noting", "deleting", "deleted"},
         v.js = "waiting" => ~v.isWait, v.js = "closing" => v.isWait /\ v.proc \in {"running", "zombie"},
         v.js = "deleted" => ~v.isNeedRun
  PROVE  Scripted(v) /\ \A o \in Process!Outputs : Kept(v, o)
<1>1. \A o \in Process!Outputs : Kept(v, o)
  <2> TAKE o \in Process!Outputs
  <2> QED BY KeptStays DEF SameTexts
<1>2. Scripted(v)
  BY DEF Scripted, SameTexts
<1> QED BY <1>1, <1>2

(* The script waits, closes or lets go of the object. *)
LEMMA CallKeepsInv ==
  ASSUME ProcessInv, state.js = "idle", Process!Wait \/ Process!Close \/ Process!Delete
  PROVE  ProcessInv'
<1>1. /\ state \in ProcessValues /\ Scripted(state) /\ (~state.astray => Awaited(state))
      /\ \A o \in Process!Outputs : Kept(state, o)
  BY DEF ProcessInv
<1>2. FALSE \in BOOLEAN /\ TRUE \in BOOLEAN
  OBVIOUS
<1>3. CASE state' = state
  BY <1>1, <1>3 DEF ProcessInv
<1>4. CASE state.isWait /\ state' = [state EXCEPT !.isWait = FALSE, !.js = "waiting"]
  <2>1. state' \in ProcessValues
    BY <1>1, <1>2, <1>4, ProcessPlacesAre, ZenonT(60) DEF ProcessValues
  <2>2. /\ SameTexts(state, state') /\ state'.js = "waiting" /\ ~state'.isWait /\ state'.proc = state.proc
        /\ state'.isNeedRun = state.isNeedRun /\ state'.late = state.late /\ state'.astray = state.astray
        /\ state'.defied = state.defied
    BY <1>1, <1>4 DEF ProcessValues, SameTexts
  <2>3. ~state'.astray => Awaited(state')
    BY <1>1, <1>4, <2>2 DEF Awaited
  <2> QED BY <1>1, <2>1, <2>2, <2>3, ScriptMoves DEF ProcessInv
<1>5. CASE ~state.isWait /\ state' = [state EXCEPT !.isNeedRun = FALSE]
  <2>1. state' \in ProcessValues
    BY <1>1, <1>2, <1>5, ProcessPlacesAre, ZenonT(60) DEF ProcessValues
  <2>2. /\ SameTexts(state, state') /\ state'.js = "idle" /\ ~state'.isWait /\ state'.proc = state.proc
        /\ ~state'.isNeedRun /\ state'.late = state.late /\ state'.astray = state.astray
        /\ state'.how = state.how /\ state'.exitCode = state.exitCode
    BY <1>1, <1>5 DEF ProcessValues, SameTexts
  <2>3. ~state'.astray => Awaited(state')
    BY <1>1, <1>5, <2>2 DEF Awaited
  <2> QED BY <1>1, <2>1, <2>2, <2>3, ScriptMoves DEF ProcessInv
<1>6. CASE state.isWait /\ state.proc = "zombie" /\ state' = [state EXCEPT !.proc = "gone", !.late = TRUE]
  <2>1. state' \in ProcessValues
    BY <1>1, <1>2, <1>6, ProcessPlacesAre, ZenonT(60) DEF ProcessValues
  <2>2. /\ SameTexts(state, state') /\ state'.js = "idle" /\ state'.isWait /\ state'.proc = "gone"
        /\ state'.isNeedRun = state.isNeedRun /\ state'.late
    BY <1>1, <1>6 DEF ProcessValues, SameTexts
  <2>3. Awaited(state')
    BY <2>2 DEF Awaited
  <2> QED BY <1>1, <2>1, <2>2, <2>3, ScriptMoves DEF ProcessInv
<1>7. CASE state.isWait /\ state.proc = "running" /\ state' = [state EXCEPT !.js = "closing"]
  <2>1. state' \in ProcessValues
    BY <1>1, <1>7, ProcessPlacesAre, ZenonT(60) DEF ProcessValues
  <2>2. /\ SameTexts(state, state') /\ state'.js = "closing" /\ state'.isWait /\ state'.proc = "running"
        /\ state'.isNeedRun = state.isNeedRun /\ state'.astray = state.astray /\ state'.defied = state.defied
    BY <1>1, <1>7 DEF ProcessValues, SameTexts
  <2>3. ~state'.astray => Awaited(state')
    BY <1>1, <1>7, <2>2 DEF Awaited
  <2> QED BY <1>1, <1>7, <2>1, <2>2, <2>3, ScriptMoves DEF ProcessInv
<1>8. CASE state' = [state EXCEPT !.js = "deleting"]
  <2>1. state' \in ProcessValues
    BY <1>1, <1>8, ProcessPlacesAre, ZenonT(60) DEF ProcessValues
  <2>2. /\ SameTexts(state, state') /\ state'.js = "deleting" /\ state'.isWait = state.isWait
        /\ state'.proc = state.proc /\ state'.isNeedRun = state.isNeedRun /\ state'.astray = state.astray
        /\ state'.late = state.late
    BY <1>1, <1>8 DEF ProcessValues, SameTexts
  <2>3. ~state'.astray => Awaited(state')
    BY <1>1, <2>2 DEF Awaited
  <2> QED BY <1>1, <2>1, <2>2, <2>3, ScriptMoves DEF ProcessInv
<1> QED BY <1>3, <1>4, <1>5, <1>6, <1>7, <1>8 DEF Process!Wait, Process!Close, Process!Delete

(* The process has been waited for. *)
LEMMA WaitKeepsInv ==
  ASSUME ProcessInv, Process!Waited \/ Process!Closed \/ Process!Noted \/ Process!Deleted
  PROVE  ProcessInv'
<1>1. /\ state \in ProcessValues /\ Scripted(state) /\ (~state.astray => Awaited(state))
      /\ \A o \in Process!Outputs : Kept(state, o)
  BY DEF ProcessInv
<1>2. FALSE \in BOOLEAN /\ TRUE \in BOOLEAN /\ 0 \in Process!Statuses \cup {0, 99}
  OBVIOUS
<1>3. CASE Process!Waited
  <2>1. PICK own \in BOOLEAN : /\ state.js = "waiting" /\ (own => state.proc # "running")
                               /\ state' = [Process!WaitPid(state, own) EXCEPT !.js = "noting"]
    BY <1>3 DEF Process!Waited, Process!Getpid
  <2> DEFINE w == Process!WaitPid(state, own)
  <2>2. /\ w \in ProcessValues /\ SameTexts(state, w)
        /\ w.how = state.how /\ w.isWait = state.isWait /\ w.isNeedRun = state.isNeedRun /\ w.late = state.late
        /\ \/ own /\ state.proc = "zombie" /\ w.proc = "gone" /\ w.status = state.how /\ w.astray = state.astray
           \/ ~(own /\ state.proc = "zombie") /\ w.proc = state.proc /\ (state.astray \/ ~own => w.astray)
    BY <1>1, WaitPidIs
  <2> HIDE DEF w
  <2>3. state' = [w EXCEPT !.js = "noting"]
    BY <2>1 DEF w
  <2>4. state' \in ProcessValues
    BY <2>2, <2>3, ProcessPlacesAre, ZenonT(60) DEF ProcessValues
  <2>5. /\ SameTexts(w, state') /\ state'.js = "noting" /\ state'.how = w.how /\ state'.isWait = w.isWait
        /\ state'.isNeedRun = w.isNeedRun /\ state'.late = w.late /\ state'.proc = w.proc
        /\ state'.status = w.status /\ state'.astray = w.astray
    BY <2>2, <2>3 DEF ProcessValues, SameTexts
  <2>6. SameTexts(state, state')
    BY <2>2, <2>5 DEF SameTexts
  <2>7. ~state'.astray => Awaited(state')
    <3>1. state.proc \in Processes
      BY <1>1, ProcessFields
    <3>2. SUFFICES ASSUME ~state'.astray PROVE Awaited(state')
      OBVIOUS
    <3>3. own /\ ~state.astray
      BY <2>2, <2>5, <3>2
    <3>4. CASE state.proc = "zombie"
      <4>1. state'.proc = "gone" /\ state'.status = state'.how
        BY <2>2, <2>5, <3>3, <3>4
      <4> QED BY <2>5, <4>1 DEF Awaited
    <3>5. CASE state.proc # "zombie"
      <4>1. state'.proc = state.proc /\ state.proc \in {"none", "gone"} /\ state'.late = state.late
        BY <2>1, <2>2, <2>5, <3>1, <3>3, <3>5 DEF Processes
      <4>2. ~state.late => state.proc # "gone"
        BY <1>1, <2>1, <3>3 DEF Awaited
      <4> QED BY <2>5, <4>1, <4>2 DEF Awaited
    <3> QED BY <3>4, <3>5
  <2>8. state.proc = "gone" => state'.proc = "gone"
    BY <2>2, <2>5
  <2>9. state'.isNeedRun => state.isNeedRun
    BY <2>2, <2>5
  <2> QED BY <1>1, <2>1, <2>4, <2>5, <2>6, <2>7, <2>8, <2>9, ScriptMoves DEF ProcessInv
<1>4. CASE Process!Closed
  <2>1. PICK r \in Process!KillProcess(state, TRUE, 9) :
          state' = [Process!WaitPid(r[2], TRUE) EXCEPT !.js = "noting"]
    BY <1>4 DEF Process!Closed, Process!SIGKILL
  <2>2. state.js = "closing" /\ state.proc \in {"running", "zombie"}
    BY <1>1, <1>4 DEF Process!Closed, Scripted
  <2>3. /\ r[2] \in ProcessValues /\ SameScript(state, r[2]) /\ r[2].isNeedRun = state.isNeedRun
        /\ r[2].proc = "zombie" /\ r[2].astray = state.astray
    <3>1. /\ r[2] \in ProcessValues /\ Struck(state, r[2], TRUE, 9, r[1]) /\ SameScript(state, r[2])
          /\ r[2].isNeedRun = state.isNeedRun
      BY <1>1, <1>2, KillIs
    <3> QED BY <2>2, <3>1 DEF Struck
  <2> DEFINE w == Process!WaitPid(r[2], TRUE)
  <2>4. /\ w \in ProcessValues /\ SameTexts(r[2], w) /\ w.isNeedRun = r[2].isNeedRun
        /\ w.how = r[2].how /\ w.proc = "gone" /\ w.status = r[2].how
    BY <1>2, <2>3, WaitPidIs
  <2> HIDE DEF w
  <2>5. state' = [w EXCEPT !.js = "noting"]
    BY <2>1 DEF w
  <2>6. state' \in ProcessValues
    BY <2>4, <2>5, ProcessPlacesAre, ZenonT(60) DEF ProcessValues
  <2>7. /\ SameTexts(w, state') /\ state'.js = "noting" /\ state'.isNeedRun = w.isNeedRun
        /\ state'.proc = "gone" /\ state'.status = state'.how
    BY <2>4, <2>5 DEF ProcessValues, SameTexts
  <2>8. SameTexts(state, state')
    BY <2>3, <2>4, <2>7 DEF SameTexts, SameScript
  <2>9. Awaited(state')
    BY <2>7 DEF Awaited
  <2>10. state'.isNeedRun => state.isNeedRun
    BY <2>3, <2>4, <2>7
  <2> QED BY <1>1, <2>2, <2>6, <2>7, <2>8, <2>9, <2>10, ScriptMoves DEF ProcessInv
<1>5. CASE Process!Noted
  <2>1. /\ state.js = "noting"
        /\ state' = [state EXCEPT !.js = "idle", !.isWait = FALSE, !.isNeedRun = FALSE,
                                  !.exitCode = state.status, !.status = 0]
    BY <1>5 DEF Process!Noted
  <2>2. state.status \in Process!Statuses \cup {0, 99}
    BY <1>1, ProcessFields
  <2>3. state' \in ProcessValues
    BY <1>1, <1>2, <2>1, <2>2, ProcessPlacesAre, ZenonT(60) DEF ProcessValues
  <2>4. /\ SameTexts(state, state') /\ state'.js = "idle" /\ ~state'.isWait /\ ~state'.isNeedRun
        /\ state'.proc = state.proc /\ state'.how = state.how /\ state'.exitCode = state.status
        /\ state'.late = state.late /\ state'.astray = state.astray
    BY <1>1, <2>1 DEF ProcessValues, SameTexts
  <2>5. ~state'.astray => Awaited(state')
    BY <1>1, <2>1, <2>4 DEF Awaited
  <2> QED BY <1>1, <2>1, <2>3, <2>4, <2>5, ScriptMoves DEF ProcessInv
<1>6. CASE Process!Deleted
  <2>1. PICK own \in BOOLEAN :
          /\ state.js = "deleting" /\ (state.isWait /\ own => state.proc # "running")
          /\ state' = [(IF state.isWait THEN Process!WaitPid(state, own) ELSE state)
                         EXCEPT !.js = "deleted", !.isNeedRun = FALSE]
    BY <1>6 DEF Process!Deleted, Process!Getpid
  <2> DEFINE w == IF state.isWait THEN Process!WaitPid(state, own) ELSE state
  <2>2. /\ w \in ProcessValues /\ SameTexts(state, w) /\ (state.proc = "gone" => w.proc = "gone")
        /\ ~w.astray => ~state.astray /\ w.proc \in {"none", "gone"}
    <3>1. state.proc \in Processes
      BY <1>1, ProcessFields
    <3>2. CASE state.isWait
      <4>1. w = Process!WaitPid(state, own)
        BY <3>2
      <4>2. /\ w \in ProcessValues /\ SameTexts(state, w)
            /\ \/ own /\ state.proc = "zombie" /\ w.proc = "gone" /\ w.astray = state.astray
               \/ ~(own /\ state.proc = "zombie") /\ w.proc = state.proc /\ (state.astray \/ ~own => w.astray)
        BY <1>1, <4>1, WaitPidIs
      <4> HIDE DEF w
      <4> QED BY <2>1, <3>1, <3>2, <4>2 DEF Processes
    <3>3. CASE ~state.isWait
      <4>1. w = state
        BY <3>3
      <4> HIDE DEF w
      <4>2. ~state.astray => state.proc \in {"none", "gone"}
        BY <1>1, <2>1, <3>3 DEF Awaited
      <4> QED BY <1>1, <4>1, <4>2 DEF SameTexts
    <3> QED BY <3>2, <3>3
  <2> HIDE DEF w
  <2>3. state' = [w EXCEPT !.js = "deleted", !.isNeedRun = FALSE]
    BY <2>1 DEF w
  <2>4. state' \in ProcessValues
    BY <1>2, <2>2, <2>3, ProcessPlacesAre, ZenonT(60) DEF ProcessValues
  <2>5. /\ SameTexts(w, state') /\ state'.js = "deleted" /\ ~state'.isNeedRun
        /\ state'.proc = w.proc /\ state'.astray = w.astray
    BY <2>2, <2>3 DEF ProcessValues, SameTexts
  <2>6. SameTexts(state, state')
    BY <2>2, <2>5 DEF SameTexts
  <2>7. ~state'.astray => Awaited(state')
    BY <2>2, <2>5 DEF Awaited
  <2> QED BY <1>1, <2>1, <2>2, <2>4, <2>5, <2>6, <2>7, ScriptMoves DEF ProcessInv
<1> QED BY <1>3, <1>4, <1>5, <1>6

----------------------------------------------------------------------------
(* The readers. *)

(* A step that changes one output. *)
SameLife(c, v) ==
  /\ v.js = c.js /\ v.proc = c.proc /\ v.how = c.how /\ v.status = c.status /\ v.exitCode = c.exitCode
  /\ v.isWait = c.isWait /\ v.isNeedRun = c.isNeedRun /\ v.defied = c.defied /\ v.late = c.late
  /\ v.astray = c.astray /\ v.max = c.max
SameOutput(c, v, o) ==
  v.wrote[o] = c.wrote[o] /\ v.pipe[o] = c.pipe[o] /\ v.data[o] = c.data[o] /\ v.reader[o] = c.reader[o]

LEMMA OutputMoves ==
  ASSUME NEW c, NEW v, NEW o \in Process!Outputs, Scripted(c), ~c.astray => Awaited(c),
         \A x \in Process!Outputs : Kept(c, x), SameLife(c, v), c.js # "new",
         \A x \in Process!Outputs \ {o} : SameOutput(c, v, x),
         Kept(v, o), v.reader[o] \in {"ended", "freed"} => ~v.isNeedRun
  PROVE  /\ Scripted(v) /\ (~v.astray => Awaited(v))
         /\ \A x \in Process!Outputs : Kept(v, x)
<1>1. \A x \in Process!Outputs : Kept(v, x)
  <2> TAKE x \in Process!Outputs
  <2>1. CASE x = o
    BY <2>1
  <2>2. CASE x # o
    <3>1. SameOutput(c, v, x) /\ Kept(c, x)
      BY <2>2
    <3> QED BY <3>1, KeptStays DEF SameOutput, SameLife
  <2> QED BY <2>1, <2>2
<1>2. \A x \in Process!Outputs : v.reader[x] \in {"ended", "freed"} => ~v.isNeedRun
  <2> TAKE x \in Process!Outputs
  <2>1. CASE x = o
    BY <2>1
  <2>2. CASE x # o
    <3>1. SameOutput(c, v, x)
      BY <2>2
    <3> QED BY <3>1 DEF SameOutput, SameLife, Scripted
  <2> QED BY <2>1, <2>2
<1>3. Scripted(v)
  BY <1>2 DEF Scripted, SameLife
<1>4. ~v.astray => Awaited(v)
  BY DEF Awaited, SameLife
<1> QED BY <1>1, <1>3, <1>4

(* The command is started. *)
LEMMA RunCommandKeepsInv ==
  ASSUME ProcessAssumption, ProcessInv, NEW timeout \in BOOLEAN, NEW limit \in Limits,
         Process!RunCommand(timeout, limit)
  PROVE  ProcessInv'
<1>1. /\ state \in ProcessValues /\ Scripted(state) /\ state.js = "new"
      /\ \A o \in Process!Outputs : Kept(state, o)
  BY DEF ProcessInv, Process!RunCommand
<1> DEFINE looking == [o \in Process!Outputs |-> "looking"]
<1>2. PICK l \in ListenerPlaces, p \in {"none", "running"}, q \in {state.reader, looking} :
        state' = [state EXCEPT !.listener = l, !.max = limit, !.reader = q, !.proc = p, !.js = "idle"]
  <2> DEFINE l1 == IF timeout THEN "asleep" ELSE "done"
             c == Process!InitOptionsInfo(state, timeout, limit)
  <2>1. c = [state EXCEPT !.listener = l1, !.max = limit] /\ l1 \in ListenerPlaces
    BY ProcessPlacesAre DEF Process!InitOptionsInfo
  <2> HIDE DEF c, l1
  <2>2. \/ state' = [[c EXCEPT !.listener = "none"] EXCEPT !.js = "idle"]
        \/ state' = [[[c EXCEPT !.reader = looking] EXCEPT !.proc = "running"] EXCEPT !.js = "idle"]
    BY DEF Process!RunCommand, Process!ChildProcessConstructor, Process!Spawn, Process!CreateWorker, c
  <2>3. CASE state' = [[c EXCEPT !.listener = "none"] EXCEPT !.js = "idle"]
    <3>1. state.proc = "none"
      BY <1>1 DEF Scripted
    <3>2. state' = [state EXCEPT !.listener = "none", !.max = limit, !.reader = state.reader, !.proc = "none",
                                 !.js = "idle"]
      BY <1>1, <2>1, <2>3, <3>1 DEF ProcessValues
    <3> QED BY <3>2, ProcessPlacesAre
  <2>4. CASE state' = [[[c EXCEPT !.reader = looking] EXCEPT !.proc = "running"] EXCEPT !.js = "idle"]
    <3> HIDE DEF looking
    <3>1. state' = [state EXCEPT !.listener = l1, !.max = limit, !.reader = looking, !.proc = "running",
                                 !.js = "idle"]
      BY <1>1, <2>1, <2>4 DEF ProcessValues
    <3> QED BY <2>1, <3>1
  <2> QED BY <2>2, <2>3, <2>4
<1>3. /\ q \in [Process!Outputs -> ReaderPlaces] /\ p \in Processes /\ limit \in Nat
      /\ \A o \in Process!Outputs : q[o] \in {"none", "looking"}
  <2>1. state.reader \in [Process!Outputs -> ReaderPlaces] /\ looking \in [Process!Outputs -> ReaderPlaces]
    BY <1>1, ProcessFields, ProcessPlacesAre
  <2>2. \A o \in Process!Outputs : state.reader[o] = "none" /\ looking[o] = "looking"
    BY <1>1 DEF Scripted
  <2> QED BY <2>1, <2>2, ProcessPlacesAre DEF ProcessAssumption
<1> HIDE DEF looking
<1>4. state' \in ProcessValues
  BY <1>1, <1>2, <1>3, ProcessPlacesAre, ZenonT(60) DEF ProcessValues
<1>5. /\ state'.js = "idle" /\ state'.proc = p /\ state'.max = limit /\ state'.reader = q
      /\ state'.wrote = state.wrote /\ state'.pipe = state.pipe /\ state'.data = state.data
      /\ state'.isWait = state.isWait /\ state'.isNeedRun = state.isNeedRun
  BY <1>1, <1>2 DEF ProcessValues
<1>6. Scripted(state') /\ Awaited(state')
  BY <1>1, <1>3, <1>5 DEF Scripted, Awaited
<1>7. ASSUME NEW o \in Process!Outputs PROVE Kept(state', o)
  <2>1. state.wrote[o] = <<>> /\ state.pipe[o] = <<>> /\ state.data[o] = <<>>
    BY <1>1 DEF Scripted
  <2>2. Len(<<>>) = 0 /\ Gapless(<<>>, <<>>, <<>>)
    BY DEF Gapless, EndOf
  <2>3. q[o] \in {"none", "looking"}
    BY <1>3
  <2> QED BY <1>1, <1>3, <1>5, <2>1, <2>2, <2>3 DEF Kept
<1> QED BY <1>4, <1>6, <1>7 DEF ProcessInv

(* The command writes. *)
LEMMA WriteKeepsInv ==
  ASSUME ProcessAssumption, ProcessInv, NEW o \in Process!Outputs, NEW nul \in BOOLEAN, Process!Write(o, nul)
  PROVE  ProcessInv'
<1>1. /\ state \in ProcessValues /\ Scripted(state) /\ (~state.astray => Awaited(state))
      /\ \A x \in Process!Outputs : Kept(state, x)
  BY DEF ProcessInv
<1> DEFINE unit == IF nul THEN 0 ELSE Len(state.wrote[o]) + 1
           w == Append(state.wrote[o], unit)
           p == Append(state.pipe[o], unit)
<1>2. /\ state.proc = "running" /\ Len(state.wrote[o]) + 1 <= Written[o] /\ Len(state.pipe[o]) < PipeSize
      /\ state' = [state EXCEPT !.wrote[o] = w, !.pipe[o] = p]
  BY DEF Process!Write, Written
<1>3. /\ state.wrote \in [Process!Outputs -> Seq(Nat)] /\ state.pipe \in [Process!Outputs -> Seq(Nat)]
      /\ state.data \in [Process!Outputs -> Seq(Nat)]
  BY <1>1, ProcessFields
<1>4. /\ state.wrote[o] \in Seq(Nat) /\ state.pipe[o] \in Seq(Nat) /\ state.data[o] \in Seq(Nat)
      /\ unit \in {0, Len(state.wrote[o]) + 1} /\ unit \in Nat
  BY <1>3
<1> HIDE DEF unit
<1>5. /\ w \in Seq(Nat) /\ p \in Seq(Nat)
      /\ Len(w) = Len(state.wrote[o]) + 1 /\ Len(p) = Len(state.pipe[o]) + 1
  BY <1>4, AppendProperties
<1>6. /\ Traced(w, p, state.data[o])
      /\ Gapless(state.wrote[o], state.pipe[o], state.data[o]) => Gapless(w, p, state.data[o])
  <2>1. Traced(state.wrote[o], state.pipe[o], state.data[o])
    BY <1>1 DEF Kept
  <2> QED BY <1>4, <2>1, WrittenIsTraced
<1> HIDE DEF w, p
<1>7. state' \in ProcessValues
  <2>1. /\ [state.wrote EXCEPT ![o] = w] \in [Process!Outputs -> Seq(Nat)]
        /\ [state.pipe EXCEPT ![o] = p] \in [Process!Outputs -> Seq(Nat)]
    BY <1>3, <1>5
  <2>2. state' = [state EXCEPT !.wrote = [state.wrote EXCEPT ![o] = w], !.pipe = [state.pipe EXCEPT ![o] = p]]
    BY <1>1, <1>2 DEF ProcessValues
  <2> QED BY <1>1, <2>1, <2>2, ZenonT(60) DEF ProcessValues
<1>8. SameLife(state, state')
  BY <1>1, <1>2 DEF ProcessValues, SameLife
<1>9. /\ state'.wrote[o] = w /\ state'.pipe[o] = p
      /\ state'.data = state.data /\ state'.reader = state.reader
      /\ \A x \in Process!Outputs \ {o} : SameOutput(state, state', x)
  BY <1>1, <1>2, <1>3 DEF ProcessValues, SameOutput
<1>10. Kept(state', o)
  <2>1. Kept(state, o)
    BY <1>1
  <2>2. Len(w) <= Written[o] /\ Len(p) <= PipeSize
    <3>1. Len(state.pipe[o]) \in Nat /\ PipeSize \in Nat
      BY <1>4 DEF ProcessAssumption
    <3> QED BY <1>2, <1>5, <3>1
  <2> QED BY <1>6, <1>8, <1>9, <2>1, <2>2 DEF Kept, SameLife
<1>11. state.js # "new" /\ (state'.reader[o] \in {"ended", "freed"} => ~state'.isNeedRun)
  BY <1>1, <1>2, <1>8, <1>9 DEF Scripted, SameLife
<1> QED BY <1>1, <1>7, <1>8, <1>9, <1>10, <1>11, OutputMoves DEF ProcessInv

(* A step of the reader of one output. *)
ReaderStep(c, o, p, d, q) == [c EXCEPT !.pipe[o] = p, !.data[o] = d, !.reader[o] = q]

LEMMA ReaderStepIs ==
  ASSUME NEW c \in ProcessValues, NEW o \in Process!Outputs, NEW p \in Seq(Nat), NEW d \in Seq(Nat),
         NEW q \in ReaderPlaces, NEW v, v = ReaderStep(c, o, p, d, q)
  PROVE  /\ v \in ProcessValues /\ SameLife(c, v) /\ v.wrote = c.wrote
         /\ \A x \in Process!Outputs \ {o} : SameOutput(c, v, x)
         /\ v.pipe[o] = p /\ v.data[o] = d /\ v.reader[o] = q
<1> DEFINE ps == [c.pipe EXCEPT ![o] = p]
           ds == [c.data EXCEPT ![o] = d]
           qs == [c.reader EXCEPT ![o] = q]
<1>1. /\ c.reader \in [Process!Outputs -> ReaderPlaces] /\ c.pipe \in [Process!Outputs -> Seq(Nat)]
      /\ c.data \in [Process!Outputs -> Seq(Nat)]
  BY ProcessFields
<1>2. /\ ps \in [Process!Outputs -> Seq(Nat)] /\ ds \in [Process!Outputs -> Seq(Nat)]
      /\ qs \in [Process!Outputs -> ReaderPlaces]
      /\ ps[o] = p /\ ds[o] = d /\ qs[o] = q
      /\ \A x \in Process!Outputs \ {o} : ps[x] = c.pipe[x] /\ ds[x] = c.data[x] /\ qs[x] = c.reader[x]
  BY <1>1
<1>3. v = [c EXCEPT !.pipe = ps, !.data = ds, !.reader = qs]
  BY DEF ProcessValues, ReaderStep
<1> HIDE DEF ps, ds, qs
<1>4. v \in ProcessValues
  BY <1>2, <1>3, ZenonT(60) DEF ProcessValues
<1>5. SameLife(c, v) /\ v.wrote = c.wrote /\ v.pipe = ps /\ v.data = ds /\ v.reader = qs
  BY <1>3 DEF ProcessValues, SameLife
<1> QED BY <1>2, <1>4, <1>5 DEF SameOutput

(* What a work finds in the flag, before the object is deleted. *)
LEMMA IsNeedRunIs ==
  ASSUME ProcessInv, NEW run \in Process!IsNeedRun
  PROVE  run \in BOOLEAN /\ (state.js # "deleted" => run = state.isNeedRun) /\ (~run => ~state.isNeedRun)
<1>1. state.isNeedRun \in BOOLEAN /\ (state.js = "deleted" => ~state.isNeedRun)
  BY ProcessFields DEF ProcessInv, Scripted
<1>2. CASE state.js = "deleted"
  BY <1>1, <1>2 DEF Process!IsNeedRun
<1>3. CASE state.js # "deleted"
  BY <1>1, <1>3 DEF Process!IsNeedRun
<1> QED BY <1>2, <1>3

(* A reader looks at the flag, or its record is deleted. *)
LEMMA LookKeepsInv ==
  ASSUME ProcessInv, NEW o \in Process!Outputs, Process!Look(o) \/ Process!EndStd(o)
  PROVE  ProcessInv'
<1>1. /\ state \in ProcessValues /\ Scripted(state) /\ (~state.astray => Awaited(state))
      /\ \A x \in Process!Outputs : Kept(state, x)
  BY DEF ProcessInv
<1>2. PICK q \in ReaderPlaces :
        /\ state' = [state EXCEPT !.reader[o] = q]
        /\ state.reader[o] \in {"looking", "ended"}
        /\ \/ q = "reading" /\ state.isNeedRun /\ state.reader[o] = "looking"
           \/ q \in {"ended", "freed"} /\ ~state.isNeedRun
  <2>1. CASE Process!Look(o)
    <3>1. PICK run \in Process!IsNeedRun :
            /\ state.reader[o] = "looking" /\ (run => Process!IsOpen)
            /\ state' = [state EXCEPT !.reader[o] = IF run THEN "reading" ELSE "ended"]
      BY <2>1 DEF Process!Look
    <3>2. run \in BOOLEAN /\ (state.js # "deleted" => run = state.isNeedRun) /\ (~run => ~state.isNeedRun)
      BY IsNeedRunIs
    <3>3. run => state.isNeedRun
      BY <3>1, <3>2 DEF Process!IsOpen
    <3>4. CASE run
      <4>1. state' = [state EXCEPT !.reader[o] = "reading"]
        BY <3>1, <3>4
      <4> QED BY <3>1, <3>3, <3>4, <4>1, ProcessPlacesAre
    <3>5. CASE ~run
      <4>1. state' = [state EXCEPT !.reader[o] = "ended"]
        BY <3>1, <3>5
      <4> QED BY <3>1, <3>2, <3>5, <4>1, ProcessPlacesAre
    <3> QED BY <3>4, <3>5
  <2>2. CASE Process!EndStd(o)
    <3>1. state.reader[o] = "ended" /\ state' = [state EXCEPT !.reader[o] = "freed"]
      BY <2>2 DEF Process!EndStd
    <3>2. ~state.isNeedRun
      BY <1>1, <3>1 DEF Scripted
    <3> QED BY <3>1, <3>2, ProcessPlacesAre
  <2> QED BY <2>1, <2>2
<1>3. /\ state.pipe \in [Process!Outputs -> Seq(Nat)] /\ state.data \in [Process!Outputs -> Seq(Nat)]
      /\ state.reader \in [Process!Outputs -> ReaderPlaces]
      /\ state.pipe[o] \in Seq(Nat) /\ state.data[o] \in Seq(Nat)
  BY <1>1, ProcessFields
<1>4. state' = ReaderStep(state, o, state.pipe[o], state.data[o], q)
  <2>1. /\ [state.pipe EXCEPT ![o] = state.pipe[o]] = state.pipe
        /\ [state.data EXCEPT ![o] = state.data[o]] = state.data
    BY <1>3
  <2> QED BY <1>1, <1>2, <2>1 DEF ProcessValues, ReaderStep
<1>5. /\ state' \in ProcessValues /\ SameLife(state, state') /\ state'.wrote = state.wrote
      /\ \A x \in Process!Outputs \ {o} : SameOutput(state, state', x)
      /\ state'.pipe[o] = state.pipe[o] /\ state'.data[o] = state.data[o] /\ state'.reader[o] = q
  <2> DEFINE p == state.pipe[o]
             d == state.data[o]
  <2>1. p \in Seq(Nat) /\ d \in Seq(Nat) /\ state' = ReaderStep(state, o, p, d, q)
    BY <1>3, <1>4
  <2> HIDE DEF p, d
  <2>2. /\ state' \in ProcessValues /\ SameLife(state, state') /\ state'.wrote = state.wrote
        /\ \A x \in Process!Outputs \ {o} : SameOutput(state, state', x)
        /\ state'.pipe[o] = p /\ state'.data[o] = d /\ state'.reader[o] = q
    BY <1>1, <2>1, ReaderStepIs
  <2> QED BY <2>2 DEF p, d
<1>6. Kept(state', o)
  <2>1. Kept(state, o)
    BY <1>1
  <2> QED BY <1>2, <1>5, <2>1 DEF Kept, SameLife
<1>7. state.js # "new" /\ (state'.reader[o] \in {"ended", "freed"} => ~state'.isNeedRun)
  BY <1>1, <1>2, <1>5 DEF Scripted, SameLife
<1> QED BY <1>1, <1>5, <1>6, <1>7, OutputMoves DEF ProcessInv

(* A reader reads. *)
LEMMA ReadKeepsInv ==
  ASSUME ProcessAssumption, ProcessInv, NEW o \in Process!Outputs, Process!Read(o)
  PROVE  ProcessInv'
<1>1. /\ state \in ProcessValues /\ Scripted(state) /\ (~state.astray => Awaited(state))
      /\ \A x \in Process!Outputs : Kept(state, x)
  BY DEF ProcessInv
<1>2. /\ state.wrote[o] \in Seq(Nat) /\ state.pipe[o] \in Seq(Nat) /\ state.data[o] \in Seq(Nat) /\ state.max \in Nat
  BY <1>1, ProcessFields
<1> DEFINE n == IF Len(state.pipe[o]) < ReadSize THEN Len(state.pipe[o]) ELSE ReadSize
           rest == SubSeq(state.pipe[o], n + 1, Len(state.pipe[o]))
           data == state.data[o] \o Process!UpToNul(SubSeq(state.pipe[o], 1, n))
           next == IF Len(data) > state.max THEN "killing" ELSE IF Process!IsOpen THEN "reading" ELSE "looking"
<1>3. n \in 0..Len(state.pipe[o])
  BY <1>2 DEF ProcessAssumption
<1>4. PICK run \in Process!IsNeedRun :
        /\ state.reader[o] = "reading"
        /\ state' = [state EXCEPT !.pipe[o] = rest, !.data[o] = data, !.reader[o] = IF run THEN next ELSE "ended"]
  BY DEF Process!Read
<1> DEFINE q == IF run THEN next ELSE "ended"
<1>5. state' = ReaderStep(state, o, rest, data, q) /\ state.reader[o] = "reading"
  BY <1>4 DEF ReaderStep
<1>6. /\ q \in ReaderPlaces /\ (q = "ended" => ~state.isNeedRun) /\ q \in {"killing", "reading", "looking", "ended"}
      /\ q = "killing" => Len(data) > state.max
      /\ q \in {"looking", "reading"} => ~(Len(data) > state.max)
  <2>1. run \in BOOLEAN /\ (~run => ~state.isNeedRun)
    BY IsNeedRunIs
  <2>2. /\ next \in ReaderPlaces /\ next \in {"killing", "reading", "looking"}
        /\ next = "killing" => Len(data) > state.max
        /\ next \in {"looking", "reading"} => ~(Len(data) > state.max)
    <3> HIDE DEF data
    <3> QED BY ProcessPlacesAre
  <2> HIDE DEF next
  <2> QED BY <2>1, <2>2, ProcessPlacesAre
<1> HIDE DEF q
<1>7. /\ Traced(state.wrote[o], state.pipe[o], state.data[o]) /\ Gapless(state.wrote[o], state.pipe[o], state.data[o])
      /\ Len(state.wrote[o]) <= Written[o] /\ Len(state.pipe[o]) <= PipeSize
  BY <1>1, <1>5 DEF Kept
<1> HIDE DEF n
<1>8. /\ rest \in Seq(Nat) /\ data \in Seq(Nat) /\ Len(rest) <= Len(state.pipe[o])
      /\ Traced(state.wrote[o], rest, data) /\ Gapless(state.wrote[o], rest, data)
  BY <1>2, <1>3, <1>7, ReadIsTraced
<1> HIDE DEF rest, data
<1>9. /\ state' \in ProcessValues /\ SameLife(state, state') /\ state'.wrote = state.wrote
      /\ \A x \in Process!Outputs \ {o} : SameOutput(state, state', x)
      /\ state'.pipe[o] = rest /\ state'.data[o] = data /\ state'.reader[o] = q
  BY <1>1, <1>5, <1>6, <1>8, ReaderStepIs
<1>10. Kept(state', o)
  <2>1. Len(rest) <= PipeSize
    <3>1. Len(rest) \in Nat /\ Len(state.pipe[o]) \in Nat /\ PipeSize \in Nat
      BY <1>2, <1>8 DEF ProcessAssumption
    <3> QED BY <1>7, <1>8, <3>1
  <2> QED BY <1>6, <1>7, <1>8, <1>9, <2>1 DEF Kept, SameLife
<1>11. state.js # "new" /\ (state'.reader[o] \in {"ended", "freed"} => ~state'.isNeedRun)
  BY <1>1, <1>5, <1>6, <1>9 DEF Scripted, SameLife
<1> QED BY <1>1, <1>9, <1>10, <1>11, OutputMoves DEF ProcessInv

(* A reader kills the process, and cuts its text. *)
LEMMA OverflowKeepsInv ==
  ASSUME ProcessInv, NEW o \in Process!Outputs, Process!Overflow(o)
  PROVE  ProcessInv'
<1>1. /\ state \in ProcessValues /\ Scripted(state) /\ (~state.astray => Awaited(state))
      /\ \A x \in Process!Outputs : Kept(state, x)
  BY DEF ProcessInv
<1>2. PICK r \in Process!KillProcess(state, TRUE, 9) :
        /\ state.reader[o] = "killing"
        /\ LET c == [r[2] EXCEPT !.reader[o] = "looking"] IN
           state' = IF r[1] THEN [c EXCEPT !.isNeedRun = FALSE, !.data[o] = SubSeq(@, 1, state.max)] ELSE c
  BY DEF Process!Overflow, Process!SIGKILL
<1>3. /\ r[2] \in ProcessValues /\ Struck(state, r[2], TRUE, 9, r[1])
      /\ SameScript(state, r[2]) /\ r[2].isNeedRun = state.isNeedRun
  <2>1. TRUE \in BOOLEAN /\ 9 \in Signals \cup {9}
    OBVIOUS
  <2> QED BY <1>1, <2>1, KillIs
<1>4. r[1] \in BOOLEAN /\ state.isNeedRun \in BOOLEAN /\ FALSE \in BOOLEAN
  BY <1>1, <1>3, ProcessFields DEF Struck
<1> DEFINE u == [r[2] EXCEPT !.isNeedRun = state.isNeedRun /\ ~r[1]]
           text == IF r[1] THEN SubSeq(state.data[o], 1, state.max) ELSE state.data[o]
<1>5. /\ u \in ProcessValues /\ SameScript(state, u) /\ u.isNeedRun = (state.isNeedRun /\ ~r[1])
      /\ u.proc = r[2].proc /\ u.how = r[2].how /\ u.astray = r[2].astray /\ u.defied = r[2].defied
  <2>1. (state.isNeedRun /\ ~r[1]) \in BOOLEAN
    OBVIOUS
  <2>2. u \in ProcessValues
    BY <1>3, <2>1, ZenonT(60) DEF ProcessValues
  <2>3. /\ SameScript(r[2], u) /\ u.isNeedRun = (state.isNeedRun /\ ~r[1])
        /\ u.proc = r[2].proc /\ u.how = r[2].how /\ u.astray = r[2].astray /\ u.defied = r[2].defied
    <3> DEFINE run == state.isNeedRun /\ ~r[1]
    <3> HIDE DEF run
    <3>1. LET w == [r[2] EXCEPT !.isNeedRun = run] IN
          /\ SameScript(r[2], w) /\ w.isNeedRun = run
          /\ w.proc = r[2].proc /\ w.how = r[2].how /\ w.astray = r[2].astray /\ w.defied = r[2].defied
      BY <1>3 DEF ProcessValues, SameScript, SameTexts
    <3> QED BY <3>1 DEF run
  <2>4. SameScript(state, u)
    <3> HIDE DEF u
    <3> QED BY <1>3, <2>3 DEF SameScript, SameTexts
  <2> QED BY <2>2, <2>3, <2>4
<1>6. state' = ReaderStep(u, o, u.pipe[o], text, "looking")
  <2> DEFINE qs == [state.reader EXCEPT ![o] = "looking"]
             ds == [state.data EXCEPT ![o] = text]
  <2>1. /\ r[2].pipe = state.pipe /\ r[2].data = state.data /\ r[2].reader = state.reader
        /\ state.pipe \in [Process!Outputs -> Seq(Nat)] /\ state.data \in [Process!Outputs -> Seq(Nat)]
    BY <1>1, <1>3, ProcessFields DEF SameScript, SameTexts
  <2>2. [state.pipe EXCEPT ![o] = state.pipe[o]] = state.pipe
    BY <2>1
  <2>3. CASE r[1]
    <3>1. state' = [[r[2] EXCEPT !.reader[o] = "looking"]
                      EXCEPT !.isNeedRun = FALSE, !.data[o] = SubSeq(@, 1, state.max)]
      BY <1>2, <2>3
    <3>2. text = SubSeq(state.data[o], 1, state.max)
      BY <2>3
    <3>3. u = [r[2] EXCEPT !.isNeedRun = FALSE]
      BY <2>3
    <3> HIDE DEF text, u
    <3>4. state' = [[r[2] EXCEPT !.reader = qs] EXCEPT !.isNeedRun = FALSE, !.data = ds]
      BY <1>3, <2>1, <3>1, <3>2 DEF ProcessValues
    <3>5. u.pipe = state.pipe /\ u.data = state.data /\ u.reader = state.reader /\ u \in ProcessValues
      BY <1>5, <2>1 DEF SameScript, SameTexts
    <3> HIDE DEF qs, ds
    <3>6. state' = [u EXCEPT !.pipe = state.pipe, !.data = ds, !.reader = qs]
      BY <1>3, <3>3, <3>4, <3>5 DEF ProcessValues
    <3> QED BY <2>2, <3>5, <3>6 DEF ProcessValues, ReaderStep, qs, ds
  <2>4. CASE ~r[1]
    <3>1. state' = [r[2] EXCEPT !.reader[o] = "looking"]
      BY <1>2, <2>4
    <3>2. text = state.data[o] /\ [state.data EXCEPT ![o] = state.data[o]] = state.data
      BY <2>1, <2>4
    <3>3. u = [r[2] EXCEPT !.isNeedRun = r[2].isNeedRun]
      BY <1>3, <1>4, <2>4
    <3> HIDE DEF text, u
    <3>4. state' = [r[2] EXCEPT !.reader = qs] /\ ds = state.data
      BY <1>3, <2>1, <3>1, <3>2 DEF ProcessValues
    <3>5. u.pipe = state.pipe /\ u.data = state.data /\ u.reader = state.reader /\ u \in ProcessValues
      BY <1>5, <2>1 DEF SameScript, SameTexts
    <3> HIDE DEF qs, ds
    <3>6. state' = [u EXCEPT !.pipe = state.pipe, !.data = ds, !.reader = qs]
      <4>1. u = r[2]
        BY <1>3, <3>3 DEF ProcessValues
      <4>2. state' = [u EXCEPT !.reader = qs] /\ ds = state.data
        BY <3>4, <4>1
      <4> QED BY <3>5, <4>2 DEF ProcessValues
    <3> QED BY <2>2, <3>5, <3>6 DEF ProcessValues, ReaderStep, qs, ds
  <2> QED BY <1>4, <2>3, <2>4
<1>7. /\ Kept(state, o) /\ state.max \in Nat /\ state.data[o] \in Seq(Nat) /\ state.pipe[o] \in Seq(Nat)
      /\ state.max \in 0..Len(state.data[o])
  <2>1. Kept(state, o) /\ state.max \in Nat /\ state.data[o] \in Seq(Nat) /\ state.pipe[o] \in Seq(Nat)
    BY <1>1, ProcessFields
  <2>2. Len(state.data[o]) > state.max
    BY <1>2, <2>1 DEF Kept
  <2> QED BY <2>1, <2>2
<1>8. /\ text \in Seq(Nat) /\ Traced(state.wrote[o], state.pipe[o], text)
      /\ r[1] => ~(Len(text) > state.max)
      /\ ~r[1] => text = state.data[o]
  <2>1. CASE r[1]
    <3>1. text = SubSeq(state.data[o], 1, state.max)
      BY <2>1
    <3>2. state.wrote[o] \in Seq(Nat) /\ Traced(state.wrote[o], state.pipe[o], state.data[o])
      BY <1>1, <1>7, ProcessFields DEF Kept
    <3>3. /\ text \in Seq(Nat) /\ Traced(state.wrote[o], state.pipe[o], text) /\ Len(text) = state.max
      <4> DEFINE wrote == state.wrote[o]
                 pipe == state.pipe[o]
                 data == state.data[o]
                 max == state.max
      <4>1. /\ wrote \in Seq(Nat) /\ pipe \in Seq(Nat) /\ data \in Seq(Nat) /\ max \in 0..Len(data)
            /\ Traced(wrote, pipe, data) /\ text = SubSeq(data, 1, max)
        BY <1>7, <3>1, <3>2
      <4> HIDE DEF wrote, pipe, data, max, text
      <4>2. text \in Seq(Nat) /\ Traced(wrote, pipe, text) /\ Len(text) = max
        BY <4>1, CutIsTraced
      <4> QED BY <4>2 DEF wrote, pipe, max
    <3> HIDE DEF text
    <3> QED BY <1>7, <2>1, <3>3
  <2>2. CASE ~r[1]
    BY <1>7, <2>2 DEF Kept
  <2> QED BY <1>4, <2>1, <2>2
<1>9. state.js # "new" /\ u.pipe[o] = state.pipe[o] /\ u.pipe[o] \in Seq(Nat)
  BY <1>1, <1>2, <1>5, <1>7 DEF Scripted, SameScript, SameTexts
<1>10. /\ Scripted(u) /\ (~u.astray => Awaited(u)) /\ \A x \in Process!Outputs : Kept(u, x)
  <2>1. /\ (u.proc = state.proc /\ u.how = state.how) \/ (state.proc = "running" /\ u.proc = "zombie")
        /\ (state.astray => u.astray) /\ (state.defied => u.defied)
        /\ (u.isNeedRun => state.isNeedRun)
    <3> HIDE DEF u
    <3> QED BY <1>3, <1>5 DEF Struck
  <2>2. state.isNeedRun /\ ~u.isNeedRun /\ ~u.astray => u.proc # "running" \/ u.defied
    <3> HIDE DEF u
    <3>1. 9 \in Process!SignalType
      BY DEF Process!SignalType
    <3> QED BY <1>3, <1>5, <3>1 DEF Struck
  <2> HIDE DEF u
  <2> QED BY <1>1, <1>5, <1>9, <2>1, <2>2, ProcessMoves
<1> HIDE DEF u, text
<1>11. /\ state' \in ProcessValues /\ SameLife(u, state') /\ state'.wrote = u.wrote
       /\ \A x \in Process!Outputs \ {o} : SameOutput(u, state', x)
       /\ state'.pipe[o] = u.pipe[o] /\ state'.data[o] = text /\ state'.reader[o] = "looking"
  <2> DEFINE p == u.pipe[o]
  <2>1. p \in Seq(Nat) /\ state' = ReaderStep(u, o, p, text, "looking")
    BY <1>6, <1>9
  <2> DEFINE q == "looking"
  <2>0. u \in ProcessValues /\ text \in Seq(Nat) /\ q \in ReaderPlaces /\ state' = ReaderStep(u, o, p, text, q)
    BY <1>5, <1>8, <2>1, ProcessPlacesAre
  <2> HIDE DEF p, q
  <2>2. /\ state' \in ProcessValues /\ SameLife(u, state') /\ state'.wrote = u.wrote
        /\ \A x \in Process!Outputs \ {o} : SameOutput(u, state', x)
        /\ state'.pipe[o] = p /\ state'.data[o] = text /\ state'.reader[o] = q
    <3>1. ASSUME NEW c, c = u, NEW v, v = state', NEW e, e = p, NEW t, t = text
          PROVE  /\ v \in ProcessValues /\ SameLife(c, v) /\ v.wrote = c.wrote
                 /\ \A x \in Process!Outputs \ {o} : SameOutput(c, v, x)
                 /\ v.pipe[o] = e /\ v.data[o] = t /\ v.reader[o] = q
      <4>1. c \in ProcessValues /\ e \in Seq(Nat) /\ t \in Seq(Nat) /\ q \in ReaderPlaces
            /\ v = ReaderStep(c, o, e, t, q)
        BY <2>0, <2>1, <3>1
      <4> QED BY <4>1, ReaderStepIs
    <3> QED BY <3>1
  <2> QED BY <2>2 DEF p, q
<1>12. Kept(state', o)
  <2>1. /\ state'.wrote[o] = state.wrote[o] /\ state'.pipe[o] = state.pipe[o] /\ state'.max = state.max
        /\ state'.isNeedRun = (state.isNeedRun /\ ~r[1]) /\ state'.proc = r[2].proc
    BY <1>5, <1>9, <1>11 DEF SameLife, SameScript, SameTexts
  <2>2. CASE r[1]
    BY <1>7, <1>8, <1>11, <2>1, <2>2 DEF Kept
  <2>3. CASE ~r[1]
    <3>1. state'.proc = "gone"
      BY <1>3, <2>1, <2>3 DEF Struck
    <3>2. Gapless(state.wrote[o], state.pipe[o], state.data[o])
      BY <1>2, <1>7 DEF Kept
    <3> QED BY <1>7, <1>8, <1>11, <2>1, <2>3, <3>1, <3>2 DEF Kept
  <2> QED BY <1>4, <2>2, <2>3
<1>13. u.js # "new" /\ ~(state'.reader[o] \in {"ended", "freed"})
  BY <1>5, <1>9, <1>11 DEF SameScript
<1> QED BY <1>10, <1>11, <1>12, <1>13, OutputMoves DEF ProcessInv

(* Every step keeps it. *)
LEMMA ProcessNextKeepsInv ==
  ASSUME ProcessAssumption, ProcessInv, Process!Next
  PROVE  ProcessInv'
<1>1. CASE \E timeout \in BOOLEAN, limit \in Limits : Process!RunCommand(timeout, limit)
  BY <1>1, RunCommandKeepsInv
<1>2. CASE \/ \E code \in ExitCodes : Process!Exit(code)
           \/ \E o \in Process!Outputs : Process!PipeBreaks(o)
  BY <1>2, ProcessEndsKeepsInv
<1>3. CASE Process!Call
  BY <1>3, CallKeepsInv, KillKeepsInv DEF Process!Call
<1>4. CASE Process!TimeoutListener \/ Process!TimeoutListenerEnds
  BY <1>4, KillKeepsInv
<1>5. CASE Process!Waited \/ Process!Closed \/ Process!Noted \/ Process!Deleted
  BY <1>5, WaitKeepsInv
<1>6. ASSUME NEW o \in Process!Outputs, Process!Look(o) \/ Process!Read(o) \/ Process!Overflow(o) \/ Process!EndStd(o)
      PROVE  ProcessInv'
  BY <1>6, LookKeepsInv, ReadKeepsInv, OverflowKeepsInv
<1>7. CASE \/ Process!ReadStdOut \/ Process!ReadStdErr \/ Process!EndStdOut \/ Process!EndStdErr
  BY <1>6, <1>7, ProcessPlacesAre DEF Process!ReadStdOut, Process!ReadStdErr, Process!EndStdOut, Process!EndStdErr
<1>8. CASE \E o \in Process!Outputs : \E nul \in BOOLEAN : Process!Write(o, nul)
  BY <1>8, WriteKeepsInv
<1> QED BY <1>1, <1>2, <1>3, <1>4, <1>5, <1>7, <1>8 DEF Process!Next

(* What it says of the outputs. *)
LEMMA OutputsAreRight ==
  ASSUME ProcessInv
  PROVE  Process!OutputIsInOrder /\ Process!OutputIsLimited
<1>1. \A o \in Process!Outputs : Kept(state, o)
  BY DEF ProcessInv
<1>2. ASSUME NEW o \in Process!Outputs PROVE Process!InOrder(state.data[o], state.wrote[o])
  BY <1>1 DEF Kept, Traced
<1>3. Process!OutputIsInOrder
  <2>1. \A text \in Process!GetOutput : Process!InOrder(text, state.wrote["out"])
    <3>1. \A text \in Process!GetOutput : text = state.data["out"]
      BY DEF Process!GetOutput, Process!Output
    <3> QED BY <1>2, <3>1, ProcessPlacesAre
  <2>2. \A text \in Process!GetErrorOutput : Process!InOrder(text, state.wrote["err"])
    <3>1. \A text \in Process!GetErrorOutput : text = state.data["err"]
      BY DEF Process!GetErrorOutput, Process!Output
    <3> QED BY <1>2, <3>1, ProcessPlacesAre
  <2> QED BY <2>1, <2>2 DEF Process!OutputIsInOrder
<1>4. Process!OutputIsLimited
  BY <1>1 DEF Kept, Process!OutputIsLimited
<1> QED BY <1>3, <1>4

(* What it says of the process. *)
LEMMA ProcessIsRight ==
  ASSUME ProcessAssumption, ProcessInv
  PROVE  Process!IsReaped /\ Process!StatusIsKept /\ Process!ReadWhileItRuns
<1>1. /\ state \in ProcessValues /\ Scripted(state) /\ (~state.astray => Awaited(state))
  BY DEF ProcessInv
<1>2. state.proc \in Processes /\ state.how \in Process!Statuses \cup {0}
  BY <1>1, ProcessFields
<1>3. Process!IsReaped
  BY <1>1, <1>2 DEF Process!IsReaped, Awaited, Processes
<1>4. Process!StatusIsKept
  <2>1. SUFFICES ASSUME state.js = "idle", state.proc = "gone", ~state.late, ~state.astray
                 PROVE  /\ state.exitCode = state.how
                        /\ state.how \in Signals \cup {9, 13} => Process!GetExitCode = state.how
    BY DEF Process!StatusIsKept, Process!SIGKILL, Process!SIGPIPE
  <2>2. state.exitCode = state.how
    BY <1>1, <2>1 DEF Awaited
  <2>3. ASSUME state.how \in Signals \cup {9, 13} PROVE Process!GetExitCode = state.how
    <3>1. state.how \in 1..127
      <4>1. \A sig \in Signals \cup {9, 13} : sig \in 1..127
        BY DEF ProcessAssumption
      <4> QED BY <2>3, <4>1, Zenon
    <3>2. state.how % 256 = state.how
      BY <3>1
    <3> QED BY <2>2, <3>2 DEF Process!GetExitCode
  <2> QED BY <2>2, <2>3
<1>5. Process!ReadWhileItRuns
  BY <1>1 DEF Process!ReadWhileItRuns, Scripted, Awaited
<1> QED BY <1>3, <1>4, <1>5

(* A unit of a text has one of the numbers written so far. *)
LEMMA TextIsBounded ==
  ASSUME NEW wrote \in Seq(Nat), NEW pipe \in Seq(Nat), NEW text \in Seq(Nat), NEW limit \in Nat,
         Traced(wrote, pipe, text), Len(wrote) <= limit
  PROVE  text \in Seq(1..limit)
<1>1. ASSUME NEW i \in 1..Len(text) PROVE text[i] \in 1..limit
  <2>1. text[i] \in Nat /\ Len(wrote) \in Nat /\ Len(pipe) \in Nat /\ text[i] <= Len(wrote) - Len(pipe)
    BY DEF Traced
  <2>2. (IF i = 1 THEN 0 ELSE text[i - 1]) < text[i]
    BY DEF Traced, Process!InOrder
  <2>3. i # 1 => text[i - 1] \in Nat
    <3>1. i # 1 => i - 1 \in 1..Len(text)
      OBVIOUS
    <3> QED BY <3>1
  <2>4. text[i] >= 1
    BY <2>1, <2>2, <2>3
  <2> QED BY <2>1, <2>4
<1>2. Len(text) \in Nat /\ text \in [1..Len(text) -> 1..limit]
  BY <1>1
<1>3. text \in UNION {[1..n -> 1..limit] : n \in Nat}
  BY <1>2
<1> QED BY <1>3, SeqDef, Zenon

(* The types. *)
LEMMA ProcessTypes ==
  ASSUME ProcessAssumption, ProcessInv
  PROVE  Process!TypeOK
<1>1. state \in ProcessValues /\ \A o \in Process!Outputs : Kept(state, o)
  BY DEF ProcessInv
<1>2. /\ state.js \in Scripts /\ state.proc \in Processes /\ state.how \in Process!Statuses \cup {0}
      /\ state.status \in Process!Statuses \cup {0, 99} /\ state.exitCode \in Process!Statuses \cup {0, 99}
      /\ state.listener \in ListenerPlaces /\ state.reader \in [Process!Outputs -> ReaderPlaces]
      /\ state.isWait \in BOOLEAN /\ state.isNeedRun \in BOOLEAN /\ state.defied \in BOOLEAN
      /\ state.late \in BOOLEAN /\ state.astray \in BOOLEAN
  BY <1>1, ProcessFields
<1>3. ASSUME NEW o \in Process!Outputs
      PROVE  /\ Len(state.wrote[o]) <= Written[o] /\ Len(state.pipe[o]) <= PipeSize
             /\ state.data[o] \in Seq(1..Written[o])
  <2>1. /\ state.wrote[o] \in Seq(Nat) /\ state.pipe[o] \in Seq(Nat) /\ state.data[o] \in Seq(Nat)
        /\ Written[o] \in Nat
    BY <1>1, ProcessFields DEF Written, ProcessAssumption, Process!Outputs
  <2>2. /\ Len(state.wrote[o]) <= Written[o] /\ Len(state.pipe[o]) <= PipeSize
        /\ Traced(state.wrote[o], state.pipe[o], state.data[o])
    BY <1>1 DEF Kept
  <2> QED BY <2>1, <2>2, TextIsBounded
<1> QED
  BY <1>2, <1>3 DEF Process!TypeOK, Process!Junk, Written, Scripts, Processes, ListenerPlaces, ReaderPlaces

(* A step that changes nothing keeps it. *)
LEMMA ProcessStays ==
  ASSUME ProcessInv, UNCHANGED state
  PROVE  ProcessInv'
BY DEF ProcessInv

----------------------------------------------------------------------------
(* The parts. *)

(* The pool of workers keeps its bound, releases only workers that have    *)
(* nothing to do, and counts those it starts, with whatever runs beside it. *)
THEOREM PoolOfWorkersIsSound ==
  ASSUME Pool!PoolAssumption PROVE Spec => []PoolIsSound
<1> DEFINE Inv == part = "pool" => Pool!IInv
<1>1. Init => Inv
  BY Pool!InitEstablishesIInv DEF Init
<1>2. Inv /\ [Next]_vars => Inv'
  BY Pool!NextKeepsIInv DEF Next, vars
<1>3. Inv => PoolIsSound
  BY Pool!IInvImpliesSafety DEF PoolIsSound
<1> QED BY <1>1, <1>2, <1>3, PTL DEF Spec

(* A task of low priority comes nearer to its turn with every dequeue, as  *)
(* long as one is queued, and the counters that decide on expansion and on *)
(* the wake-up of workers are those of the queues.                         *)
THEOREM LowPriorityHasItsTurn ==
  ASSUME QueuesAssumption PROVE Spec => PrioritiesAreServed
<1> DEFINE Inv == part = "queues" => QueuesInv
           Serves == part = "queues" => Queues!LowHasItsTurn /\ (Queues!Consistent)'
<1>1. Init => Inv
  BY QueuesInitEstablishesInv DEF Init
<1>2. Inv /\ [Next]_vars => Inv' /\ [Serves]_vars
  <2> SUFFICES ASSUME Inv, [Next]_vars PROVE Inv' /\ [Serves]_vars
    OBVIOUS
  <2>1. CASE vars' = vars
    BY <2>1 DEF vars, QueuesInv
  <2>2. CASE Next /\ part # "queues"
    BY <2>2 DEF Next
  <2>3. CASE Next /\ part = "queues"
    <3>1. QueuesInv /\ Queues!Next /\ part' = part
      BY <2>3 DEF Next
    <3>2. QueuesInv' /\ Queues!LowHasItsTurn
      BY <3>1, QueuesNextKeepsInv
    <3>3. (QueuesInv => Queues!Consistent)'
      BY QueuesInvImplies, PTL
    <3> QED BY <3>2, <3>3
  <2> QED BY <2>1, <2>2, <2>3
<1> QED BY <1>1, <1>2, PTL DEF Spec, PrioritiesAreServed

(* The promise of an execution is settled once, and while it is open there *)
(* is something that will settle it: a task queued, a worker performing it, *)
(* a result or an end under way, for a group one place for each of its     *)
(* members that has no result yet.                                         *)
THEOREM PromisesAreSettled ==
  ASSUME LifeAssumption, GroupAssumption PROVE Spec => []ExecutionsAreSettled
<1> DEFINE Inv == (part = "life" => LifeInv) /\ (part = "group" => GroupInv)
<1>1. Init => Inv
  BY LifeInitEstablishesInv, GroupInitEstablishesInv DEF Init
<1>2. Inv /\ [Next]_vars => Inv'
  <2>1. part = "life" /\ Inv /\ [Next]_vars => Inv'
    BY LifeNextKeepsInv DEF Next, vars
  <2>2. part = "group" /\ Inv /\ [Next]_vars => Inv'
    BY GroupNextKeepsInv DEF Next, vars
  <2>3. part \notin {"life", "group"} /\ Inv /\ [Next]_vars => Inv'
    BY DEF Next, vars
  <2> QED BY <2>1, <2>2, <2>3
<1>3. Inv => ExecutionsAreSettled
  BY LifeInvImpliesSafety, GroupInvImpliesSafety DEF ExecutionsAreSettled
<1> QED BY <1>1, <1>2, <1>3, PTL DEF Spec

(* A Worker is deleted when its thread has ended and neither the host nor  *)
(* a handle reaches it, is counted exactly while its thread lives, and its *)
(* thread gets the answers to its own calls, unless one came late.         *)
THEOREM WorkerIsDeletedLast ==
  ASSUME WorkerAssumption PROVE Spec => []WorkerIsSound
<1> DEFINE Inv == part = "worker" => WorkerInv
<1>1. Init => Inv
  BY WorkerInitEstablishesInv DEF Init
<1>2. Inv /\ [Next]_vars => Inv'
  BY WorkerNextKeepsInv DEF Next, vars, WorkerInv
<1>3. Inv => WorkerIsSound
  BY WorkerInvImplies DEF WorkerIsSound
<1> QED BY <1>1, <1>2, <1>3, PTL DEF Spec

(* Whatever the listeners of a Worker do while they are called, no event   *)
(* passes over one that stays, none is called twice for it, and no deleted *)
(* one is listed; the references of the registered objects are those kept. *)
(* A timer that was cleared, or whose thread has ended, cannot fire.       *)
THEOREM CallbacksAreCalledOnce ==
  ASSUME ListenerAssumption, TimerAssumption PROVE Spec => []CallbacksAreSound
<1> DEFINE Inv == (part = "listeners" => ListenerInv) /\ (part = "timer" => TimerInv)
<1>1. Init => Inv
  BY ListenerInitEstablishesInv, TimerInitEstablishesInv DEF Init
<1>2. Inv /\ [Next]_vars => Inv'
  <2>1. part = "listeners" /\ Inv /\ [Next]_vars => Inv'
    BY ListenerNextKeepsInv DEF Next, vars, ListenerInv
  <2>2. part = "timer" /\ Inv /\ [Next]_vars => Inv'
    BY TimerNextKeepsInv DEF Next, vars, TimerInv
  <2>3. part \notin {"listeners", "timer"} /\ Inv /\ [Next]_vars => Inv'
    BY DEF Next, vars
  <2> QED BY <2>1, <2>2, <2>3
<1>3. Inv => CallbacksAreSound
  BY ListenerInvImplies, TimerInvImplies DEF CallbacksAreSound
<1> QED BY <1>1, <1>2, <1>3, PTL DEF Spec

(* A child process is waited for once, by whoever keeps its object, and    *)
(* the exit code told is the one of its end; what is told of its output    *)
(* was written so, in order, and not beyond the limit while it runs; its   *)
(* pipes are read from as long as it runs.                                 *)
THEOREM ProcessIsReaped ==
  ASSUME ProcessAssumption PROVE Spec => []ProcessIsSound
<1> DEFINE Inv == part = "child" => ProcessInv
<1>1. Init => Inv
  BY ProcessInitEstablishesInv DEF Init
<1>2. Inv /\ [Next]_vars => Inv'
  <2>1. part = "child" /\ Inv /\ [Next]_vars => Inv'
    BY ProcessNextKeepsInv, ProcessStays DEF Next, vars
  <2>2. part # "child" /\ [Next]_vars => Inv'
    BY DEF Next, vars
  <2> QED BY <2>1, <2>2
<1>3. Inv => ProcessIsSound
  BY ProcessIsRight, OutputsAreRight DEF ProcessIsSound
<1> QED BY <1>1, <1>2, <1>3, PTL DEF Spec

(* All parts keep to their types: no count of workers, tasks, messages,    *)
(* listeners, timers or references runs below zero or beyond its bound.    *)
THEOREM TypesAreKept ==
  ASSUME Pool!PoolAssumption, QueuesAssumption, LifeAssumption, GroupAssumption,
         WorkerAssumption, ListenerAssumption, TimerAssumption, ProcessAssumption
  PROVE  Spec => []TypeOK
<1> DEFINE Inv == /\ part = "pool" => Pool!IInv
                  /\ part = "queues" => QueuesInv
                  /\ part = "life" => LifeInv
                  /\ part = "group" => GroupInv
                  /\ part = "worker" => WorkerInv
                  /\ part = "listeners" => ListenerInv
                  /\ part = "timer" => TimerInv
                  /\ part = "child" => ProcessInv
<1>1. Init => Inv
  BY Pool!InitEstablishesIInv, QueuesInitEstablishesInv, LifeInitEstablishesInv,
     GroupInitEstablishesInv, WorkerInitEstablishesInv, ListenerInitEstablishesInv,
     TimerInitEstablishesInv, ProcessInitEstablishesInv DEF Init
<1>2. Inv /\ [Next]_vars => Inv'
  <2>1. part = "pool" /\ Inv /\ [Next]_vars => Inv'
    BY Pool!NextKeepsIInv DEF Next, vars
  <2>2. part = "queues" /\ Inv /\ [Next]_vars => Inv'
    BY QueuesNextKeepsInv DEF Next, vars, QueuesInv
  <2>3. part = "life" /\ Inv /\ [Next]_vars => Inv'
    BY LifeNextKeepsInv DEF Next, vars
  <2>4. part = "group" /\ Inv /\ [Next]_vars => Inv'
    BY GroupNextKeepsInv DEF Next, vars
  <2>5. part = "worker" /\ Inv /\ [Next]_vars => Inv'
    BY WorkerNextKeepsInv DEF Next, vars, WorkerInv
  <2>6. part = "listeners" /\ Inv /\ [Next]_vars => Inv'
    BY ListenerNextKeepsInv DEF Next, vars, ListenerInv
  <2>7. part = "timer" /\ Inv /\ [Next]_vars => Inv'
    BY TimerNextKeepsInv DEF Next, vars, TimerInv
  <2>8. part = "child" /\ Inv /\ [Next]_vars => Inv'
    BY ProcessNextKeepsInv, ProcessStays DEF Next, vars
  <2>9. /\ part \notin {"pool", "queues", "life", "group", "worker", "listeners", "timer", "child"}
        /\ Inv /\ [Next]_vars
        => Inv'
    BY DEF Next, vars
  <2> QED BY <2>1, <2>2, <2>3, <2>4, <2>5, <2>6, <2>7, <2>8, <2>9
<1>3. Inv => TypeOK
  BY Pool!IInvImpliesTypeOK, QueuesInvImplies, LifeInvImpliesTypeOK, GroupInvImpliesTypeOK,
     WorkerInvImplies, ListenerInvImplies, TimerInvImplies, ProcessTypes DEF TypeOK
<1> QED BY <1>1, <1>2, <1>3, PTL DEF Spec
=============================================================================
