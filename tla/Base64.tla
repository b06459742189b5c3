------------------------------- MODULE Base64 --------------------------------
(***************************************************************************)
(* util.Base64Helper (js_base64.cpp under util_js.ts) and the base64 and   *)
(* hex encodings of buffer.Buffer (converter.cpp): four implementations of *)
(* the same two codes, and the jobs of the asynchronous calls, which read  *)
(* the array of the program on another thread.                             *)
(*                                                                         *)
(* A byte has four bits here and a symbol three, so that three bytes are   *)
(* four symbols as in the code.  The symbols of the URL alphabet that the  *)
(* basic one has not are numbered from UrlFrom on.                         *)
(***************************************************************************)
EXTENDS Integers, Sequences, SequencesExt

CONSTANTS
  Samples,    \* bound: the bytes that arrays are made of, some of 0..15
  Chars,      \* bound: the characters that given texts are made of
  MaxBytes, MaxChars, \* bounds: of arrays and of given texts
  ChunkSize,  \* of a line of MIME; 76
  MaxJobs,    \* bound: asynchronous calls
  MaxWrites   \* bound: writes to the shared array

VARIABLE base64

Base == 16
Radix == 8
UrlFrom == 16
Pad == 8        \* '=', which the basic table has at its index 64
Bad == 98       \* a character of no alphabet
Break == 99     \* CR LF
Throw == <<-3>>
Undefined == <<-4>>
Types == {"BASIC", "MIME", "BASIC_URL_SAFE", "MIME_URL_SAFE"}
Mime == {"MIME", "MIME_URL_SAFE"}
Url == {"BASIC_URL_SAFE", "MIME_URL_SAFE"}
Arrays(n) == UNION {[1..k -> Samples] : k \in 1..n}
Texts(n) == UNION {[1..k -> Chars] : k \in 1..n} \ {<<Pad>>}

(* phase: "start", "jobs" with a shared array, "text" once there is a text *)
(*   of the bytes, "given" with a text from elsewhere, and "done"          *)
(* array: that the jobs read; writes to it; reachable for the program;     *)
(*   freed by the collector; dangling: it was read then                    *)
(* jobs: kind, type, at; read: the bytes taken; held: what each place of   *)
(*   the array held up to then; settled: how often the promise was         *)
TypeOK ==
  /\ base64.phase \in {"start", "jobs", "text", "given", "done"}
  /\ base64.type \in Types /\ base64.code \in {"helper", "buffer", "hex"}
  /\ base64.freed \in BOOLEAN /\ base64.reachable \in BOOLEAN
  /\ \A j \in DOMAIN base64.jobs :
       /\ base64.jobs[j].at \in {"queued", "reading", "read", "ended"}
       /\ base64.jobs[j].settled \in 0..1 /\ base64.jobs[j].refs \in 0..1

----------------------------------------------------------------------------
(* Encoding *)

Symbol(type, index) ==
  IF index < Radix THEN IF type \in Url /\ index >= Radix - 2 THEN UrlFrom + index ELSE index ELSE Pad

(* Up to three bytes, zeros behind them: the symbols that hold bits of     *)
(* them, and '=' for the others, which the URL alphabet leaves out.        *)
EncodeGroup(group, type) ==
  LET temp == Len(group)
      byte == [i \in 1..3 |-> IF i <= temp THEN group[i] ELSE 0]
      bitWise == (byte[1] * Base + byte[2]) * Base + byte[3]
      symbol == [i \in 1..4 |-> Symbol(type, (bitWise \div (Radix ^ (4 - i))) % Radix)]
  IN  SubSeq(symbol, 1, temp + 1) \o (IF type \in Url THEN <<>> ELSE [i \in 1..(3 - temp) |-> Symbol(type, Radix)])

Groups(s, n) ==
  [k \in 1..((Len(s) + n - 1) \div n) |-> SubSeq(s, n * (k - 1) + 1, IF n * k < Len(s) THEN n * k ELSE Len(s))]
EncodeAchieve(bytes, type) == FlattenSeq([k \in DOMAIN Groups(bytes, 3) |-> EncodeGroup(Groups(bytes, 3)[k], type)])

(* Lines of ChunkSize; a text of exactly one line is lost.                 *)
AddBreaks(text) ==
  IF Len(text) < ChunkSize THEN Throw
  ELSE IF Len(text) = ChunkSize THEN <<>>
  ELSE FlattenSeq([k \in DOMAIN Groups(text, ChunkSize) |-> Append(Groups(text, ChunkSize)[k], Break)])

EncodeToString(bytes, type) ==
  IF type \in Mime THEN AddBreaks(EncodeAchieve(bytes, type)) ELSE EncodeAchieve(bytes, type)

(* Base64Encode of the Buffer pads both alphabets and then cuts one.       *)
BufferEncode(bytes, type) ==
  LET padded == FlattenSeq([k \in DOMAIN Groups(bytes, 3) |->
                  LET g == EncodeGroup(Groups(bytes, 3)[k], type)
                  IN  g \o [i \in 1..(4 - Len(g)) |-> Pad]])
  IN  IF type \in Url THEN SelectSeq(padded, LAMBDA c : c # Pad) ELSE padded

----------------------------------------------------------------------------
(* Decoding *)

(* The index in the table, the place of '=' in the basic one; -1 if none.  *)
FindIn(char, type) ==
  LET is == {i \in 0..(IF type \in Url THEN Radix - 1 ELSE Radix) : Symbol(type, i) = char}
  IN  IF is = {} THEN -1 ELSE CHOOSE i \in is : TRUE
Finds(char, type, sync) == IF FindIn(char, type) = -1 /\ ~sync THEN 0 ELSE FindIn(char, type)

(* How many of the last two characters are '='; before a text of one       *)
(* character there is whatever memory holds.                               *)
EqualCounts(text) ==
  LET last == IF text[Len(text)] = Pad THEN 1 ELSE 0
  IN  IF Len(text) = 1 THEN {last, last + 1}
      ELSE {last + (IF text[Len(text) - 1] = Pad THEN 1 ELSE 0)}

(* decodeOutLen *)
DecodeOut(text, equals, type) ==
  (Len(text) \div 4) * 3 - equals
  + (IF type \in Url /\ Len(text) % 4 \in {2, 3} THEN (Len(text) % 4) - 1 ELSE 0)

(* bitWise << 6 | index: the index of '=' is one bit longer than a symbol. *)
DecodeGroup(group, type, sync) ==
  LET temp == Len(group)
      Or(bitWise, index) ==
        IF index = Radix /\ bitWise % 2 = 1 THEN bitWise * Radix ELSE bitWise * Radix + index
      bitWise == FoldLeft(Or, 0, [i \in 1..temp |-> Finds(group[i], type, sync)]) * (Radix ^ (4 - temp))
  IN  [i \in 1..(IF temp < 3 THEN temp ELSE 3) |-> (bitWise \div (Base ^ (3 - i))) % Base]

DecodeAchieveInner(chars, type, sync) ==
  FlattenSeq([k \in DOMAIN Groups(chars, 4) |-> DecodeGroup(Groups(chars, 4)[k], type, sync)])

(* DecodeAchieve and DecodeAchieves: as many bytes as decodeOutLen says,   *)
(* and what fails for none of them.                                        *)
DecodeAchieve(text, equals, type, sync) ==
  LET chars == SubSeq(text, 1, Len(text) - equals)
      out == DecodeOut(text, equals, type)
      bytes == DecodeAchieveInner(chars, type, sync)
  IN  IF sync /\ \E i \in DOMAIN chars : FindIn(chars[i], type) = -1 THEN Throw
      ELSE IF out <= 0 THEN Undefined
      ELSE [i \in 1..out |-> IF i <= Len(bytes) THEN bytes[i] ELSE 0]

WithoutBreaks(text) == SelectSeq(text, LAMBDA c : c # Break)
(* What decodeSync may answer, and decode.                                 *)
Decoded(text, type, sync) ==
  IF WithoutBreaks(text) = <<>> THEN {Throw}
  ELSE {DecodeAchieve(WithoutBreaks(text), equals, type, sync) : equals \in EqualCounts(WithoutBreaks(text))}

(* Base64Decode of the Buffer: up to the first character of no alphabet; a *)
(* character of the other alphabet has the index npos & 0xff.              *)
BufferDecode(text, type) ==
  LET stops == {i \in DOMAIN text : text[i] \in {Pad, Bad, Break}}
      chars == IF stops = {} THEN text ELSE SubSeq(text, 1, (CHOOSE i \in stops : \A k \in stops : i <= k) - 1)
      Index(c) == IF FindIn(c, type) = -1 THEN Base - 1 ELSE FindIn(c, type)
      Group(g) ==
        LET c == [i \in 1..4 |-> IF i <= Len(g) THEN Index(g[i]) ELSE 0]
            array3 == <<(c[1] * 2 + ((c[2] \div 4) % 2)) % Base,
                        ((c[2] % 4) * 4) + ((c[3] \div 2) % 4),
                        (((c[3] % 2) * Radix) + c[4]) % Base>>
        IN  SubSeq(array3, 1, Len(g) - 1)
  IN  FlattenSeq([k \in DOMAIN Groups(chars, 4) |-> Group(Groups(chars, 4)[k])])

(* getBase64ByteLength, which sizes the Buffer before the text is decoded. *)
Base64ByteLength(text) ==
  LET equals == Len(SelectSeq(text, LAMBDA c : c = Pad))
      bytes == IF equals < Len(text) THEN Len(text) - equals ELSE 1
  IN  (bytes * 3) \div 4

(* Hex: two digits of a byte. toHex, HexDecode, hexStrtoNumbers *)
Digit == 4
ToHex(bytes) == FlattenSeq([i \in DOMAIN bytes |-> <<bytes[i] \div Digit, bytes[i] % Digit>>])
HexPairs(text) ==
  LET IsValidHex(i) == text[2 * i - 1] \in 0..(Digit - 1) /\ text[2 * i] \in 0..(Digit - 1)
      wrong == {i \in 1..(Len(text) \div 2) : ~IsValidHex(i)}
      n == IF wrong = {} THEN Len(text) \div 2 ELSE (CHOOSE i \in wrong : \A k \in wrong : i <= k) - 1
  IN  [i \in 1..n |-> text[2 * i - 1] * Digit + text[2 * i]]
HexDecode(text) == HexPairs(text)
HexStrtoNumbers(text) == IF text # <<>> /\ HexPairs(text) = <<>> THEN Throw ELSE HexPairs(text)

----------------------------------------------------------------------------
(* The synchronous calls: a text is made of bytes, and read back. *)

Init ==
  \E phase \in {"start", "jobs"} : \E array \in IF phase = "jobs" THEN {a \in [1..2 -> Samples] : a[1] < a[2]} ELSE {<<>>} :
    base64 = [phase |-> phase, bytes |-> <<>>, text |-> <<>>, type |-> "BASIC", code |-> "helper",
              array |-> array, writes |-> 0, jobs |-> <<>>,
              reachable |-> TRUE, freed |-> FALSE, dangling |-> FALSE, answers |-> {}, late |-> {}, filled |-> <<>>]

Made(bytes, type, code, text) ==
  base64' = [base64 EXCEPT !.phase = IF text = Throw THEN "done" ELSE "text", !.bytes = bytes, !.type = type,
                           !.code = code, !.text = text]

EncodeSync ==
  /\ base64.phase = "start"
  /\ \E bytes \in Arrays(MaxBytes), type \in Types \ Mime : Made(bytes, type, "helper", EncodeAchieve(bytes, type))
EncodeToStringSync ==
  /\ base64.phase = "start"
  /\ \E bytes \in Arrays(MaxBytes), type \in Types : Made(bytes, type, "helper", EncodeToString(bytes, type))
BufferToString ==
  /\ base64.phase = "start"
  /\ \E bytes \in Arrays(MaxBytes), type \in Types \ Mime, code \in {"buffer", "hex"} :
       Made(bytes, type, code, IF code = "hex" THEN ToHex(bytes) ELSE BufferEncode(bytes, type))

GivenText ==
  /\ base64.phase = "start"
  /\ \E text \in Texts(MaxChars), type \in Types, code \in {"helper", "buffer", "hex"} :
       base64' = [base64 EXCEPT !.phase = "given", !.text = text, !.type = type, !.code = code]

(* answers: of decodeSync, or the bytes of buffer.from; late: of decode;   *)
(* filled: of the conversion for fill                                      *)
DecodeSync ==
  /\ base64.phase \in {"text", "given"} /\ base64.code = "helper"
  /\ base64' = [base64 EXCEPT !.phase = IF @ = "text" THEN "done" ELSE "given",
                              !.answers = Decoded(base64.text, base64.type, TRUE),
                              !.late = Decoded(base64.text, base64.type, FALSE)]
(* The text decoded, cut to the size or with old contents of the pool      *)
(* behind it; only hexadecimal sets the length afterwards.                 *)
BufferFrom ==
  /\ base64.phase \in {"text", "given"} /\ base64.code # "helper"
  /\ LET text == IF base64.type \in Url THEN base64.text ELSE WithoutBreaks(base64.text)
         data == BufferDecode(text, base64.type)
         size == Base64ByteLength(text)
     IN  base64' = [base64 EXCEPT
           !.phase = IF @ = "text" THEN "done" ELSE "given",
           !.answers = IF base64.code = "hex" THEN {HexDecode(base64.text)}
                       ELSE {SubSeq(data, 1, IF size < Len(data) THEN size ELSE Len(data))
                               \o [i \in 1..(size - Len(data)) |-> Bad]},
           !.filled = IF base64.code = "hex" THEN HexStrtoNumbers(base64.text) ELSE @]

----------------------------------------------------------------------------
(* The asynchronous calls: jobs that read the array on another thread. *)

Jobs == base64.phase = "jobs"

(* CreateEncodePromise, CreateEncodeToStringPromise; encode throws for     *)
(* MIME.  The job keeps a reference to the array, which the program may    *)
(* have no other of.                                                       *)
Job(kind, type) == [kind |-> kind, type |-> type, at |-> "queued", read |-> <<>>, result |-> <<>>,
                    refs |-> 1, settled |-> 0, held |-> [i \in DOMAIN base64.array |-> {base64.array[i]}]]
Queue(job) == base64' = [base64 EXCEPT !.jobs = Append(@, job)]
MayCall == Jobs /\ base64.reachable /\ Len(base64.jobs) < MaxJobs
Encode == MayCall /\ \E type \in Types \ Mime : Queue(Job("encode", type))
EncodeToStringAsync == MayCall /\ \E type \in Types : Queue(Job("toString", type))
(* Decode of an array, CreateDecodePromise; a string would be copied.      *)
DecodeArray == MayCall /\ \E type \in Types : Queue(Job("decode", type))

(* The program goes on using its array, or forgets it.                     *)
WriteArray ==
  /\ Jobs /\ base64.reachable /\ base64.jobs # <<>>
  /\ \E i \in DOMAIN base64.array, byte \in Samples :
       /\ byte # base64.array[i] /\ base64.writes < MaxWrites
       /\ base64' = [base64 EXCEPT
            !.array[i] = byte,
            !.writes = @ + 1,
            !.jobs = [j \in DOMAIN @ |-> IF @[j].at \in {"queued", "reading"} THEN [@[j] EXCEPT !.held[i] = @ \union {byte}]
                                         ELSE @[j]]]
ForgetArray == Jobs /\ base64.reachable /\ base64' = [base64 EXCEPT !.reachable = FALSE]
CollectArray ==
  /\ Jobs /\ ~base64.reachable /\ ~base64.freed
  /\ \A j \in DOMAIN base64.jobs : base64.jobs[j].refs = 0
  /\ base64' = [base64 EXCEPT !.freed = TRUE]

(* ReadStdEncode, ReadStdDecode: byte after byte, while the program runs.  *)
Result(job, read) ==
  IF job.kind = "decode" THEN DecodeAchieve(read, 0, job.type, FALSE) ELSE EncodeAchieve(read, job.type)
ReadByte(j) ==
  /\ Jobs /\ base64.jobs[j].at \in {"queued", "reading"}
  /\ LET read == Append(base64.jobs[j].read, base64.array[Len(base64.jobs[j].read) + 1])
         all == Len(read) = Len(base64.array)
     IN  base64' = [base64 EXCEPT
           !.dangling = @ \/ base64.freed,
           !.jobs[j].read = read,
           !.jobs[j].at = IF all THEN "read" ELSE "reading",
           !.jobs[j].result = IF all THEN Result(base64.jobs[j], read) ELSE @]

(* EndStdEncode, EndStdEncodeToString, EndStdDecode: the promise is        *)
(* resolved, or rejected where there is nothing to copy, and the reference *)
(* and the work deleted; the breaks are put in by the continuation.        *)
EndJob(j) ==
  /\ Jobs /\ base64.jobs[j].at = "read"
  /\ base64' = [base64 EXCEPT !.jobs[j] = [@ EXCEPT
       !.at = "ended", !.settled = @ + 1, !.refs = 0,
       !.result = IF base64.jobs[j].kind = "toString" /\ base64.jobs[j].type \in Mime THEN AddBreaks(@) ELSE @]]

Next ==
  \/ EncodeSync \/ EncodeToStringSync \/ BufferToString \/ GivenText \/ DecodeSync \/ BufferFrom
  \/ Encode \/ EncodeToStringAsync \/ DecodeArray \/ WriteArray \/ ForgetArray \/ CollectArray
  \/ \E j \in DOMAIN base64.jobs : ReadByte(j) \/ EndJob(j)

Spec == Init /\ [][Next]_base64

----------------------------------------------------------------------------
(* What was encoded is decoded to the same bytes, whichever of the         *)
(* implementations did it; but a text of exactly one MIME line is lost.    *)
RoundTrip ==
  base64.phase = "done" /\ base64.answers # {} =>
    IF base64.text = <<>> THEN base64.answers = {Throw} /\ base64.type \in Mime
    ELSE /\ base64.answers = {base64.bytes}
         /\ base64.code = "helper" => base64.late = {base64.bytes}
         /\ base64.code = "hex" => base64.filled = base64.bytes

(* Of a text from elsewhere: what decodeSync answers decode answers too,   *)
(* and buffer.from the same of groups without padding, cut by the alphabet.*)
GivenAgrees ==
  base64.phase = "given" /\ base64.answers # {} =>
    /\ base64.code = "helper" => base64.answers \ {Throw} \subseteq base64.late
    /\ /\ base64.code = "buffer"
       /\ Len(base64.text) % 4 \in {0} \union (IF base64.type \in Url THEN {2, 3} ELSE {})
       /\ \A i \in DOMAIN base64.text : FindIn(base64.text[i], base64.type) \in 0..(Radix - 1)
       => base64.answers = Decoded(base64.text, base64.type, TRUE)
    /\ base64.code = "hex" /\ base64.filled # Throw => base64.answers = {base64.filled}

(* An asynchronous answer is that of bytes that each place of the array    *)
(* has held between the call and the end of the reading, the array is not  *)
(* collected before it was read, and the promise is settled once.          *)
JobsAreSound ==
  base64.phase = "jobs" =>
    /\ ~base64.dangling
    /\ \A j \in DOMAIN base64.jobs : LET job == base64.jobs[j] IN
         /\ (job.settled = 1) = (job.at = "ended")
         /\ job.at \in {"read", "ended"} => \A i \in DOMAIN job.read : job.read[i] \in job.held[i]
         /\ job.at = "ended" /\ job.result \notin {Throw, <<>>} /\ job.kind # "decode" =>
              Decoded(job.result, job.type, TRUE) = {job.read}
=============================================================================
