----------------------------- MODULE TextCodecs ------------------------------
(***************************************************************************)
(* Text and bytes: util.TextDecoder, which is given a text in chunks cut   *)
(* anywhere (js_textdecoder.cpp over the converter of ICU), encodeInto of  *)
(* util.TextEncoder (platform/ohos/util_helper.cpp), and, of the Buffer,   *)
(* the conversion to UTF-16 and the search (buffer/converter.cpp).         *)
(***************************************************************************)
EXTENDS Integers, Sequences, SequencesExt

CONSTANTS
  MaxText,     \* bound: characters of a text
  MaxRoom,     \* bound: bytes of the array that is encoded into
  MaxSource, MaxTarget, \* bounds: lengths for the search
  CodePoints   \* bound: those that are converted to UTF-16

VARIABLE text

(* Characters, by what their encoding in UTF-8 looks like; Malformed is a  *)
(* byte that begins none, Replacement what the converter puts in its place.*)
Ascii == 1
Nul == 2
Two == 3
Bom == 4
Malformed == 5
Replacement == 6
SpaceChar == 7
High == 8       \* halves of a pair, which has four bytes
Low == 9
Width == <<1, 1, 2, 3, 1, 3, 1>>
Bytes(c) == [i \in 1..Width[c] |-> <<c, i>>]
Encoded(chars) == FlattenSeq([i \in DOMAIN chars |-> Bytes(chars[i])])
Minimum(S) == CHOOSE m \in S : \A n \in S : m <= n
Maximum(S) == CHOOSE m \in S : \A n \in S : m >= n

(* kind: what is used; fatal, ignoreBOM: flags of the decoder              *)
(* chars: the text; fed: its bytes handed over; pend: of the converter     *)
(* out: what the calls returned; done: the last call has flushed           *)
(* failed: a call has thrown; written: the caller's array was changed      *)
(* answer: of the other kinds                                              *)
TypeOK ==
  /\ text.kind \in {"decodeToString", "decode", "encodeInto", "convert", "search"}
  /\ text.fed \in 0..Len(Encoded(text.chars)) /\ text.done \in BOOLEAN /\ text.failed \in BOOLEAN
  /\ text.fatal \in BOOLEAN /\ text.ignoreBOM \in BOOLEAN

----------------------------------------------------------------------------
(* ucnv_toUnicode: whole characters; what is malformed is replaced, or an  *)
(* error for a fatal decoder.  What is incomplete is kept until the flush. *)
RECURSIVE Convert(_, _)
Convert(pend, bytes) ==
  LET complete == pend # <<>> /\ Len(pend) = Width[Last(pend)[1]]
      continued == pend # <<>> /\ bytes # <<>> /\ Head(bytes) = <<Last(pend)[1], Last(pend)[2] + 1>>
      starts == bytes # <<>> /\ Head(bytes)[2] = 1 /\ Head(bytes)[1] # Malformed
      With(c, r) == [r EXCEPT !.units = <<c>> \o @]
  IN  IF complete THEN With(Last(pend)[1], Convert(<<>>, bytes))
      ELSE IF bytes = <<>> THEN [units |-> <<>>, pend |-> pend]
      ELSE IF continued THEN Convert(Append(pend, Head(bytes)), Tail(bytes))
      ELSE IF pend # <<>> THEN With(Replacement, Convert(<<>>, bytes))
      ELSE IF starts THEN Convert(<<Head(bytes)>>, Tail(bytes))
      ELSE With(Replacement, Convert(<<>>, Tail(bytes)))
Flushed(r) == IF r.pend = <<>> THEN r ELSE [units |-> Append(r.units, Replacement), pend |-> <<>>]
ToUnicode(pend, bytes, flush) == IF flush THEN Flushed(Convert(pend, bytes)) ELSE Convert(pend, bytes)
Illegal(units) == \E i \in DOMAIN units : units[i] = Replacement

Chunk(n) == SubSeq(Encoded(text.chars), text.fed + 1, text.fed + n)
Returned(units, r, n, flush) ==
  text' = [text EXCEPT !.out = @ \o units, !.pend = r.pend, !.fed = @ + n, !.done = flush]
Failed(n) == text' = [text EXCEPT !.failed = TRUE, !.fed = @ + n]

(* SetIgnoreBOM: with ignoreBOM a byte order mark at the beginning of what *)
(* a call has decoded is left out, of every call.                          *)
OmitBom(units) == IF text.ignoreBOM /\ units # <<>> /\ Head(units) = Bom THEN Tail(units) ELSE units

(* decodeToString: an empty array is answered without the decoder, so that *)
(* it does not flush either.                                               *)
DecodeToString(n, flush) ==
  LET r == ToUnicode(text.pend, Chunk(n), flush) IN
  /\ text.kind = "decodeToString"
  /\ IF n = 0 THEN UNCHANGED text
     ELSE IF text.fatal /\ Illegal(r.units) THEN Failed(n)
     ELSE Returned(OmitBom(r.units), r, n, flush)

(* decode, decodeWithStream: zeros of UTF-8 become spaces, for decode in   *)
(* the array of the caller; no byte order mark is left out, since the flag *)
(* that the encoding is Unicode is set by decodeToString only.             *)
ReplaceNull(bytes) == [i \in DOMAIN bytes |-> IF bytes[i] = <<Nul, 1>> THEN <<SpaceChar, 1>> ELSE bytes[i]]
Decode(n, flush) ==
  LET r == ToUnicode(text.pend, ReplaceNull(Chunk(n)), flush) IN
  /\ text.kind = "decode"
  /\ IF n = 0 THEN UNCHANGED text
     ELSE IF text.fatal /\ Illegal(r.units) THEN Failed(n)
     ELSE Returned(r.units, r, n, flush)

(* The program hands over some more bytes, the last ones with a flush.     *)
Feed ==
  /\ text.kind \in {"decodeToString", "decode"} /\ ~text.done /\ ~text.failed
  /\ \E n \in 0..(Len(Encoded(text.chars)) - text.fed) :
       LET flush == text.fed + n = Len(Encoded(text.chars)) IN DecodeToString(n, flush) \/ Decode(n, flush)

----------------------------------------------------------------------------
(* OtherEncodeUtf8: character after character while there is room.  A zero *)
(* ends the string it is converted as and leaves no byte, half a pair      *)
(* becomes a replacement.                                                  *)
UnitBytes(unit) ==
  IF unit = Nul THEN <<>> ELSE IF unit \in {High, Low} THEN Bytes(Replacement) ELSE Bytes(unit)
PairBytes == [i \in 1..4 |-> <<High, i>>]
RECURSIVE OtherEncodeUtf8(_, _, _)
OtherEncodeUtf8(units, i, room) ==
  LET pair == i < Len(units) /\ units[i] = High /\ units[i + 1] = Low
      bytes == IF pair THEN PairBytes ELSE UnitBytes(units[i])
      n == IF pair THEN 2 ELSE 1
      rest == OtherEncodeUtf8(units, i + n, room - Len(bytes))
  IN  IF i > Len(units) THEN [read |-> 0, bytes |-> <<>>]
      ELSE IF Len(bytes) > room THEN [read |-> 0, bytes |-> <<>>]
      ELSE [read |-> n + rest.read, bytes |-> bytes \o rest.bytes]
EncodeInto ==
  /\ text.kind = "encodeInto" /\ text.answer = <<>>
  /\ \E n \in 1..MaxText : \E units \in [1..n -> {Ascii, Nul, Two, Bom, High, Low}], room \in 0..MaxRoom :
       text' = [text EXCEPT !.answer = <<units, room, OtherEncodeUtf8(units, 1, room)>>]

----------------------------------------------------------------------------
(* Utf8ToUtf16BE: bytes with their values *)

Utf8(cp) ==
  IF cp < 128 THEN <<cp>>
  ELSE IF cp < 2048 THEN <<192 + (cp \div 64), 128 + (cp % 64)>>
  ELSE IF cp < 65536 THEN <<224 + (cp \div 4096), 128 + ((cp \div 64) % 64), 128 + (cp % 64)>>
  ELSE <<240 + (cp \div 262144), 128 + ((cp \div 4096) % 64), 128 + ((cp \div 64) % 64), 128 + (cp % 64)>>
(* Four bytes: a pair from 0x10000 on; the shift of its upper half         *)
Utf16Special == 65536
\* Mutant: the pair is made of the code point, not of what is above 0x10000.
UnshiftedToData(c) ==
  LET cp == ((c[1] % 8) * 262144) + ((c[2] % 64) * 4096) + ((c[3] % 64) * 64) + (c[4] % 64)
  IN  <<55296 + ((cp \div 1024) % 1024), 56320 + (cp % 1024)>>
Utf8ToUtf16BEToData(c) ==
  LET cp == ((c[1] % 8) * 262144) + ((c[2] % 64) * 4096) + ((c[3] % 64) * 64) + (c[4] % 64)
      above == cp - Utf16Special
  IN  IF cp >= Utf16Special THEN <<55296 + (above \div 1024), 56320 + (above % 1024)>> ELSE <<cp>>
RECURSIVE Utf8ToUtf16BE(_)
Utf8ToUtf16BE(data) ==
  LET c1 == Head(data)
      style == c1 \div 16
      n == IF c1 < 128 THEN 1 ELSE IF style = 15 THEN 4 ELSE IF style = 14 THEN 3 ELSE IF style \in {12, 13} THEN 2 ELSE 1
      units == IF c1 < 128 THEN <<c1>>
               ELSE IF n = 4 THEN Utf8ToUtf16BEToData(SubSeq(data, 1, 4))
               ELSE IF n = 3 THEN <<((c1 % 16) * 4096) + ((data[2] % 64) * 64) + (data[3] % 64)>>
               ELSE IF n = 2 THEN <<((c1 % 32) * 64) + (data[2] % 64)>> ELSE <<>>
  IN  IF data = <<>> THEN <<>> ELSE units \o Utf8ToUtf16BE(SubSeq(data, n + 1, Len(data)))
Utf16BEToLE(units) == [i \in DOMAIN units |-> ((units[i] % 256) * 256) + (units[i] \div 256)]
Utf16BEToANSI(units) == [i \in DOMAIN units |-> units[i] % 256]
ConvertUtf ==
  /\ text.kind = "convert" /\ text.answer = <<>>
  /\ \E a, b \in CodePoints :
       LET units == Utf8ToUtf16BE(Utf8(a) \o Utf8(b))
       IN  text' = [text EXCEPT !.answer = <<<<a, b>>, units, Utf16BEToLE(units), Utf16BEToANSI(units)>>]

----------------------------------------------------------------------------
(* FindIndex and FindLastIndex: the target compared from one of its ends,  *)
(* and shifted by the larger of two distances; places count from zero.     *)

At(s, i) == s[i + 1]
(* GetBadCharLengthInReverseOrder, GetGoodSuffixLengthByLastChar           *)
BadReverse(pat, char, j) == j - Maximum({-1} \union {i \in 0..(j - 1) : At(pat, i) = char})
GoodLast(pat, j, n) == (n - 1) - Maximum({-1} \union {i \in 0..j : At(pat, i) = At(pat, n - 1)})
(* GetBadCharLengthInSequence, GetGoodSuffixLengthByFirstChar              *)
BadSequence(pat, char, j, n) == Minimum({n} \union {i \in j..(n - 1) : At(pat, i) = char})
GoodFirst(pat, j, n) == Minimum({n} \union {i \in j..(n - 1) : At(pat, i) = At(pat, 0)})
Larger(x, y) == IF x > y THEN x ELSE y

RECURSIVE FindFrom(_, _, _, _)
FindFrom(source, target, i, j) ==
  LET n == Len(target)
      bad == BadReverse(target, At(source, i), j)
  IN  IF i >= Len(source) THEN -1
      ELSE IF At(source, i) = At(target, j) THEN IF j = 0 THEN i ELSE FindFrom(source, target, i - 1, j - 1)
      ELSE IF j = n - 1 THEN FindFrom(source, target, i + bad, j)
      ELSE FindFrom(source, target, i + n - 1 - j + Larger(bad, GoodLast(target, j, n)), n - 1)
FindIndex(source, target) ==
  IF Len(source) < Len(target) \/ target = <<>> THEN -1 ELSE FindFrom(source, target, Len(target) - 1, Len(target) - 1)
RECURSIVE FindLastFrom(_, _, _, _)
FindLastFrom(source, target, i, j) ==
  LET n == Len(target)
      bad == BadSequence(target, At(source, i), j, n)
  IN  IF i < 0 THEN -1
      ELSE IF At(source, i) = At(target, j) THEN IF j = n - 1 THEN i - (n - 1) ELSE FindLastFrom(source, target, i + 1, j + 1)
      ELSE FindLastFrom(source, target, i - (IF j = 0 THEN bad ELSE Larger(bad, GoodFirst(target, j, n))), 0)
FindLastIndex(source, target) ==
  IF Len(source) < Len(target) \/ target = <<>> THEN -1 ELSE FindLastFrom(source, target, Len(source) - Len(target), 0)

Search ==
  /\ text.kind = "search" /\ text.answer = <<>>
  /\ \E n \in 0..MaxSource, m \in 0..MaxTarget : \E source \in [1..n -> 0..2], target \in [1..m -> 0..2] :
       text' = [text EXCEPT !.answer = <<source, target, FindIndex(source, target), FindLastIndex(source, target)>>]

Blank == [kind |-> "search", fatal |-> FALSE, ignoreBOM |-> FALSE, chars |-> <<>>, fed |-> 0, pend |-> <<>>, out |-> <<>>,
          done |-> FALSE, failed |-> FALSE, answer |-> <<>>]
Init ==
  \/ \E kind \in {"decodeToString", "decode"}, fatal \in BOOLEAN, ignoreBOM \in BOOLEAN, n \in 1..MaxText :
       \E chars \in [1..n -> {Ascii, Nul, Two, Bom, Malformed}] :
         text = [Blank EXCEPT !.kind = kind, !.fatal = fatal, !.ignoreBOM = ignoreBOM, !.chars = chars]
  \/ \E kind \in {"encodeInto", "convert", "search"} : text = [Blank EXCEPT !.kind = kind]
Next == Feed \/ EncodeInto \/ ConvertUtf \/ Search
Spec == Init /\ [][Next]_text

----------------------------------------------------------------------------
(* However a text is cut, the results of the calls join to the text, with  *)
(* the marks that ignoreBOM leaves out, which may be others than the first;*)
(* a fatal decoder has failed if and only if something is malformed.       *)
Character(c) == IF c = Malformed THEN Replacement ELSE IF c = Nul /\ text.kind = "decode" THEN SpaceChar ELSE c
ChunksJoin ==
  text.kind \in {"decodeToString", "decode"} =>
    LET whole == [i \in DOMAIN text.chars |-> Character(text.chars[i])]
        bad == \E i \in DOMAIN text.chars : text.chars[i] = Malformed
        later == \E i \in DOMAIN text.chars : i > 1 /\ text.chars[i] = Bom
    IN  /\ text.failed => text.fatal /\ bad
        /\ text.done => ~(text.fatal /\ bad)
        /\ text.done /\ ~(text.kind = "decodeToString" /\ text.ignoreBOM /\ later) =>
             text.out = IF text.kind = "decodeToString" THEN OmitBom(whole) ELSE whole

(* encodeInto writes whole characters, as many as there is room for, and   *)
(* tells how many: they are the beginning of the text.                     *)
EncodedIsWhole ==
  text.kind = "encodeInto" /\ text.answer # <<>> =>
    LET units == text.answer[1]
        room == text.answer[2]
        r == text.answer[3]
        all == OtherEncodeUtf8(units, 1, 4 * Len(units))
    IN  /\ Len(r.bytes) <= room /\ r.read <= Len(units)
        /\ r.bytes = SubSeq(all.bytes, 1, Len(r.bytes))
        /\ r.bytes = OtherEncodeUtf8(SubSeq(units, 1, r.read), 1, 4 * Len(units)).bytes
        /\ r.read < Len(units) => room < Len(r.bytes) + 4
        /\ r.read \in 1..(Len(units) - 1) => ~(units[r.read] = High /\ units[r.read + 1] = Low)

(* Every code point becomes the units that stand for it.                   *)
PointOf(units) == IF Len(units) = 2 THEN 65536 + ((units[1] - 55296) * 1024) + (units[2] - 56320) ELSE units[1]
UnitsOf(cp) == IF cp >= 65536 THEN 2 ELSE 1
UnitsAreRight ==
  text.kind = "convert" /\ text.answer # <<>> =>
    LET a == text.answer[1][1]
        b == text.answer[1][2]
        units == text.answer[2]
    IN  /\ Len(units) = UnitsOf(a) + UnitsOf(b)
        /\ PointOf(SubSeq(units, 1, UnitsOf(a))) = a /\ PointOf(SubSeq(units, UnitsOf(a) + 1, Len(units))) = b
        /\ \A i \in DOMAIN units : Utf16BEToLE(text.answer[3])[i] = units[i]

(* What is found is there, and FindLastIndex finds the last.  FindIndex    *)
(* finds the first if the last character of the target is no other one of  *)
(* it, or the target is short; otherwise the larger of its two distances   *)
(* may take it too far: 0 0 0 is not found in 1 0 0 0, though indexOf is   *)
(* the first place and -1 only if there is none (src/README.md:249).       *)
Occurs(s, t, i) == i + Len(t) <= Len(s) /\ \A k \in 1..Len(t) : s[i + k] = t[k]
Places == {i \in 0..Len(text.answer[1]) : Occurs(text.answer[1], text.answer[2], i)}
First(places) == IF places = {} THEN -1 ELSE Minimum(places)
EndsUnlike(t) == \A k \in 1..(Len(t) - 1) : t[k] # Last(t)
FoundIsThere ==
  text.kind = "search" /\ text.answer # <<>> /\ text.answer[2] # <<>> =>
    /\ text.answer[3] \in Places \union {-1}
    /\ Len(text.answer[2]) <= 2 \/ EndsUnlike(text.answer[2]) => text.answer[3] = First(Places)
    /\ text.answer[4] = Maximum(Places \union {-1})
=============================================================================
