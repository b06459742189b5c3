------------------------------ MODULE UrlText -------------------------------
(***************************************************************************)
(* The texts of js_api_module/url and js_api_module/uri: sequences of      *)
(* tokens, of which each is a delimiter, an escaped one, or a word that    *)
(* the code does not look into.                                            *)
(***************************************************************************)
EXTENDS Integers, Sequences, SequencesExt, TLC

CONSTANTS
  Literals,    \* the number that sscanf or stoi reads (an int) in a word that is one,
               \* with the words that write these numbers, and their bytes, in decimal
  Groups,      \* the number in a word that is a group of an IPv6 address
  Lower,       \* the lower case of a word that has another
  Letters      \* the words of one letter

Delimiters == {":", "/", "\\", "@", "?", "#", "[", "]", ".", " ", "%", "&", "=", "+", "^", "|", ";"}
(* What is escaped, and how.                                               *)
Plain == <<" ", "#", "%", "&", "+", "/", ".", ":", ";", "=", "?", "@", "[", "\\", "]", "^", "|">>
Escaped == <<"%20", "%23", "%25", "%26", "%2B", "%2F", "%2e", "%3A", "%3B", "%3D", "%3F", "%40", "%5B", "%5C", "%5D", "%5E", "%7C">>
Escapes == ToSet(Escaped)
Escape(t) == Escaped[CHOOSE i \in DOMAIN Plain : Plain[i] = t]
Unescape(e) == Plain[CHOOSE i \in DOMAIN Escaped : Escaped[i] = e]
IsWord(t) == t \notin Delimiters \union Escapes \union {""}
Byte == 0..255
IsNumeral(t) == t \in DOMAIN Literals
IsDecimal(t) == IsNumeral(t) /\ ToString(Literals[t]) = t
IsAlpha(t) == IsWord(t) /\ ~IsNumeral(t)

(* std::string: what a position holds (nothing, past the end), the first   *)
(* of some characters, and what is before and after a position.            *)
At(s, i) == IF i \in DOMAIN s THEN s[i] ELSE ""
Find(s, T) == SelectInSeq(s, LAMBDA t : t \in T)
FindLast(s, t) == SelectLastInSeq(s, LAMBDA x : x = t)
Has(s, t) == t \in ToSet(s)
Before(s, i) == SubSeq(s, 1, i - 1)
After(s, i) == SubSeq(s, i + 1, Len(s))
Cut(s, i) == IF i = 0 THEN s ELSE Before(s, i)
UpTo(s, T) == Cut(s, Find(s, T))
LowerCase(s) == [i \in DOMAIN s |-> IF s[i] \in DOMAIN Lower THEN Lower[s[i]] ELSE s[i]]
Split(s, t) ==
  FoldLeft(LAMBDA parts, x : IF x = t THEN Append(parts, <<>>) ELSE [parts EXCEPT ![Len(parts)] = Append(@, x)], <<<<>>>>, s)
Join(parts, t) ==
  IF parts = <<>> THEN <<>> ELSE FoldLeft(LAMBDA r, part : r \o <<t>> \o part, parts[1], Tail(parts))

EncodePercentEncoding(s, chars) == [i \in DOMAIN s |-> IF s[i] \in chars THEN Escape(s[i]) ELSE s[i]]
DecodePercentEncoding(s) == [i \in DOMAIN s |-> IF s[i] \in Escapes THEN Unescape(s[i]) ELSE s[i]]
ReplaceSpecialSymbols(s, symbols) == [i \in DOMAIN s |-> IF s[i] \in symbols THEN Escape(s[i]) ELSE s[i]]

(* The regular expression of IPv6Host: groups and at most one ::, which    *)
(* stands for at least one; a dotted address may be the last two.  (A zone *)
(* after a % is not modelled.)                                             *)
DoubleColons(s) == {i \in 1..(Len(s) - 1) : s[i] = ":" /\ s[i + 1] = ":"}
GroupList(s) == IF s = <<>> THEN <<>> ELSE Split(s, ":")
AreGroups(list, sizes) == Len(list) \in sizes /\ \A g \in ToSet(list) : Len(g) = 1 /\ g[1] \in DOMAIN Groups
HasGroups(s, size) ==
  \/ AreGroups(GroupList(s), {size})
  \/ \E i \in DoubleColons(s) : AreGroups(GroupList(Before(s, i)) \o GroupList(After(s, i + 1)), 0..(size - 1))
IsDotted(parts) == Len(parts) = 4 /\ \A i \in 1..4 : Len(parts[i]) = 1 /\ IsDecimal(parts[i][1]) /\ Literals[parts[i][1]] \in Byte
MatchesIPv6(s) ==
  IF ~Has(s, ".") THEN HasGroups(s, 8)
  ELSE LET pos == FindLast(s, ":")
           ends == At(s, pos - 1) = ":"
       IN  IsDotted(Split(After(s, pos), ".")) /\ HasGroups(SubSeq(s, 1, IF ends THEN pos ELSE pos - 1), 6)
=============================================================================
