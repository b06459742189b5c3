----------------------------- MODULE UrlParser ------------------------------
(***************************************************************************)
(* How a URL is taken apart and what its parts are when they are read      *)
(* (js_api_module/url/js_url.cpp, url_helper.cpp).  A URL is the record of *)
(* UrlData and the names of its flags (BitsetStatusFlag); the functions    *)
(* give the record they leave.                                             *)
(***************************************************************************)
EXTENDS UrlText

(* EncodePercentEncoding with the tables of the parts.                     *)
HostChars == {" ", "%", "[", "\\", "]", "^", "|"}
UserinfoChars == {" ", "[", "\\", "]", "^", "|"}
PathChars == {" ", "\\", "^"}
FragmentChars == {" ", "\\", "^"}
QueryChars == {" ", "\\"}
SpecialSymbols == {"@", "#", "=", ":", "/", ";", "?"}

(* DeleteC0OrSpace: the spaces around a text, except that a text of one    *)
(* character is kept from its end.                                         *)
RECURSIVE DeleteSpace(_)
DeleteSpace(s) ==
  IF s # <<>> /\ Head(s) = " " THEN DeleteSpace(Tail(s))
  ELSE IF Len(s) > 1 /\ Last(s) = " " THEN DeleteSpace(Front(s)) ELSE s

----------------------------------------------------------------------------
Blank == [scheme |-> <<>>, username |-> <<>>, password |-> <<>>, host |-> <<>>, port |-> -1, path |-> <<>>,
          query |-> <<>>, fragment |-> <<>>, isSpecialPath |-> FALSE, flags |-> {}]
With(u, flag) == [u EXCEPT !.flags = @ \union {flag}]
Without(u, flag) == [u EXCEPT !.flags = @ \ {flag}]
Is(u, flag) == flag \in u.flags
Fail(u) == With(u, "failed")

DefaultPorts == <<"ftp", ":">> :> 21 @@ <<"file", ":">> :> -1 @@ <<"gopher", ":">> :> 70 @@ <<"http", ":">> :> 80
  @@ <<"https", ":">> :> 443 @@ <<"ws", ":">> :> 80 @@ <<"wss", ":">> :> 443
IsSpecial(scheme) == scheme \in DOMAIN DefaultPorts
File == <<"file", ":">>

AnalysisScheme(u, s) ==
  IF ~IsAlpha(At(s, 1)) \/ \E i \in 1..(Len(s) - 1) : ~(IsWord(s[i]) \/ s[i] \in {".", "+"}) THEN Fail(u)
  ELSE LET scheme == LowerCase(s) IN
       IF IsSpecial(scheme) THEN With([u EXCEPT !.scheme = scheme], "special") ELSE [u EXCEPT !.scheme = scheme]

AnalysisFragment(u, s) == With([u EXCEPT !.fragment = s], "fragment")
AnalysisQuery(u, s) == With([u EXCEPT !.query = s], "query")
(* What each parse does first: fragment and query are cut off.             *)
CutFragment(u, s) == IF Has(s, "#") THEN AnalysisFragment(u, SubSeq(s, Find(s, {"#"}), Len(s))) ELSE u
CutQuery(u, s) == LET t == UpTo(s, {"#"}) IN
  IF Has(t, "?") THEN AnalysisQuery(u, SubSeq(t, Find(t, {"?"}), Len(t))) ELSE u
Hierarchy(s) == UpTo(UpTo(s, {"#"}), {"?"})

(* AnalysisUsernameAndPasswd: up to the last @; the host is what follows.  *)
HostOf(s) == After(s, FindLast(s, "@"))
WithUser(u, user) == IF user = <<>> THEN u ELSE With([u EXCEPT !.username = user], "username")
WithPassword(u, keyWord) == IF keyWord = <<>> THEN u ELSE With([u EXCEPT !.password = keyWord], "password")
TakeUserinfo(u, both) ==
  IF Has(both, ":") THEN WithPassword(WithUser(u, UpTo(both, {":"})), After(both, Find(both, {":"}))) ELSE WithUser(u, both)
AnalysisUsernameAndPasswd(u, s) ==
  IF Has(s, "@") THEN TakeUserinfo(u, ReplaceSpecialSymbols(Before(s, FindLast(s, "@")), {"@"})) ELSE u

DoubleSegment == {<<a, b>> : a, b \in {".", "%2e"}}
SingleSegment == {<<a>> : a \in {".", "%2e"}}
(* Splitting at / goes first, so that a \ counts after the last / only.    *)
SplitLast(parts) == Front(parts) \o Split(Last(parts), "\\")
Segments(s, special) == IF special THEN SplitLast(Split(s, "/")) ELSE Split(s, "/")

(* One segment after the other: Up is what .. does, Push adds one, and an  *)
(* empty one (Ended) stands for . or .. at the end.                        *)
Push(u, segment) == [u EXCEPT !.path = Append(@, segment)]
Up(u) == [u EXCEPT !.path = IF @ = <<>> THEN @ ELSE Front(@)]
PathStep(u, segment, last) ==
  LET v == IF segment \in DoubleSegment THEN Up(u) ELSE u IN
  IF segment \notin DoubleSegment \union SingleSegment THEN With(Push(u, segment), "path")
  ELSE IF last THEN With(Push(v, <<>>), "path") ELSE v
PathOf(u, temp) == FoldLeftDomain(LAMBDA v, i : PathStep(v, temp[i], i = Len(temp)), u, temp)
AnalysisPath(u, s, special) == PathOf(u, Segments(s, special))

(* The port, a number in decimal, unless it is that of the scheme.         *)
MaxPort == 65535
AnalysisPort(u, s) ==
  LET it == Literals[s[1]] IN
  IF s = <<>> THEN u
  ELSE IF Len(s) # 1 \/ ~IsDecimal(s[1]) \/ it \notin 0..MaxPort THEN Fail(u)
  ELSE IF u.scheme \in DOMAIN DefaultPorts /\ DefaultPorts[u.scheme] = it
       THEN Without([u EXCEPT !.port = -1], "port") ELSE With([u EXCEPT !.port = it], "port")

----------------------------------------------------------------------------
WithHost(u, host) == With([u EXCEPT !.host = host], "host")
SpecialCharacters == {" ", "#", "/", ":", "?", "@", "[", "\\", "]"}
AnalysisOpaqueHost(u, s) == IF ToSet(s) \intersect SpecialCharacters # {} THEN Fail(u) ELSE WithHost(u, s)

HexDigits == <<"0", "1", "2", "3", "4", "5", "6", "7", "8", "9", "a", "b", "c", "d", "e", "f">>
RECURSIVE Hex(_)
Hex(n) == IF n < 16 THEN HexDigits[n + 1] ELSE Hex(n \div 16) \o HexDigits[(n % 16) + 1]

(* The numbers after the last : become two groups (their leading zeros are *)
(* left out here, for Compress removes them).                              *)
DealIpv4(s) ==
  LET pos == FindLast(s, ":")
      n == [i \in 1..4 |-> Literals[Split(After(s, pos), ".")[i][1]]]
  IN  Before(s, pos) \o <<":", Hex(n[1] * 256 + n[2]), ":", Hex(n[3] * 256 + n[4])>>

(* The zeros for :: are written out, as many as colons are missing.        *)
FormatIpv6(s) ==
  LET index == CHOOSE i \in DoubleColons(s) : \A j \in DoubleColons(s) : i <= j
      size == 7 - (Len(SelectSeq(s, LAMBDA t : t = ":")) - 2)
      zeros == [i \in 1..(2 * size - 1) |-> IF i % 2 = 1 THEN ":" ELSE "0"]
  IN  IF DoubleColons(s) = {} THEN s
      ELSE (IF index = 1 THEN <<"0">> ELSE <<>>) \o Before(s, index) \o zeros \o After(s, index + 1)

(* RemoveLeadingZeros and ToLower: of each group its shortest writing; the *)
(* group that was left out before or after a :: is 0.                      *)
RemoveLeadingZeros(ipv6) == [i \in DOMAIN ipv6 |-> IF ipv6[i] = <<>> THEN <<"0">> ELSE <<Hex(Groups[ipv6[i][1]])>>]

(* ZeroCompression: the first of the longest runs of zeros becomes ::.     *)
ZeroRun(ipv6, i) == LET ends == {j \in i..Len(ipv6) : ipv6[j] # <<"0">>} IN
  IF ends = {} THEN Len(ipv6) + 1 - i ELSE (CHOOSE j \in ends : \A k \in ends : j <= k) - i
CompressAt(ipv6, i, size) ==
  LET before == SubSeq(ipv6, 1, i - 1)
      after == SubSeq(ipv6, i + size, Len(ipv6))
  IN  IF size = 0 THEN Join(ipv6, ":")
      ELSE FlattenSeq([k \in DOMAIN before |-> Append(before[k], ":")]) \o (IF i = 1 THEN <<":", ":">> ELSE <<":">>) \o Join(after, ":")
ZeroCompression(ipv6) ==
  LET maxIndex == CHOOSE i \in DOMAIN ipv6 : \A j \in DOMAIN ipv6 :
                    ZeroRun(ipv6, i) >= ZeroRun(ipv6, j) + (IF j < i THEN 1 ELSE 0)
  IN  CompressAt(ipv6, maxIndex, ZeroRun(ipv6, maxIndex))
Compress(s) == ZeroCompression(RemoveLeadingZeros(Split(s, ":")))

IPv6Host(u, s) ==
  IF ~MatchesIPv6(s) THEN Fail(u)
  ELSE With(WithHost(u, <<"[">> \o Compress(FormatIpv6(IF Has(s, ".") THEN DealIpv4(s) ELSE s)) \o <<"]">>), "ipv6")

----------------------------------------------------------------------------
(* RemovalIpv4: the labels between the dots, of which one . at the end is  *)
(* forgotten; numbers are read with their radix (IsNumber,                 *)
(* BinaryConversion).  An empty label among numbers is an error, unless it *)
(* is the last, which is written once more and takes back an earlier error.*)
IsNumber(label) == label = <<>> \/ (Len(label) = 1 /\ IsNumeral(label[1]))
LabelsOf(cut) == IF Last(cut) = <<>> THEN Front(cut) ELSE cut
RemovalIpv4(u, temp) ==
  LET read == [i \in DOMAIN temp |-> IF temp[i] = <<>> THEN <<>> ELSE <<ToString(Literals[temp[i][1]])>>]
  IN  IF \E i \in DOMAIN temp : ~IsNumber(temp[i]) THEN [temp |-> temp, isIpv4 |-> FALSE, url |-> u]
      ELSE IF \A i \in DOMAIN temp : temp[i] # <<>> THEN [temp |-> read, isIpv4 |-> TRUE, url |-> u]
      ELSE IF Last(temp) = <<>> THEN [temp |-> Append(read, <<>>), isIpv4 |-> FALSE, url |-> Without(u, "failed")]
      ELSE [temp |-> read, isIpv4 |-> FALSE, url |-> Fail(u)]

Value(label) == Literals[label[1]]
Digits(label) == Len(label[1])
MaxDigits == 8
(* The first number that is no byte, or 0.                                 *)
IsFormatIpv4(nums) == SelectInSeq(nums, LAMBDA n : Digits(n) > MaxDigits \/ Value(n) > 255)

(* SplitNum: a number in base 256.                                         *)
RECURSIVE SplitNum(_)
SplitNum(val) == IF val = 0 THEN <<>> ELSE Append(SplitNum(val \div 256), <<ToString(val % 256)>>)

(* FormatIpv4: fewer than four numbers; the last one fills the rest.       *)
FormatIpv4(u, nums) ==
  LET len == Len(nums)
      bytes == IF IsFormatIpv4(nums) = 0 THEN <<Last(nums)>> ELSE SplitNum(Value(Last(nums)))
      zeros == [i \in 1..(4 - (len - 1 + Len(bytes))) |-> <<"0">>]
  IN  IF IsFormatIpv4(nums) \in 1..(len - 1) \/ Len(bytes) + (len - 1) > 4 THEN Fail(u)
      ELSE WithHost(u, Join(Front(nums) \o zeros \o bytes, "."))

IPv4Host(u, r, res) ==
  IF ~r.isIpv4 THEN WithHost(r.url, res)
  ELSE IF Digits(Last(r.temp)) > MaxDigits THEN Fail(u)
  ELSE IF Len(r.temp) > 4 THEN WithHost(u, res)
  ELSE IF Len(r.temp) = 4 THEN IF IsFormatIpv4(r.temp) = 0 THEN WithHost(u, res) ELSE Fail(u)
  ELSE FormatIpv4(u, r.temp)
AnalyseLabels(u, r) == IPv4Host(u, r, LowerCase(Join(r.temp, ".")))
AnalyseIPv4(u, s) == AnalyseLabels(u, RemovalIpv4(u, LabelsOf(Split(s, "."))))

(* What a host that is a name may not have (g_specialCharForBit).          *)
InvalidChars == {" ", "#", "%", "/", ":", "?", "@", "[", "\\", "]", "^", "|"}
AnalysisHost(u, s, special) ==
  LET decodeInput == DecodePercentEncoding(s) IN
  IF s = <<>> THEN Fail(u)
  ELSE IF s[1] = "[" THEN IF Last(s) = "]" THEN IPv6Host(u, SubSeq(s, 2, Len(s) - 1)) ELSE Fail(u)
  ELSE IF ~special THEN AnalysisOpaqueHost(u, s)
  ELSE IF ToSet(decodeInput) \intersect InvalidChars # {} THEN Fail(u)
  ELSE AnalyseIPv4(u, decodeInput)


----------------------------------------------------------------------------
(* A drive: a letter and a colon (or |).                                   *)
ISFileNohost(s) == At(s, 1) \in Letters /\ At(s, 2) \in {":", "|"}
IsDrive(s) == ISFileNohost(s) /\ Len(s) = 2

(* AnalysisFilePath: both kinds of slashes, .. does not leave a drive, and *)
(* what . and .. leave at the end does not set the flag of the path.       *)
FileUp(u) == IF Len(u.path) = 1 /\ IsDrive(u.path[1]) THEN [u EXCEPT !.path[1][2] = ":"] ELSE Up(u)
FileStep(u, segment, last) ==
  LET v == IF segment \in DoubleSegment THEN FileUp(u) ELSE u IN
  IF segment \notin DoubleSegment \union SingleSegment THEN With(Push(u, segment), "path")
  ELSE IF last THEN Push(v, <<>>) ELSE v
FilePathOf(u, temp) == FoldLeftDomain(LAMBDA v, i : FileStep(v, temp[i], i = Len(temp)), u, temp)
DropHost(u) == IF IsDrive(u.path[1]) THEN Without([u EXCEPT !.host = <<>>], "host") ELSE u
AnalysisFilePath(u, s) == DropHost(FilePathOf(u, Segments(s, TRUE)))

(* AnalysisFile (with AnalysisSpecialFile): what follows file: has a host  *)
(* between two slashes and the next, unless a drive stands there.          *)
Slashes == {"/", "\\"}
FirstSlash(s) == IF Has(s, "/") THEN Find(s, {"/"}) ELSE Find(s, {"\\"})
FilePathAfter(u, temp, pos) == IF pos = 0 THEN u ELSE AnalysisFilePath(u, After(temp, pos))
FileHost(u, temp, pos) ==
  IF temp = <<>> THEN u
  ELSE IF pos > 1 /\ ISFileNohost(Before(temp, pos)) THEN AnalysisFilePath(u, temp)
  ELSE FilePathAfter(IF pos = 1 THEN u ELSE AnalysisHost(u, Cut(temp, pos), TRUE), temp, pos)
AnalysisFile(u, s) ==
  IF At(s, 1) \in Slashes /\ At(s, 2) \in Slashes
  THEN FileHost(u, SubSeq(s, 3, Len(s)), FirstSlash(SubSeq(s, 3, Len(s))))
  ELSE AnalysisFilePath(u, IF At(s, 1) \in Slashes THEN Tail(s) ELSE s)

(* AnalysisFilescheme: a scheme of one letter is a drive.                  *)
AnalysisFilescheme(u, s) == AnalysisFilePath(With([u EXCEPT !.scheme = File], "special"), u.scheme \o s)

(* User, port, host and path (of which paths holds one or none):           *)
(* AnalysisOnlyHost, ParsingHostAndPath and AnalysisNoDefaultProtocol.  A  *)
(* wrong port ends the parse only if the host has another colon.           *)
PortColon(host) == IF host # <<>> /\ Last(host) # "]" THEN FindLast(host, ":") ELSE 0
PathAfter(u, paths, special) == IF paths = <<>> THEN u ELSE AnalysisPath(u, paths[1], special)
NameAndPath(u, name, paths, special) ==
  IF Is(u, "failed") /\ PortColon(name) # 0 THEN u ELSE PathAfter(AnalysisHost(u, name, special), paths, special)
PortAndPath(u, host, pos, paths, special) ==
  NameAndPath(IF pos = 0 THEN u ELSE AnalysisPort(u, After(host, pos)), Cut(host, pos), paths, special)
HostAndPath(u, s, paths, special) ==
  LET v == AnalysisUsernameAndPasswd(u, s)
      host == HostOf(s)
  IN  IF host = <<>> THEN Fail(v) ELSE PortAndPath(v, host, PortColon(host), paths, special)
PathFrom(s, i) == IF i = 0 THEN <<>> ELSE <<After(s, i)>>

(* AnalysisNoDefaultProtocol: after a scheme that is not special, a path   *)
(* without host is kept as it is, in one piece.                            *)
AnalyInfoPath(u, s) ==
  With(With([u EXCEPT !.path = IF @ = <<>> THEN <<s>> ELSE [@ EXCEPT ![1] = s]], "opaque"), "path")
AnalysisNoDefaultProtocol(u, s) ==
  LET hostandpath == SubSeq(s, 3, Len(s))
      i == Find(hostandpath, {"/"})
  IN  IF Len(u.scheme) = 2 /\ u.scheme[1] \in Letters THEN AnalysisFilescheme(u, s)
      ELSE IF ~(At(s, 1) = "/" /\ At(s, 2) = "/") THEN AnalyInfoPath(u, s)
      ELSE IF At(s, 3) = "/" THEN AnalysisPath(u, Tail(s), FALSE)
      ELSE IF hostandpath = <<>> THEN u
      ELSE HostAndPath(u, Cut(hostandpath, i), PathFrom(hostandpath, i), FALSE)

(* AnalysisHostAndPath: after a special scheme any number of slashes.      *)
RECURSIVE SkipSlashSymbol(_)
SkipSlashSymbol(s) == IF At(s, 1) \in Slashes THEN SkipSlashSymbol(Tail(s)) ELSE s
AnalysisHostAndPath(u, s) ==
  LET input == SkipSlashSymbol(s)
      pos == Find(input, Slashes)
  IN  IF ~Is(u, "special")
        THEN AnalysisNoDefaultProtocol([u EXCEPT !.isSpecialPath = IF s = <<>> THEN @ ELSE s[1] # "/"], s)
      ELSE IF input = <<>> THEN Fail(u)
      ELSE HostAndPath(u, Cut(input, pos), PathFrom(input, pos), TRUE)

AfterScheme(u, s) == IF u.scheme = File THEN AnalysisFile(u, s) ELSE AnalysisHostAndPath(u, s)
InitOnlyInput(u, s) ==
  LET pos == Find(s, {":"})
      v == AnalysisScheme(u, SubSeq(s, 1, pos))
  IN  IF pos = 0 \/ Is(v, "failed") THEN Fail(u)
      ELSE AfterScheme(CutQuery(CutFragment(v, s), s), After(Hierarchy(s), pos))

(* URL(input).                                                             *)
Parse(input) == InitOnlyInput(Blank, DeleteSpace(input))
=============================================================================
