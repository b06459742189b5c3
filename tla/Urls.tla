-------------------------------- MODULE Urls --------------------------------
(***************************************************************************)
(* URL, URLSearchParams and URLParams (js_api_module/url): the native      *)
(* record of UrlParser, the fields in which the script object (js_url.ts)  *)
(* keeps what it last read from it, and the two lists of parameters that   *)
(* belong to the object and write its query.                               *)
(***************************************************************************)
EXTENDS UrlParser

CONSTANTS
  Hosts,       \* the texts parsed as a host
  Texts,       \* the texts a URL is made of
  Edited,      \* those whose URL is then changed
  Bases,       \* the texts of a base
  References,  \* the texts made a URL with a base
  Inputs,      \* Inputs[p]: what the setter of p is given
  Keys, Values,\* names and values of parameters
  Order,       \* the tokens in them, in the order of their characters
  MaxSets      \* bound: calls that change a URL

VARIABLE urls
Phases == {"host", "object", "failed"}

----------------------------------------------------------------------------
(* With a base (URL(input, base)).  What the parse of the input alone has  *)
(* set stays in the record.                                                *)
Assign(u, base, flag) == IF Is(base, flag) THEN With(u, flag) ELSE Without(u, flag)
BaseInfoToUrl(u, base, inputIsEmpty) ==
  LET copied == [u EXCEPT !.scheme = base.scheme, !.host = base.host, !.username = base.username,
                          !.password = base.password, !.port = base.port]
      flagged == FoldSeq(LAMBDA f, v : Assign(v, base, f), With(copied, "host"),
                         <<"special", "username", "password", "port", "opaque", "ipv6">>)
      all == [flagged EXCEPT !.path = base.path, !.query = base.query, !.fragment = base.fragment]
  IN  IF inputIsEmpty THEN FoldSeq(LAMBDA f, v : Assign(v, base, f), all, <<"path", "query", "fragment">>)
      ELSE flagged

AnalysisInput(u, s) == AnalysisPath(CutQuery(CutFragment(u, s), s), Hierarchy(s), Is(u, "special"))

(* ShorteningPath: the last segment of the base goes, unless what the      *)
(* input has is an empty segment only, which goes instead.                 *)
ShorteningPath(u, base) ==
  IF base.path = <<>> \/ u.path = <<<<>>>> \/ (Len(base.path) = 1 /\ u.scheme = File /\ ISFileNohost(base.path[1]) /\ base.path[1][2] = ":")
  THEN base.path ELSE Front(base.path)

(* What the input has is written behind the path of the base.              *)
Merge(v, base, s) ==
  LET basePath == Join(ShorteningPath(v, base), "/") IN
  With(AnalysisInput([v EXCEPT !.path = <<>>], IF basePath = <<>> THEN s ELSE basePath \o <<"/">> \o s), "path")
Relative(u, base, input, strInput) ==
  IF input = <<>> THEN u
  ELSE IF input[1] = "/" THEN AnalysisInput(u, Tail(input))
  ELSE Merge(AnalysisInput(u, strInput), base, Hierarchy(strInput))
Against(alone, base, input, trimmed) ==
  LET double == At(input, 1) = "/" /\ (At(input, 2) = "/" \/ (At(input, 2) = "\\" /\ Is(base, "special")))
      \* InitOnlyInput has cut its argument too, if it had a scheme
      strInput == IF alone.scheme # <<>> THEN Hierarchy(trimmed) ELSE trimmed
  IN  IF ~Is(alone, "failed") THEN alone
      ELSE IF double THEN InitOnlyInput(Without(alone, "failed"), base.scheme \o input)
      ELSE IF Is(base, "opaque") THEN Fail(alone)
      ELSE Relative(BaseInfoToUrl(Without(alone, "failed"), base, input = <<>>), base, input, strInput)
Resolve(input, base) == Against(Parse(input), base, input, DeleteSpace(input))

----------------------------------------------------------------------------
(* What is read.                                                           *)
GetHostname(u) ==
  IF ~Is(u, "host") THEN <<>> ELSE IF Is(u, "ipv6") THEN u.host ELSE EncodePercentEncoding(u.host, HostChars)
GetSearch(u) == IF Is(u, "query") /\ Len(u.query) # 1 THEN u.query ELSE <<>>
GetEncodeSearch(u) == EncodePercentEncoding(GetSearch(u), QueryChars)
GetUsername(u) == IF Is(u, "username") THEN EncodePercentEncoding(u.username, UserinfoChars) ELSE <<>>
GetPassword(u) == IF Is(u, "password") THEN EncodePercentEncoding(u.password, UserinfoChars) ELSE <<>>
GetFragment(u) ==
  IF Is(u, "fragment") /\ Len(u.fragment) # 1 THEN EncodePercentEncoding(u.fragment, FragmentChars) ELSE <<>>
GetScheme(u) == u.scheme
GetPath(u) ==
  LET root == IF u.isSpecialPath THEN <<>> ELSE <<"/">>
      temp == IF Is(u, "path") THEN root \o Join(u.path, "/") ELSE IF IsSpecial(u.scheme) THEN root ELSE <<>>
  IN  EncodePercentEncoding(temp, PathChars)
GetPort(u) == IF Is(u, "port") THEN <<ToString(u.port)>> ELSE <<>>
GetHost(u) == u.host \o (IF Is(u, "port") THEN <<":", ToString(u.port)>> ELSE <<>>)
GetEncodeHost(u) == IF Is(u, "ipv6") THEN GetHost(u) ELSE EncodePercentEncoding(GetHost(u), HostChars)
GetOnOrOff(u) == ~Is(u, "failed")

(* What is written.  The host is taken over if its parse has set the flag  *)
(* of the host, an error or not.                                           *)
HostEnds == {":", "?", "#", "/", "\\"}
HostFrom(u, this) ==
  IF ~Is(this, "host") THEN u ELSE WithHost(u, IF u.scheme = File /\ this.host = <<"localhost">> THEN <<>> ELSE this.host)
HostTaken(u, strHost) == strHost # <<>> /\ Is(AnalysisHost(Blank, strHost, IsSpecial(u.scheme)), "host")
TakeHost(u, strHost) ==
  IF strHost = <<>> THEN u ELSE HostFrom(u, AnalysisHost(Blank, strHost, IsSpecial(u.scheme)))
SetHostname(u, s) == IF Is(u, "opaque") THEN u ELSE TakeHost(u, UpTo(s, HostEnds))

(* SetPort: the port of the scheme is not known here, so it stays.         *)
SetPort(u, s) ==
  LET this == AnalysisPort(Blank, UpTo(s, {"?", "#", "/", "\\"})) IN
  IF Is(this, "port") THEN With([u EXCEPT !.port = this.port], "port") ELSE u

(* SetHost: SplitString, then the host, and only after it the port.        *)
SetHost(u, s) ==
  LET pos == Find(s, HostEnds) IN
  IF Is(u, "opaque") \/ ~HostTaken(u, Cut(s, pos)) THEN u
  ELSE SetPort(TakeHost(u, Cut(s, pos)), IF At(s, pos) = ":" THEN After(s, pos) ELSE <<>>)

Unless(n, u) == IF Is(n, "failed") THEN u ELSE n
SetHref(u, s) == Unless(Parse(s), u)

SetPath(u, s) ==
  LET encoded == ReplaceAll(EncodePercentEncoding(s, PathChars), "%3A", ":")
      strPath == IF encoded[1] = "/" THEN Tail(encoded) ELSE encoded
      this == IF u.scheme = File THEN AnalysisFilePath(Blank, strPath)
              ELSE AnalysisPath(Blank, strPath, IsSpecial(u.scheme))
  IN  IF Is(u, "opaque") \/ s = <<>> \/ ~Is(this, "path") THEN u ELSE With([u EXCEPT !.path = this.path], "path")

SetSearch(u, s) ==
  IF s = <<>> THEN Without([u EXCEPT !.query = <<>>], "query")
  ELSE AnalysisQuery(u, ReplaceSpecialSymbols(IF s[1] = "?" THEN s ELSE <<"?">> \o s, {"#"}))
SetEncodeSearch(u, s) == SetSearch(u, EncodePercentEncoding(s, QueryChars))
SetFragment(u, s) ==
  LET temp == EncodePercentEncoding(s, FragmentChars) IN
  IF s = <<>> THEN Without([u EXCEPT !.fragment = <<>>], "fragment")
  ELSE AnalysisFragment(u, IF s[1] = "#" THEN temp ELSE <<"#">> \o temp)

(* SetScheme: special ones among themselves, with the colon.               *)
SetScheme(u, s) ==
  LET this == AnalysisScheme(Blank, s) IN
  IF IsSpecial(u.scheme) # IsSpecial(s) \/ (s = <<"file">> /\ u.flags \intersect {"username", "password", "port"} # {})
     \/ Is(this, "failed")
  THEN u ELSE [u EXCEPT !.scheme = this.scheme, !.flags = @ \union (this.flags \intersect {"special"})]

Userinfo(s) == ReplaceSpecialSymbols(EncodePercentEncoding(s, UserinfoChars), SpecialSymbols)
SetUsername(u, s) ==
  IF s = <<>> THEN Without([u EXCEPT !.username = <<>>], "username")
  ELSE With([u EXCEPT !.username = Userinfo(s)], "username")
SetPassword(u, s) ==
  IF s = <<>> THEN Without([u EXCEPT !.password = <<>>], "password")
  ELSE With([u EXCEPT !.password = Userinfo(s)], "password")

----------------------------------------------------------------------------
(* Parameters: names and values, one after the other.                      *)
Odd(list) == {i \in DOMAIN list : i % 2 = 1}
Get(list, name) ==
  LET at == {i \in Odd(list) : list[i] = name} IN
  IF at = {} THEN <<>> ELSE <<list[(CHOOSE i \in at : \A j \in at : i <= j) + 1]>>
GetAll(list, name) ==
  FoldLeftDomain(LAMBDA r, i : IF i % 2 = 1 /\ list[i] = name THEN Append(r, list[i + 1]) ELSE r, <<>>, list)
IsHas(list, name) == \E i \in Odd(list) : list[i] = name
Entries(list) == [i \in 1..(Len(list) \div 2) |-> <<list[2 * i - 1], list[2 * i]>>]
IterByKeys(list) == [i \in 1..(Len(list) \div 2) |-> list[2 * i - 1]]
IterByValues(list) == [i \in 1..(Len(list) \div 2) |-> list[2 * i]]
Flat(pairs) == FlattenSeq(pairs)

AppendPair(list, name, value) == list \o <<name, value>>
DeleteName(list, name) == Flat(SelectSeq(Entries(list), LAMBDA p : p[1] # name))
(* Set: the first of the name gets the value, the others go.               *)
SetPair(list, name, value) ==
  LET Step(r, p) == IF p[1] # name THEN r \o p ELSE IF IsHas(r, name) THEN r ELSE r \o <<name, value>> IN
  IF IsHas(list, name) THEN FoldLeft(Step, <<>>, Entries(list)) ELSE AppendPair(list, name, value)

(* Sort: each pair is exchanged with every later one that is smaller.      *)
Rank(t) == CHOOSE i \in DOMAIN Order : Order[i] = t
Larger(s, t) ==
  \E i \in DOMAIN s : /\ \A j \in 1..(i - 1) : At(t, j) = s[j]
                      /\ i > Len(t) \/ (At(t, i) # s[i] /\ Rank(s[i]) > Rank(t[i]))
Exchange(pairs, ij) ==
  LET i == ij[1]  j == ij[2] IN
  IF Larger(pairs[i][1], pairs[j][1]) THEN [pairs EXCEPT ![i] = pairs[j], ![j] = pairs[i]] ELSE pairs
SortPairs(list) ==
  LET n == Len(list) \div 2
      steps == FlattenSeq([i \in 1..(n - 1) |-> [k \in 1..(n - i) |-> <<i, i + k>>]])
  IN  IF n < 2 THEN list ELSE Flat(FoldLeft(Exchange, Entries(list), steps))

(* initToStringSeachParams and StringAnalyzing: the pairs of a query.      *)
Unprefixed(s, T) == IF At(s, 1) \in T THEN Tail(s) ELSE s
StringAnalyzing(s) ==
  LET cut == Split(Unprefixed(s, {"?", "&"}), "&")
      segments == IF Last(cut) = <<>> THEN Front(cut) ELSE cut
      Read(t) == DecodePercentEncoding(ReplaceAll(t, "+", " "))
      Pair(t) == <<Read(UpTo(t, {"="})), IF Has(t, "=") THEN Read(After(t, Find(t, {"="}))) ELSE <<>> >>
  IN  Flat([i \in DOMAIN segments |-> Pair(segments[i])])
ParameterProcessing(s) == StringAnalyzing(ReplaceAll(Unprefixed(s, {"?"}), "+", " "))

(* toString: encodeURIComponent (external), with + for a space.            *)
CustomEncode(s) ==
  LET escaped == EncodePercentEncoding(s, Delimiters \ {".", " "}) IN ReplaceAll(escaped, " ", "+")
ParamsToString(list) ==
  Join([i \in DOMAIN Entries(list) |->
          CustomEncode(Entries(list)[i][1]) \o <<"=">> \o CustomEncode(Entries(list)[i][2])], "&")

(* removeKeyValuePairs: a regular expression on the query as it is         *)
(* written: the name, at the edge of a word (of which an escape may be the *)
(* end), =, and what goes up to &.                                         *)
Edge(s, i) == IsWord(At(s, i)) # (IsWord(At(s, i - 1)) \/ At(s, i - 1) \in Escapes)
RECURSIVE RemoveFrom(_, _, _)
RemoveFrom(s, i, key) ==
  LET end == i + Len(key)
      rest == After(s, end)
      value == UpTo(rest, {"&"})
  IN  IF i > Len(s) THEN <<>>
      ELSE IF Edge(s, i) /\ end <= Len(s) /\ SubSeq(s, i, end) = Append(key, "=")
           THEN RemoveFrom(s, end + 1 + Len(value) + (IF Len(value) < Len(rest) THEN 1 ELSE 0), key)
      ELSE <<s[i]>> \o RemoveFrom(s, i + 1, key)
RemoveKeyValuePairs(s, key) ==
  LET result == RemoveFrom(s, 1, key) IN IF result # <<>> /\ Last(result) = "&" THEN Front(result) ELSE result

----------------------------------------------------------------------------
(* The script object.                                                      *)
Href(j) ==
  LET user == j.username \o (IF j.password # <<>> THEN <<":">> \o j.password ELSE <<>>)
      host == <<"/", "/">> \o (IF user # <<>> THEN Append(user, "@") ELSE <<>>) \o j.hostname
                \o (IF j.port # <<>> THEN <<":">> \o j.port ELSE <<>>)
  IN  j.protocol \o (IF j.hostname # <<>> THEN host ELSE IF j.protocol = File THEN <<"/", "/">> ELSE <<>>)
        \o j.pathname \o j.search \o j.hash
SetHrefOf(j) == [j EXCEPT !.href = Href(j)]

Fields(n) == [search |-> GetSearch(n), username |-> GetUsername(n), password |-> GetPassword(n),
  hostname |-> GetHostname(n), host |-> GetEncodeHost(n), hash |-> GetFragment(n), protocol |-> GetScheme(n),
  pathname |-> GetPath(n), port |-> GetPort(n), href |-> <<>>]

(* The constructor and parseURL (setParamsFromNativeUrl); the constructor  *)
(* of a text that is none leaves an object without fields.                 *)
Create(given, n, calls) ==
  urls' = IF ~GetOnOrOff(n) THEN [urls EXCEPT !.phase = "failed", !.given = given, !.native = n]
          ELSE [urls EXCEPT !.phase = "object", !.given = given, !.native = n, !.fields = SetHrefOf(Fields(n)),
                            !.lists = [o \in {"searchParams", "params"} |-> ParameterProcessing(GetEncodeSearch(n))],
                            !.agrees = {"searchParams", "params"}, !.calls = calls]
UrlConstructor(s) == \E n \in {Parse(s)} : Create(s, n, IF s \in Edited THEN 0 ELSE MaxSets)
UrlStructor(s, base) == \E b \in {Parse(base)} : Create(s, IF Is(b, "failed") THEN Fail(Blank) ELSE Resolve(s, b), 0)

(* new URL(s, url) with this object, as the calls have left it.            *)
FromUrl(s) == \E n \in {Resolve(s, urls.native)} : Create(s, n, urls.calls + 1)

(* A call of a setter leaves the native record n and the fields j.         *)
Leaves(n, j) ==
  urls' = [urls EXCEPT !.native = n, !.fields = SetHrefOf(j), !.calls = @ + 1]
Ignored == urls' = [urls EXCEPT !.calls = @ + 1]
fields == urls.fields
native == urls.native
HasNoUser == fields.host = <<>> \/ fields.protocol = File

Protocol(s) == \E n \in {SetScheme(native, s)} :
  IF s = <<>> \/ (fields.protocol = File /\ fields.host = <<>>) THEN Ignored
  ELSE Leaves(n, [fields EXCEPT !.protocol = GetScheme(n)])
Username(s) == \E n \in {SetUsername(native, s)} :
  IF HasNoUser THEN Ignored ELSE Leaves(n, [fields EXCEPT !.username = GetUsername(n)])
Password(s) == \E n \in {SetPassword(native, s)} :
  IF HasNoUser THEN Ignored ELSE Leaves(n, [fields EXCEPT !.password = GetPassword(n)])
Hash(s) == \E n \in {SetFragment(native, s)} : Leaves(n, [fields EXCEPT !.hash = GetFragment(n)])
Hostname(s) == \E n \in {SetHostname(native, s)} : Leaves(n, [fields EXCEPT !.hostname = GetHostname(n)])
Host(s) == \E n \in {SetHost(native, s)} :
  Leaves(n, [fields EXCEPT !.host = GetEncodeHost(n), !.hostname = GetHostname(n), !.port = GetPort(n)])
Port(s) == \E n \in {SetPort(native, s)} :
  IF HasNoUser \/ s = <<>> THEN Ignored ELSE Leaves(n, [fields EXCEPT !.port = GetPort(n)])
Pathname(s) == \E n \in {SetPath(native, s)} : Leaves(n, [fields EXCEPT !.pathname = GetPath(n)])
HrefSetter(s) == \E n \in {SetHref(native, s)} :
  urls' = [urls EXCEPT !.native = n, !.fields = SetHrefOf(Fields(n)), !.calls = @ + 1,
                       !.lists = [o \in DOMAIN @ |-> ParameterProcessing(GetSearch(n))], !.agrees = DOMAIN urls.lists]
Search(s) == \E n \in {SetEncodeSearch(native, s)} :
  urls' = [urls EXCEPT !.native = n, !.fields = SetHrefOf([@ EXCEPT !.search = GetSearch(n)]), !.calls = @ + 1,
                       !.lists = [o \in DOMAIN @ |-> ParameterProcessing(GetSearch(n))], !.agrees = DOMAIN urls.lists]

(* append, set and sort of a list write its text as the query; the other   *)
(* list does not learn of it (agrees).                                     *)
Writes(o, list) ==
  \E n \in {SetSearch(native, ParamsToString(list))} :
  urls' = [urls EXCEPT !.native = n, !.fields = SetHrefOf([@ EXCEPT !.search = GetSearch(n)]), !.calls = @ + 1,
                       !.lists[o] = list, !.agrees = {o}]
(* delete takes the name out of the query's text instead, which is right   *)
(* if this list has written it and no name is other than a word.           *)
IsPlain(list, name) ==
  /\ fields.search = (IF list = <<>> THEN <<>> ELSE <<"?">> \o ParamsToString(list))
  /\ \A n \in {name} \union {list[i] : i \in Odd(list)} : Len(n) = 1 /\ IsWord(n[1])
Deletes(o, name) ==
  \E search \in {RemoveKeyValuePairs(fields.search, name)} : \E n \in {SetSearch(native, search)} :
      urls' = [urls EXCEPT !.native = n, !.fields = SetHrefOf([@ EXCEPT !.search = search]), !.calls = @ + 1,
                           !.lists[o] = DeleteName(@, name), !.agrees = IF IsPlain(urls.lists[o], name) THEN @ \intersect {o} ELSE {}]

Object == urls.phase = "object" /\ urls.calls < MaxSets
New ==
  /\ urls.phase = "start"
  /\ \/ \E s \in Texts : UrlConstructor(s)
     \/ \E s \in References, b \in Bases : UrlStructor(s, b)
Set ==
  /\ Object
  /\ \/ \E s \in Inputs.protocol : Protocol(s)
     \/ \E s \in Inputs.username : Username(s)
     \/ \E s \in Inputs.password : Password(s)
     \/ \E s \in Inputs.hash : Hash(s)
     \/ \E s \in Inputs.hostname : Hostname(s)
     \/ \E s \in Inputs.host : Host(s)
     \/ \E s \in Inputs.port : Port(s)
     \/ \E s \in Inputs.pathname : Pathname(s)
     \/ \E s \in Inputs.href : HrefSetter(s)
     \/ \E s \in Inputs.search : Search(s)
     \/ \E s \in References : FromUrl(s)

Parameters ==
  /\ Object
  /\ \E o \in DOMAIN urls.lists :
       \/ \E k \in Keys, v \in Values : Writes(o, AppendPair(urls.lists[o], k, v))
       \/ \E k \in Keys, v \in Values : Writes(o, SetPair(urls.lists[o], k, v))
       \/ Writes(o, SortPairs(urls.lists[o]))
       \/ \E k \in Keys : Deletes(o, k)

Empty == [phase |-> "start", given |-> <<>>, native |-> Blank, fields |-> Fields(Blank),
          lists |-> [o \in {"searchParams", "params"} |-> <<>>], agrees |-> {}, calls |-> 0]
Init ==
  \/ urls = Empty
  \/ \E h \in Hosts : urls = [Empty EXCEPT !.phase = "host", !.given = h, !.native = AnalysisHost(Blank, h, TRUE)]
Next ==
  \/ New
  \/ Set
  \/ Parameters

----------------------------------------------------------------------------
IsText(s) == \A i \in DOMAIN s : s[i] \in STRING
TypeOK ==
  /\ urls.phase \in Phases \union {"start"} /\ urls.calls \in 0..MaxSets
  /\ \A f \in DOMAIN urls.fields : IsText(urls.fields[f])
  /\ urls.native.port \in -1..MaxPort /\ urls.agrees \subseteq DOMAIN urls.lists
  /\ \A o \in DOMAIN urls.lists : Len(urls.lists[o]) % 2 = 0
----------------------------------------------------------------------------
(* What ReadBack does not hold for: a scheme that is not special (foo:/x   *)
(* is written foo://x, c:x becomes a file with no / before its path), and  *)
(* what a setter has taken over unread: the port of the scheme, a host     *)
(* that is an error or whose kind differs from that of the host before, a  *)
(* path with ? or #, a file with user or port or a host before a drive,    *)
(* and another scheme without host.                                        *)
Unread(n) ==
  \/ ~Is(n, "special") \/ n.isSpecialPath
  \/ Is(n, "port") /\ n.port = DefaultPorts[n.scheme]
  \/ n.host = <<>> /\ n.scheme # File
  \/ n.host # <<>> /\ (Is(AnalysisHost(Blank, n.host, TRUE), "failed") \/ (n.host[1] = "[") # Is(n, "ipv6"))
  \/ \E i \in DOMAIN n.path : ToSet(n.path[i]) \intersect {"?", "#"} # {}
  \/ n.scheme = File /\ n.flags \intersect {"username", "password", "port"} # {}
  \/ n.scheme = File /\ n.host # <<>> /\ n.path # <<>> /\ IsDrive(n.path[1])

(* What the fields should show; delete leaves the ? of an empty query.     *)
Shown == [fields EXCEPT !.search = IF @ = <<"?">> THEN <<>> ELSE @]
Stale == {"href", "host"}

(* The href that the fields are written to is read as the same fields,     *)
(* after any calls of setters and changes of the parameters.               *)
ReadBack ==
  urls.phase = "object" /\ ~Unread(native) =>
    \A again \in {Parse(fields.href)} :
    GetOnOrOff(again) /\ \A f \in DOMAIN fields \ Stale : Fields(again)[f] = Shown[f]

(* The fields that setters keep up to date are those of the native record. *)
FieldsAreFresh ==
  urls.phase = "object" => \A f \in DOMAIN fields \ Stale : Shown[f] = Fields(native)[f]

(* A list that has been written, or read, last is the query as it would be *)
(* read now.                                                               *)
ListsAgree ==
  urls.phase = "object" => \A o \in urls.agrees : urls.lists[o] = ParameterProcessing(GetSearch(native))

(* A text with this object as base is what it is when it is written behind *)
(* the directory of the base, its origin or its scheme; . and .. alone,    *)
(* a query or a fragment alone keep the last segment of the base.          *)
Directory(path) == SubSeq(path, 1, FindLast(path, "/"))
Behind(s) ==
  LET bare == [fields EXCEPT !.search = <<>>, !.hash = <<>>] IN
  IF At(s, 1) = "/" /\ At(s, 2) = "/" THEN fields.protocol \o s
  ELSE IF At(s, 1) = "/" THEN Href([bare EXCEPT !.pathname = <<>>]) \o s
  ELSE Href([bare EXCEPT !.pathname = Directory(@)]) \o s
ResolvesBehind ==
  Object /\ ~Unread(native) /\ native.scheme # File =>
    \A s \in References :
      s \notin {<<>>} \union SingleSegment \union DoubleSegment /\ s[1] \notin {"?", "#"} =>
        Fields(Resolve(s, native)) = Fields(Parse(Behind(s)))

(* The path of a URL whose scheme is special climbs nowhere.               *)
PathIsResolved ==
  urls.phase = "object" /\ Is(native, "special") =>
    \A i \in DOMAIN native.path : native.path[i] \notin SingleSegment \union DoubleSegment

(* Sorting keeps the pairs and puts them in order; set leaves one value,   *)
(* delete none, and neither touches the other names.                       *)
Others(list, name) == SelectSeq(Entries(list), LAMBDA p : p[1] # name)
ListsObey ==
  \A o \in DOMAIN urls.lists :
    LET list == urls.lists[o]
        sorted == SortPairs(list)
    IN  /\ \A i, j \in DOMAIN IterByKeys(sorted) : i < j => ~Larger(IterByKeys(sorted)[i], IterByKeys(sorted)[j])
        /\ \A p \in ToSet(Entries(list)) \union ToSet(Entries(sorted)) :
             Len(SelectSeq(Entries(list), LAMBDA q : q = p)) = Len(SelectSeq(Entries(sorted), LAMBDA q : q = p))
        /\ \A k \in Keys, v \in Values :
             /\ GetAll(SetPair(list, k, v), k) = <<v>> /\ Others(SetPair(list, k, v), k) = Others(list, k)
             /\ ~IsHas(DeleteName(list, k), k) /\ Others(DeleteName(list, k), k) = Others(list, k)
        /\ \A k \in Keys : Get(list, k) = IF IsHas(list, k) THEN <<Head(GetAll(list, k))>> ELSE <<>>

(* What an address means: a number of 32 bits of which the last part fills *)
(* what the others leave, and eight groups.                                *)
Numbers(labels) == [i \in DOMAIN labels |-> Literals[labels[i][1]]]
Parts(s) == Numbers(LabelsOf(Split(s, ".")))
AreNumbers(labels) == Len(labels) \in 1..4 /\ \A i \in DOMAIN labels : Len(labels[i]) = 1 /\ IsNumeral(labels[i][1])
IsAddress(s) == AreNumbers(LabelsOf(Split(s, ".")))
Pairs(n) == <<n[1] * 256 + n[2], n[3] * 256 + n[4]>>
Piece(s) == IF Has(s, ".") THEN Pairs(Parts(s)) ELSE <<Groups[s[1]]>>
Pieces(list) == FlattenSeq([j \in DOMAIN list |-> Piece(list[j])])
Filled(left, right) == left \o [j \in 1..(8 - Len(left) - Len(right)) |-> 0] \o right
GroupsOf(s) ==
  LET i == CHOOSE i \in DoubleColons(s) : TRUE IN
  IF DoubleColons(s) = {} THEN Pieces(GroupList(s)) ELSE Filled(Pieces(GroupList(Before(s, i))), Pieces(GroupList(After(s, i + 1))))
Inner(s) == SubSeq(s, 2, Len(s) - 1)
AddressesKeepValue ==
  urls.phase = "host" /\ GetOnOrOff(native) =>
    LET given == urls.given IN
    /\ IsAddress(given) =>
         \A parts \in {Parts(given)}, address \in {Parts(native.host)} :
           LET k == Len(parts) IN
           /\ \A i \in 1..(k - 1) : parts[i] \in Byte /\ address[i] = parts[i]
           /\ parts[k] \div 256 ^ (4 - k) \in Byte
           /\ \A i \in k..4 : address[i] = (parts[k] \div 256 ^ (4 - i)) % 256
    /\ given[1] = "[" => GroupsOf(Inner(native.host)) = GroupsOf(Inner(given))
=============================================================================
