-------------------------------- MODULE Uris --------------------------------
(***************************************************************************)
(* URI (js_api_module/uri): the native object (js_uri.cpp), whose parts    *)
(* are kept beside the text they were read from, and the script object     *)
(* (js_uri.ts), which encodes what is set and decodes what is read.  Each  *)
(* function of the native object gives the record that it leaves; data is  *)
(* what it has still to take apart, error that errStr_ is not empty.       *)
(***************************************************************************)
EXTENDS UrlText

CONSTANTS
  Originals,   \* the texts a URI is made of
  Changed,     \* those whose URI is then changed
  Pieces,      \* Pieces[p]: what the setter of p is given
  Parts,       \* the scheme, the scheme specific part and the fragment given to createFromParts
  Segments,    \* the segments added
  Names, Contents, \* the names and values of the parameters added
  TooLarge,    \* the words of digits that are no int
  MaxChanges   \* bound: calls that change a URI or make another of it

VARIABLE uris

(* The characters that the rules (g_rulePath...) do not have.              *)
NotUrlc == {"\\", "#", "^"}
NotPath == NotUrlc \union {"?", "[", "]"}
NotUserInfo == NotPath \union {"/", "@"}
NotPort == NotPath \union {"/", " ", "%", "|"} \union Escapes
NotScheme == NotPath \union {":", "/", "@", "%"} \union Escapes
CheckCharacter(s, illegal) == ToSet(s) \intersect illegal = {}

Absent == [scheme |-> <<>>, ssp |-> <<>>, userInfo |-> <<>>, host |-> <<>>, port |-> <<>>, path |-> <<>>, query |-> <<>>,
           fragment |-> <<>>, authority |-> <<>>, input |-> <<>>, data |-> <<>>, error |-> FALSE]
Fail(u) == [u EXCEPT !.error = TRUE]
Prefixed(t, s) == IF s = <<>> THEN <<>> ELSE <<t>> \o s

----------------------------------------------------------------------------
(* Taking a text apart.                                                    *)
AssignSchemeSpecificPart(u) == [u EXCEPT !.ssp = @ \o u.data \o Prefixed("?", u.query)]

SpecialPath(u) ==
  IF CheckCharacter(u.data, NotPath) THEN [u EXCEPT !.path = u.data, !.data = <<>>] ELSE Fail(u)

AnalysisFragment(u) ==
  LET pos == Find(u.data, {"#"})
      fragment == After(u.data, pos)
  IN  IF pos = 0 THEN u
      ELSE IF pos = 1 \/ ~CheckCharacter(fragment, NotUrlc) THEN Fail(u)
      ELSE [u EXCEPT !.fragment = fragment, !.data = Before(@, pos)]
AnalysisQuery(u) ==
  LET pos == Find(u.data, {"?"})
      query == After(u.data, pos)
  IN  IF pos = 0 THEN u
      ELSE IF ~CheckCharacter(query, NotUrlc) THEN Fail(u)
      ELSE [u EXCEPT !.query = query, !.data = Before(@, pos)]

AnalysisScheme(u) ==
  LET pos == Find(u.data, {":"})
      scheme == Before(u.data, pos)
      v == SpecialPath(u)
  IN  IF Has(scheme, "/") THEN [v EXCEPT !.ssp = v.path \o <<"?">> \o v.query, !.data = <<>>]
      ELSE IF ~IsAlpha(At(u.data, 1)) \/ ~CheckCharacter(scheme, NotScheme) THEN Fail(u)
      ELSE [u EXCEPT !.scheme = scheme, !.data = After(@, pos)]

AnalysisPath(u) ==
  LET pos == Find(u.data, {"/"})
      path == SubSeq(u.data, pos, Len(u.data))
  IN  IF pos = 0 THEN u
      ELSE IF CheckCharacter(path, NotPath) THEN [u EXCEPT !.path = path, !.data = Before(@, pos)] ELSE Fail(u)
AnalysisUserInfo(u) ==
  LET pos == Find(u.data, {"@"})
      userInfo == Before(u.data, pos)
  IN  IF pos = 0 THEN u
      ELSE IF CheckCharacter(userInfo, NotUserInfo) THEN [u EXCEPT !.userInfo = userInfo, !.data = After(@, pos)]
      ELSE Fail(u)

(* AnalysisPort: other digits than those of an int are left in the host,   *)
(* other characters are cut off; neither is lawful.                        *)
IsDigits(s) == \A i \in DOMAIN s : IsDecimal(s[i]) \/ s[i] \in TooLarge
IsLawful(port) == port # <<>> /\ IsDigits(port) /\ ToSet(port) \intersect TooLarge = {}
PortColon(s) == LET pos == FindLast(s, ":") IN IF pos > FindLast(s, "]") THEN pos ELSE 0
AnalysisPort(u) ==
  LET pos == PortColon(u.data)
      port == After(u.data, pos)
      cut == [u EXCEPT !.data = Before(@, pos)]
  IN  IF ~CheckCharacter(port, NotPort) THEN Fail(u)
      ELSE IF IsLawful(port) THEN [cut EXCEPT !.port = port]
      ELSE IF IsDigits(port) THEN u ELSE cut

(* AnalysisIPV4: a dotted address, or the labels of a name.                *)
NotLabel == (Delimiters \ {" ", "&", "=", "+", "|", ";", ":"}) \union Escapes
IsName(labels) ==
  LET last == Len(labels) IN
  /\ \A i \in 1..last : labels[i] # <<>> /\ CheckCharacter(labels[i], NotLabel) /\ IsWord(labels[i][1])
  /\ \A i \in 1..last : (i < last \/ last = 1) => IsWord(Last(labels[i]))
  /\ last > 1 => IsAlpha(labels[last][1])
IsIPV4(labels) == IsDotted(labels) \/ IsName(labels)
AnalysisIPV4(s) == IsIPV4(Split(s, "."))

AnalysisHost(u, isLawfulProt) ==
  LET inside == SubSeq(u.data, 2, Len(u.data) - 1) IN
  IF At(u.data, 1) = "["
  THEN IF Last(u.data) = "]" /\ isLawfulProt /\ MatchesIPv6(inside) THEN [u EXCEPT !.host = u.data, !.data = <<>>] ELSE Fail(u)
  ELSE IF Has(u.data, "[") \/ Has(u.data, "]") THEN Fail(u)
  ELSE IF isLawfulProt /\ AnalysisIPV4(u.data) THEN [u EXCEPT !.host = u.data, !.data = <<>>]
  ELSE [u EXCEPT !.port = <<>>, !.host = <<>>, !.userInfo = <<>>]
Ported(u) == IF PortColon(u.data) = 0 THEN u ELSE AnalysisPort(u)
StopsAtPort(u) == Has(u.data, ":") /\ Ported(u).error
AfterPort(hasPort, isLawfulProt, u) == IF hasPort /\ u.error THEN u ELSE AnalysisHost(u, isLawfulProt)
AnalysisPortAndHost(u) ==
  LET pos == PortColon(u.data) IN
  AfterPort(Has(u.data, ":"), pos = 0 \/ IsLawful(After(u.data, pos)), Ported(u))

AfterUserInfo(hasUser, u) == IF hasUser /\ u.error THEN u ELSE AnalysisPortAndHost(u)
AfterPath(u, p) ==
  IF u.data = <<>> \/ (Has(u.data, "/") /\ p.error) THEN p
  ELSE AfterUserInfo(Has(p.data, "@"), AnalysisUserInfo([p EXCEPT !.authority = p.data]))
AnalysisHostAndPath(u) == AfterPath(u, AnalysisPath(u))

AnalysisSsp(u) ==
  LET v == AssignSchemeSpecificPart(u) IN
  IF At(u.data, 1) = "/" /\ At(u.data, 2) = "/" THEN AnalysisHostAndPath([v EXCEPT !.data = SubSeq(@, 3, Len(@))])
  ELSE IF At(u.data, 1) = "/" THEN [v EXCEPT !.path = u.data] ELSE [v EXCEPT !.query = <<>>]

AfterScheme(q, u) ==
  IF u.error THEN Fail(q) ELSE IF Has(q.data, ":") THEN AnalysisSsp(u) ELSE AssignSchemeSpecificPart(u)
AfterQuery(q) == IF q.error THEN q ELSE AfterScheme(q, IF Has(q.data, ":") THEN AnalysisScheme(q) ELSE SpecialPath(q))
AfterFragment(u) == IF u.error THEN u ELSE AfterQuery(AnalysisQuery(u))
AnalysisUri(u) == AfterFragment(AnalysisFragment(u))

(* What is left of data is read by no later call.                          *)
Done(u) == [u EXCEPT !.data = <<>>]
Parse(s) ==
  IF s = <<>> THEN Fail(Absent) ELSE Done(AnalysisUri([Absent EXCEPT !.input = s, !.data = s]))
Equals(u, v) == \A f \in DOMAIN Absent \ {"input", "data", "error"} : u[f] = v[f]

----------------------------------------------------------------------------
(* The texts that are made of the parts.                                   *)
SchemeText(u) == IF u.scheme = <<>> THEN <<>> ELSE Append(u.scheme, ":")
Authority(u) == (IF u.userInfo = <<>> THEN <<>> ELSE Append(u.userInfo, "@")) \o u.host \o Prefixed(":", u.port)
HostText(u) ==
  IF u.host # <<>> THEN <<"/", "/">> \o Authority(u)
  ELSE IF u.authority # <<>> THEN <<"/", "/">> \o u.authority ELSE <<>>
Rooted(path) == IF At(path, 1) = "/" THEN path ELSE Prefixed("/", path)
Ends(u) == Prefixed("?", u.query) \o Prefixed("#", u.fragment)

UpdateToString(u) ==
  IF u.path = <<>> THEN SchemeText(u) \o u.ssp \o Prefixed("#", u.fragment)
  ELSE SchemeText(u) \o HostText(u) \o Rooted(u.path) \o Ends(u)

Base(u) == SchemeText(u) \o (IF u.authority = <<>> THEN <<>> ELSE <<"/", "/">> \o u.authority) \o u.path
AddQueryValue(u, key, value) ==
  Base(u) \o Ends([u EXCEPT !.query = (IF @ = <<>> THEN <<>> ELSE Append(@, "&")) \o key \o <<"=">> \o value])
ClearQuery(u) == Base(u) \o Prefixed("#", u.fragment)
(* AddSegment: the last character of an empty text is read from before it. *)
AddSegment(u, segment) ==
  {Base(u) \o slash \o segment \o Ends(u) :
     slash \in IF Base(u) = <<>> THEN {<<>>, <<"/">>} ELSE IF Last(Base(u)) = "/" THEN {<<>>} ELSE {<<"/">>}}

GetLastSegment(u) ==
  LET trimmed == IF u.path # <<>> /\ Last(u.path) = "/" THEN Front(u.path) ELSE u.path IN After(trimmed, FindLast(trimmed, "/"))

NormalizePath(path) ==
  LET Step(r, s) ==
        IF s = <<".", ".">> THEN IF r # <<>> /\ Last(r) # s THEN Front(r) ELSE Append(r, s)
        ELSE IF s \in {<<>>, <<".">>} THEN r ELSE Append(r, s)
      names == FoldLeft(Step, <<>>, Split(path, "/"))
  IN  IF names = <<>> THEN <<"/">> ELSE <<"/">> \o Join(names, "/")
Normalize(u) ==
  IF u.path = <<>> THEN u.input ELSE SchemeText(u) \o HostText(u) \o NormalizePath(u.path) \o Ends(u)

----------------------------------------------------------------------------
(* The setters: each makes the text anew of the parts, of which            *)
(* UpdateSsp and UpdateAuthority are first made of the smaller ones.       *)
UpdateSsp(u) ==
  [u EXCEPT !.ssp = (IF u.authority = <<>> THEN <<>> ELSE <<"/", "/">> \o u.authority) \o Rooted(u.path) \o Prefixed("?", u.query)]
UpdateAuthority(u) == [u EXCEPT !.authority = Authority(u)]
Written(u) == Done([u EXCEPT !.input = UpdateToString(u)])

SetScheme(u, s) ==
  LET temp == UpTo(s, {":"}) IN
  IF ~IsAlpha(s[1]) \/ ~CheckCharacter(temp, NotScheme) THEN Fail(u) ELSE Written([u EXCEPT !.scheme = temp])
SetUserInfo(u, s) ==
  IF u.host = <<>> \/ ~CheckCharacter(s, NotUserInfo) THEN Fail(u)
  ELSE Written(UpdateSsp(UpdateAuthority([u EXCEPT !.userInfo = s])))
SetPath(u, s) == IF CheckCharacter(s, NotPath) THEN Written(UpdateSsp([u EXCEPT !.path = s])) ELSE Fail(u)
SetQuery(u, s) == IF CheckCharacter(s, NotUrlc) THEN Written(UpdateSsp([u EXCEPT !.query = s])) ELSE Fail(u)
SetFragment(u, s) == IF CheckCharacter(s, NotUrlc) THEN Written([u EXCEPT !.fragment = s]) ELSE Fail(u)

(* SetAuthority returns at an error of its own, or, if there is a colon,   *)
(* of any earlier call, with the parts as they are then.                   *)
TakePortAndHost(u) == IF StopsAtPort(u) THEN Done(Ported(u)) ELSE Written(UpdateSsp(AnalysisPortAndHost(u)))
TakeAuthority(u, v) == IF v.error THEN Done(v) ELSE TakePortAndHost([v EXCEPT !.error = u.error])
SetAuthority(u, s) ==
  TakeAuthority(u, AnalysisUserInfo([u EXCEPT !.port = <<>>, !.host = <<>>, !.userInfo = <<>>, !.authority = s, !.data = s, !.error = FALSE]))
SetSsp(u, s) ==
  LET given == [Absent EXCEPT !.scheme = u.scheme, !.fragment = u.fragment, !.error = u.error, !.data = s] IN
  Written(AnalysisSsp(AnalysisQuery(given)))

----------------------------------------------------------------------------
(* The script object.  encodeURI, encodeURIComponent and decodeURIComponent*)
(* are external.                                                           *)
EncodeURI(s) == EncodePercentEncoding(s, {" ", "\\", "^", "|", "[", "]", "%"})
EncodeURIComponent(s) == EncodePercentEncoding(s, Delimiters \ {"."})
DecodeSafely(s) == DecodePercentEncoding(s)
(* toAscllString: encodeURI, with brackets and escapes as they were.       *)
ToAscii(s) == EncodePercentEncoding(s, {" ", "\\", "^", "|"})

(* An authority or a scheme specific part is decoded around its brackets,  *)
(* of which it has the second pair only in part.                           *)
Decoded(s) ==
  LET cut == Split(s, "[")
      inner == Split(cut[2], "]")
      behind == IF Len(inner) = 1 THEN <<>> ELSE DecodeSafely(inner[2])
  IN  IF ~Has(s, "[") THEN DecodeSafely(s)
      ELSE DecodeSafely(cut[1]) \o <<"[">> \o inner[1] \o <<"]">> \o behind \o FlattenSeq(SubSeq(cut, 4, Len(cut)))
Views(u) == [scheme |-> u.scheme, authority |-> Decoded(u.authority), ssp |-> Decoded(u.ssp), userInfo |-> DecodeSafely(u.userInfo),
  host |-> u.host, port |-> u.port, path |-> DecodeSafely(u.path), query |-> DecodeSafely(u.query), fragment |-> DecodeSafely(u.fragment)]
CheckHierarchical(u) == LET pos == Find(u.input, {":"}) IN pos = 0 \/ At(u.input, pos + 1) = "/"

(* The parameters: a + is a space only for getQueryValue.                  *)
Items(u) == IF u.query = <<>> THEN <<>> ELSE Split(u.query, "&")
NameOf(item) == DecodeSafely(UpTo(item, {"="}))
ContentOf(item) == IF Has(item, "=") THEN After(item, Find(item, {"="})) ELSE <<>>
GetQueryValues(u, key) ==
  LET Of(item) == (IF key = <<>> /\ item = <<>> THEN <<item>> ELSE <<>>)
                    \o (IF NameOf(item) = key THEN <<DecodeSafely(ContentOf(item))>> ELSE <<>>)
  IN  FlattenSeq([i \in DOMAIN Items(u) |-> Of(Items(u)[i])])
GetQueryValue(u, key) ==
  LET found == SelectSeq(Items(u), LAMBDA item : NameOf(item) = key) IN
  IF found = <<>> THEN <<>> ELSE <<DecodeSafely(ReplaceAll(ContentOf(found[1]), "+", " "))>>
GetQueryNames(u) ==
  LET items == Items(u)
      last == IF items # <<>> /\ Last(items) = <<>> THEN Len(items) - 1 ELSE Len(items)
  IN  {NameOf(items[i]) : i \in 1..last}
GetSegment(u) == [i \in DOMAIN SelectSeq(Split(u.path, "/"), LAMBDA s : s # <<>>) |->
                    DecodeSafely(SelectSeq(Split(u.path, "/"), LAMBDA s : s # <<>>)[i])]

(* The constructor throws what it could not take apart.                    *)
Create(made, s, calls) ==
  \E u \in {Parse(s)} : uris' = [phase |-> IF u.error THEN "failed" ELSE "object", made |-> made, uri |-> u, calls |-> calls]
CreateFromParts(p) ==
  Create(p, p[1] \o <<":">> \o EncodeURIComponent(p[2]) \o Prefixed("#", EncodeURIComponent(p[3])), MaxChanges)

uri == uris.uri
Leaves(u) == uris' = [uris EXCEPT !.uri = u, !.calls = @ + 1]
(* A call that makes a URI of this one: the new one is what is gone on     *)
(* with, unless its constructor throws.                                    *)
Makes(s) == \E u \in {Parse(s)} : Leaves(IF u.error THEN uri ELSE u)

New ==
  /\ uris.phase = "start"
  /\ \/ \E s \in Originals : Create(<<>>, s, IF s \in Changed THEN 0 ELSE MaxChanges)
     \/ \E p \in Parts : CreateFromParts(p)

Object == uris.phase = "object" /\ uris.calls < MaxChanges
(* Each setter has one that encodes and one that does not (encodedPath).   *)
Set ==
  /\ Object
  /\ \/ \E s \in Pieces.scheme : Leaves(SetScheme(uri, s))
     \/ \E s \in Pieces.path : Leaves(SetPath(uri, EncodeURI(s))) \/ Leaves(SetPath(uri, s))
     \/ \E s \in Pieces.ssp : Leaves(SetSsp(uri, EncodeURI(s))) \/ Leaves(SetSsp(uri, s))
     \/ \E s \in Pieces.authority : Leaves(SetAuthority(uri, EncodeURI(s))) \/ Leaves(SetAuthority(uri, s))
     \/ \E s \in Pieces.userInfo : Leaves(SetUserInfo(uri, EncodeURIComponent(s))) \/ Leaves(SetUserInfo(uri, s))
     \/ \E s \in Pieces.query : Leaves(SetQuery(uri, EncodeURIComponent(s))) \/ Leaves(SetQuery(uri, s))
     \/ \E s \in Pieces.fragment : Leaves(SetFragment(uri, EncodeURIComponent(s))) \/ Leaves(SetFragment(uri, s))
Make ==
  /\ Object
  /\ \/ \E k \in Names, v \in Contents : Makes(AddQueryValue(uri, EncodeURIComponent(k), EncodeURIComponent(v)))
     \/ \E s \in Segments : \E t \in AddSegment(uri, EncodeURIComponent(s)) \union AddSegment(uri, s) : Makes(t)
     \/ Makes(ClearQuery(uri))
     \/ Makes(Normalize(uri))

Init == uris = [phase |-> "start", made |-> <<>>, uri |-> Absent, calls |-> 0]
Next ==
  \/ New
  \/ Set
  \/ Make

----------------------------------------------------------------------------
TypeOK ==
  /\ uris.phase \in {"start", "object", "failed"} /\ uris.calls \in 0..MaxChanges
  /\ uri.error \in BOOLEAN /\ uri.data = <<>> /\ Len(uri.port) <= 1
  /\ \A f \in DOMAIN Absent \ {"error"} : \A i \in DOMAIN uri[f] : uri[f][i] \in STRING

----------------------------------------------------------------------------
(* What ReadBack does not hold for: what an error has left half done; what *)
(* has no scheme, or neither authority nor path, whose query is then part  *)
(* of an opaque text; a path that is written with a / before it, or read   *)
(* as an authority; an authority with the end of one in it, or before a    *)
(* path that was not checked; and the specific part of what was relative,  *)
(* which does not have the path, whatever scheme is set later.             *)
Unread(u) ==
  \/ u.error \/ u.scheme = <<>>
  \/ u.authority = <<>> /\ u.path = <<>> /\ u.query # <<>>
  \/ u.path # Rooted(u.path)
  \/ u.authority = <<>> /\ At(u.path, 2) = "/"
  \/ u.authority # <<>> /\ ~CheckCharacter(u.path, NotPath)
  \/ ~CheckCharacter(u.authority, {"/", "?", "#"})
  \/ u.path # <<>> /\ u.ssp = Prefixed("?", u.query)

(* After any calls the text of a URI is read as the same URI, and the text *)
(* that toString gives, where no host has a space, as one that shows the   *)
(* same.                                                                   *)
ReadBack ==
  uris.phase = "object" /\ ~Unread(uri) =>
    /\ \A u \in {Parse(uri.input)} : ~u.error /\ Equals(uri, u)
    /\ ~Has(uri.host, " ") => Views(Parse(ToAscii(uri.input))) = Views(uri)

(* The smaller parts are those of the larger ones, and a URI is            *)
(* hierarchical if its specific part begins with /.                        *)
PartsAgree ==
  uris.phase = "object" /\ ~Unread(uri) =>
    /\ IF uri.host # <<>> THEN uri.authority = Authority(uri) ELSE Authority(uri) = <<>>
    /\ uri.authority # <<>> => uri.ssp = UpdateSsp(uri).ssp
    /\ CheckHierarchical(uri) <=> At(uri.ssp, 1) = "/"

(* A normal path has no segment that is empty or ., and .. only where it   *)
(* begins, as often as the given one climbs above where it begins; to      *)
(* normalize it again changes nothing, and the other parts are kept.       *)
Steps(names) == [i \in 0..Len(names) |->
  FoldLeft(LAMBDA d, s : IF s = <<".", ".">> THEN d - 1 ELSE IF s \in {<<>>, <<".">>} THEN d ELSE d + 1, 0, SubSeq(names, 1, i))]
Climb(names) == LET steps == Steps(names) IN CHOOSE c \in 0..Len(names) :
  (\E i \in DOMAIN steps : steps[i] = -c) /\ (\A i \in DOMAIN steps : steps[i] >= -c)
SameBut(n, fields) == \A v \in {Views(n)}, w \in {Views(uri)} : \A f \in DOMAIN v \ fields : v[f] = w[f]
NormalizedOnce ==
  uris.phase = "object" /\ ~Unread(uri) =>
    \A n \in {Parse(Normalize(uri))}, given \in {Split(uri.path, "/")} :
    \A names \in {IF Len(n.path) > 1 THEN Tail(Split(n.path, "/")) ELSE <<>>}, climb \in {Climb(given)} :
      /\ ~n.error /\ Normalize(n) = Normalize(uri)
      /\ Len(names) = Steps(given)[Len(given)] + 2 * climb
      /\ \A i \in DOMAIN names : names[i] \notin {<<>>, <<".">>} /\ (names[i] = <<".", ".">> <=> i <= climb)
      /\ SameBut(n, {"path", "ssp"})

(* addQueryValue adds its one value to those of the name, addSegment its   *)
(* segment behind the others, clearQuery takes the query; none changes any *)
(* thing else.                                                             *)
MadeOfTheRest ==
  uris.phase = "object" /\ ~Unread(uri) /\ Len(uri.authority \o uri.path) > 0 =>
    /\ \A k \in Names, v \in Contents :
         \A n \in {Parse(AddQueryValue(uri, EncodeURIComponent(k), EncodeURIComponent(v)))} :
         /\ ~n.error /\ GetQueryNames(n) \ {<<>>} = GetQueryNames(uri) \union {k}
         /\ <<>> \in GetQueryNames(n) <=> (uri.query # <<>> /\ Last(uri.query) = "&")
         /\ \A m \in GetQueryNames(n) \ {<<>>} :
              /\ GetQueryValues(n, m) = GetQueryValues(uri, m) \o (IF m = k THEN <<v>> ELSE <<>>)
              /\ ~Has(n.query, "+") => GetQueryValue(n, m) = <<Head(GetQueryValues(n, m))>>
         /\ SameBut(n, {"query", "ssp"})
    /\ \A s \in Segments, slash \in {<<>>, <<"/">>} : \A t \in AddSegment(uri, EncodeURIComponent(s) \o slash) :
         \A n \in {Parse(t)} :
         /\ ~n.error /\ GetSegment(n) = Append(GetSegment(uri), s) /\ DecodeSafely(GetLastSegment(n)) = s
         /\ SameBut(n, {"path", "ssp"})
    /\ \A n \in {Parse(ClearQuery(uri))} :
        ~n.error /\ n.query = <<>> /\ SameBut(n, {"query", "ssp"})

(* createFromParts makes a URI that shows the parts, if the scheme is one. *)
PartsAreShown ==
  uris.made # <<>> /\ ~Has(uris.made[1], ":") =>
    IF uris.phase = "failed" THEN uris.made[1] = <<>>
    ELSE <<uri.scheme, Views(uri).ssp, Views(uri).fragment>> = uris.made
=============================================================================
