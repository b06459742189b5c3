----------------------------- MODULE UriInputs ------------------------------
(***************************************************************************)
(* The texts with which Uris is model-checked, beside those of UrlInputs.  *)
(***************************************************************************)
EXTENDS UrlInputs

TooLarge == {"9999999999"}
HostsOfUris == {<<>>, <<"host">>, <<"host", ".", "c">>, <<"host", ".", "1">>, <<"1", ".", "2", ".", "3", ".", "4">>,
  <<"[", ":", ":", "1", "]">>, <<"[", "1", ":", "2", "]">>, <<"[", "1">>, <<"1", "]">>, <<"a", " ", "b">>, <<"a", "&">>, <<"%20">>}
Users == {<<>>, <<"u", "@">>, <<"u", ":", "%40", "@">>, <<"u", "@", "v", "@">>, <<"a", "?", "@">>}
Ports == {<<>>, <<":", "80">>, <<":">>, <<":", "9999999999">>, <<":", "0x10">>, <<":", "1", "%20">>}
OfAuthorities == {u \o h \o p : u \in Users, h \in HostsOfUris, p \in Ports}
Changed == {
  <<"http", ":", "/", "/", "u", "@", "host", ":", "80", "/", "a", "/", "b", "?", "a", "=", "1", "&", "b", "#", "f">>,
  <<"http", ":", "/", "/", "[", ":", ":", "1", "]", "?", "a", "[", "1", "]">>,
  <<"foo", ":", "/", "a", "%2F", "b", "/", ".", ".", "/", "/", ".", "/">>,
  <<"foo", ":", "x", "%20", "?", "a">>, <<"a", "/", "b", "?", "a", "=", "1", "+", "1">>, <<"/", "a", "?", "a">>, <<"?", "a">>}
Originals == Changed \union {<<"c", ":", "/", "/">> \o a \o p : a \in OfAuthorities, p \in {<<>>, <<"/", "a">>}}
  \union {s \o p \o r : s \in {<<>>, <<"foo", ":">>, <<"1", ":">>, <<"a", "%20", ":">>, <<"a", "+", ":">>},
                      p \in {<<>>, <<"x">>, <<"/">>, <<"/", ".", ".", "/", "x", "/", ".", ".", "/", ".", ".">>, <<"/", "x", "/", "y">>, <<".", ".", "/", "x">>, <<"x", "/", "y", ":", "z">>,
                              <<"/", "^">>, <<"x", " ", "^">>},
                      r \in {<<>>, <<"?">>, <<"?", "a", "#", "b">>, <<"#", "b", "?">>, <<"#", "b", "#">>, <<"?", "^">>}}
Pieces == [scheme |-> {<<"https">>, <<"foo", ":", "x">>, <<"1">>},
  path |-> {<<>>, <<"/", "p", " ">>, <<"p", "/", ".", ".", "/", ".", ".">>, <<"/", "/", "p">>, <<"p", "?">>},
  ssp |-> {<<>>, <<"/", "/", "h", ":", "1", "/", "p", "?", "q", "=", "+">>, <<"/", "p", "^">>, <<"x", "?", "q">>, <<"/", "/", "h", "?", "^">>},
  authority |-> {<<>>, <<"v", "@", "h", ":", "1">>, <<"[", "1">>, <<"h", ":", "%">>, <<"h", "/">>, <<"v", "@", "a", " ", "b">>, <<"[", ":", ":", "1", "]">>},
  userInfo |-> {<<>>, <<"v", ":", "w">>, <<"v", "@">>}, query |-> {<<>>, <<"q", "=", "1">>, <<"q", "#">>},
  fragment |-> {<<>>, <<"g", " ">>, <<"g", "^">>}]
Parts == {<<<<"foo">>, s, f>> : s \in {<<"a", ":", "b">>, <<"/", "/", "h", "?", "q">>, <<"a", "[", "1", "]">>, <<"%">>}, f \in {<<>>, <<"f", "#", "^">>}}
  \union {<<<<>>, <<"a">>, <<>>>>, <<<<"foo", ":", "x">>, <<"a">>, <<>>>>}
Segments == {<<"s">>, <<"s", "/", "t">>, <<".", ".">>}
QueryNames == {<<"a">>, <<"q", "&">>}
Contents == {<<"1">>, <<"a", "=", "+">>}
=============================================================================
