----------------------------- MODULE UrlInputs ------------------------------
(***************************************************************************)
(* The texts with which Urls is model-checked: every way of writing the    *)
(* parts that its code tells apart, and texts in which they meet.          *)
(***************************************************************************)
EXTENDS Integers, Sequences, TLC

Literals == "0" :> 0 @@ "1" :> 1 @@ "2" :> 2 @@ "3" :> 3 @@ "4" :> 4 @@ "8" :> 8 @@ "010" :> 8 @@ "16" :> 16
  @@ "0x10" :> 16 @@ "80" :> 80 @@ "255" :> 255 @@ "256" :> 256 @@ "443" :> 443 @@ "8080" :> 8080 @@ "65536" :> 65536
  @@ "16777217" :> 16777217 @@ "123456789" :> 123456789
Groups == "0" :> 0 @@ "0000" :> 0 @@ "1" :> 1 @@ "00AB" :> 171 @@ "ab" :> 171 @@ "102" :> 258 @@ "304" :> 772
Lower == "HTTP" :> "http" @@ "Host" :> "host"
Letters == {"c"}

(* Numbers of one to five labels; addresses with zeros at all places.      *)
Labels == {"0", "1", "255", "0x10", "010", "256", "65536", "16777217", "123456789", "host", "Host"}
Label(w) == IF w = "" THEN <<>> ELSE <<w>>
Colons(f) == <<f[1], ":", f[2], ":", f[3], ":", f[4], ":", f[5], ":", f[6], ":", f[7], ":", f[8]>>
Ends == {<<>>, <<"0">>, <<"1">>, <<"00AB">>, <<"0000", ":", "1">>, <<"1", ":", "0", ":", "0", ":", "1", ":", "0">>}
Hosts == {<<"[">> \o a \o <<"]">> : a \in
            {Colons(f) : f \in [1..8 -> {"0", "1"}]} \union {a \o <<":", ":">> \o b : a, b \in Ends}
            \union {<<":", ":", "1", ".", "2", ".", "3", ".", "4">>, <<":", ":", ":">>, <<"1", ":", "2">>,
                    <<"1", ":", "0", ":", "0", ":", "0", ":", "0", ":", "1", ":", "0", ".", "0", ".", "0", ".", "1">>}}
  \union {<<a>> : a \in Labels} \union {<<a, ".">> \o Label(b) : a \in Labels, b \in Labels \union {""}}
  \union {<<a, ".", b, ".", c>> : a, b, c \in {"0", "1", "256", "65536"}}
  \union {<<a, ".", b, ".", c, ".", d>> : a, b, c, d \in {"0", "1", "256"}}
  \union {<<"1", ".", "1", ".", "1", ".", "1", ".", "1">>, <<".">>, <<"1", ".", ".">>, <<"1", ".", ".", "2">>,
          <<"1", ".", "%2e">>, <<"host", " ">>, <<"host", "%20">>, <<"[", "1">>}

Schemes == {<<"http", ":">>, <<"HTTP", ":">>, <<"file", ":">>, <<"foo", ":">>, <<"c", ":">>}
Roots == {<<>>, <<"/">>, <<"/", "/">>, <<"/", "/", "/">>, <<"\\", "\\">>}
Authorities == {<<>>, <<"host">>, <<"u", "@", "host">>, <<"u", ":", "p", "@", "host", ":", "8080">>,
  <<":", "p", "@", "u", "@", "host">>, <<"host", ":", "80">>, <<"[", ":", ":", "1", "]", ":", "1">>, <<"0x10">>,
  <<"c", ":">>, <<"host", ":">>, <<"host", ":", "65536">>, <<"1", ".", ".", ":", "65536">>, <<"a", " ", "b">>}
Paths == {<<>>, <<"/">>, <<"/", "a">>, <<"/", "a", "/", ".", ".", "/", "b">>, <<"/", ".", "/", " ", "/", ".", ".">>,
  <<"\\", "a", "/", "b", "\\", ".">>, <<"/", "a", "/", "/", "^", "%2e", "%2e">>}
Rests == {<<>>, <<"?", "a", "=", "b", " ", "&", "b", "#", "f", " ">>, <<"?">>, <<"#">>, <<"#", "a", "?", "b">>}
Edited == {
  <<"http", ":", "/", "/", "host", "/", "a", "?", "a", "=", "b", " ", "&", "b", "#", "f">>,
  <<"https", ":", "/", "/", "u", ":", "p", "@", "host", ":", "80", "/">>,
  <<"http", ":", "/", "/", "[", ":", ":", "1", "]", ":", "8080">>,
  <<"file", ":", "/", "/", "host", "/", "c", ":", "/", "x">>, <<"foo", ":", "x", "y">>}
Texts == Edited \union {s \o r \o a \o p : s \in Schemes, r \in Roots, a \in Authorities, p \in {<<>>, <<"/", "a">>}}
  \union {s \o <<"/", "/", "host">> \o p \o t : s \in Schemes, p \in Paths, t \in Rests}

Bases == {<<"http", ":", "/", "/", "u", "@", "host", ":", "8080", "/", "a", "/", "b", "?", "q", "#", "f">>,
          <<"file", ":", "/", "/", "/", "c", ":">>, <<"foo", ":", "x">>, <<"x">>}
References == {<<>>, <<"x">>, <<"/", "x">>, <<".", ".", "/", "x">>, <<"a", "/", ".", "/", "x">>, <<".">>, <<".", ".">>,
               <<"?", "x">>, <<"#", "x">>, <<"/", "/", "x">>, <<"http", ":">>}
Inputs == [protocol |-> {<<"https", ":">>, <<"file", ":">>, <<"foo", ":">>}, username |-> {<<>>, <<"u", "@", " ">>},
  password |-> {<<>>, <<"u", "@", " ">>}, hash |-> {<<"h", "^">>, <<>>, <<"#">>},
  hostname |-> {<<"x">>, <<"x", ":", "1">>, <<"1", ".", ".", "2">>, <<"localhost">>, <<"[", ":", ":", "1", "]">>},
  host |-> {<<"x", ":", "80">>, <<"y">>}, port |-> {<<"80">>, <<"8080", "/">>, <<"65536">>},
  pathname |-> {<<"p", " ">>, <<"/", "p", ".", ".", "/", ".", ".">>, <<".">>, <<"a", "?">>},
  href |-> {<<"http", ":", "x">>, <<"x">>}, search |-> {<<>>, <<"?">>, <<"a", "=", "1", "#">>, <<"?", "a", "&", "&", "b", "=", "2", "&">>}]
Keys == {<<>>, <<"a">>, <<"a", " ", "b">>, <<"b">>}
Order == <<" ", "1", "2", "=", "a", "b", "q", "x">>
Values == {<<"1">>, <<"a", "&", "=">>}
=============================================================================
