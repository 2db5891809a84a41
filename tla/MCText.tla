-------------------------------- MODULE MCText --------------------------------
(* The pure functions for TLC: every step picks one algorithm and one input  *)
(* from a small set; the invariants compare what the code computes with a    *)
(* reference definition.                                                     *)
EXTENDS TextAlgorithms, HttpForms, Bcrypt, WsCodec

VARIABLES
  alg,  \* the algorithm whose input was picked, "none" at first
  in    \* that input

Init == alg = "none" /\ in = <<>>

Pick(name, x) == alg' = name /\ in' = x
First == alg = "none"

(* All sequences over S of length m to n. *)
Texts(S, m, n) == UNION {[1..k -> S] : k \in m..n}
------------------------------------------------------------------------------
PickBytes == First /\ \E s \in Texts({0, 1, 77, 128, 255}, 0, 4) : Pick("base64", s)

(* Digits, letters of both cases, signs, control and extended characters;    *)
(* and numbers with leading zeros or too large for UMax = 99.                *)
Strings == Texts({48, 57, 45, 65, 97, -61}, 0, 2) \cup Texts({48, 57}, 3, 3)
           \cup {<<57, 48, 48, 97>>, <<48, 48, 48>>, <<127>>, <<10>>, <<95, 90>>}
PickStrings == First /\ \E a, b \in Strings : Pick("sort", <<a, b>>)
------------------------------------------------------------------------------
Words == {"/", "x", "GET", "POST", "HTTP", "Content-Length", "Cookie", "0", "2", "3", "4", "9"}
Alphabet == {NUL, CR, LF, SP, ":"} \cup Words
ASSUME AlphabetAssumption == NUL \notin Words /\ Garbage \notin Alphabet

Fields == {<<<<"Content-Length">>, <<n>>, blanks>> :
             n \in {"0", "2", "3", "4", "9"}, blanks \in {<<>>, <<SP, SP>>}}
          \cup {<<<<"Cookie">>, <<"x", ":", "x">>, <<>>>>}
Requests ==
  [method : {<<"GET">>, <<"POST">>}, path : {<<"/">>, <<"/", "x", SP, "x">>},
   protocol : {<<"HTTP">>}, header : Texts(Fields, 0, 2), eol : {<<CR, LF>>, <<LF>>}]
(* Buffers as malloc() and as earlier requests may leave them.               *)
Stales == {[i \in 1..Size |-> NUL],
           [i \in 1..Size |-> LF],
           [i \in 1..Size |-> IF i % 5 = 0 THEN LF ELSE "x"]}

PickRequest ==
  First /\ \E q \in Requests, stale \in Stales,
              body \in Texts({"x", LF}, 0, 1) \cup
                      {<<"x", "x", "x">>, <<"x", LF, "x", "x", "x">>} :
    Pick("request", [q |-> q, body |-> body, stale |-> stale])

(* The same cut short, and what two of its letters may be instead.           *)
PickRead ==
  First /\ \E q \in {r \in Requests : Len(r.header) = 1 /\ Len(r.path) = 1},
              body \in {<<>>, <<"x", "x", "x">>}, short \in {0, 1, 9} :
     LET sent == Written(q) \o body
     IN  \E n \in 1..Len(sent), c \in {LF, CR, NUL, SP} :
           Pick("read", [sent |-> [sent EXCEPT ![n] = c], short |-> short])
PickCut ==
  First /\ \E q \in {r \in Requests : Len(r.header) < 2} :
     \E n \in 1..Len(Written(q)) :
       Pick("read", [sent |-> SubSeq(Written(q), 1, n), short |-> 9])
Nread(sent) == IF Len(sent) < Size THEN Len(sent) ELSE Size
------------------------------------------------------------------------------
FormLetters == {"&", "=", "?", "a", "b", NUL}
ASSUME NullTextAssumption == Null \notin Seq(FormLetters \cup {"/"})
PickForm == First /\ \E s \in Texts(FormLetters, 0, 5) : Pick("form", s)
PickPost == First /\ \E s \in Texts({0, 1, 2, 3}, 0, 6) : Pick("post", s)
PickPostTexts ==
  First /\ \E t \in Texts({<<>>, <<1>>, <<0, 2>>, [i \in 1..256 |-> 3]}, 0, 3) :
    Pick("fields", t)

Value(S, n) == {C(s) : s \in Texts(S, 0, n)}
PickAccept ==
  First /\ \E v \in {<<x>> : x \in Value({"gzip", "br", ";", "q", "=", "0.5", ",", " "}, 5)}
           \cup {<<C(<<"br">>), C(<<"gzip", ";", "q", "=", x>>)>> : x \in {"0", "0.5", "1", "br"}}
           \cup {<<C(<<"gzip", ";", "q", "=", x, ",", "br">>), C(<<"gzip">>)>> : x \in {"0", "0.5"}}
           \cup {<<C(<<" ", "gzip", " ", ";", " ", "q", " ", "=", " ", "0.5">>)>>} :
    Pick("accept", v)
PickList ==
  First /\ \E v \in Texts({"Upgrade", "close", ",", SP}, 0, 6), b \in {<<>>, <<"Upgrade">>} :
    Pick("list", [value |-> v, beyond |-> b])
PickHandshake ==
  First /\ \E S \in SUBSET {<<"Upgrade">>, <<"Connection">>, <<"Origin">>,
                            <<"Sec-WebSocket-Version">>, <<"Sec-WebSocket-Protocol">>,
                            <<"Sec-WebSocket-Key">>},
              twice \in {<<"Connection">>, <<"Origin">>} :
    Pick("handshake", [names |-> S, twice |-> twice])
PickPath == First /\ \E s \in Texts({"a", ".", "/", "%"}, 0, 6) : Pick("path", s)
MimeLetters == {"a", "b", " ", CR, LF, "#"}
ASSUME TableAssumption == NUL \notin MimeLetters
PickMimes == First /\ \E s \in Texts(MimeLetters, 0, 5) : Pick("mimes", s)
------------------------------------------------------------------------------
PickFrame ==
  First /\ \E opcode \in {TEXT, CLOSE, PONG}, x \in {0, 129},
              mask \in {<<0, 0, 0, 0>>, <<255, 255, 255, 255>>, <<0, 255, 7, 128>>} :
    LET behind == [i \in 1..14 |-> x]
    IN  \/ \E payload \in Texts({0, 255, 66}, 0, 3), form \in {7, 16, 64} :
             Pick("frame", <<opcode, payload, mask, form, behind>>)
        \/ \E n \in {126, 255, 256, 300}, form \in {16, 64} :
             Pick("frame", <<opcode, [i \in 1..n |-> i % 256], mask, form, behind>>)
PickReply ==
  First /\ \E n \in {0, 1, 4, 125, 126, 127, 128, 255, 256, 257, 290}, opcode \in {TEXT, PING} :
    Pick("reply", <<opcode, [i \in 1..n |-> i % 256], 300>>)
------------------------------------------------------------------------------
Keys == Texts({1, 163, 255}, 0, 3)
        \cup {<<255, 163, 51, 52, 255>>, <<1, 1, 1, 1, 1, 1, 1, 163>>, <<255, 255, 163, 52>>,
              <<163, 52>>, <<52, 163>>, <<255, 52, 163, 52>>, <<1, 255, 255, 255, 163>>}
Random16 == {[i \in 1..16 |-> 0], [i \in 1..16 |-> 255], [i \in 1..16 |-> (37 * i) % 256]}
PickPasswords ==
  First /\ \E a \in Keys, rand \in Random16, work \in {0, 12},
              b \in Texts({1, 163}, 0, 3) \cup {<<1, 1, 1, 1, 1, 1, 1, 1, 163>>} :
    Pick("passwords", [a |-> a, b |-> b, rand |-> rand, work |-> work])
PickKeys == First /\ \E a, b \in Keys : Pick("keys", <<a, b>>)
PickSetting ==
  First /\ \E prefix \in {"$2", "*0", "*1", "$1"}, t \in {"a", "b", "c", "x", "y"},
              cost \in {3, 4, 31, 32}, size \in {2, 3, 60, 61},
              salt \in {[i \in 1..22 |-> 5], [i \in 1..22 |-> 63],
                       [i \in 1..22 |-> IF i = 9 THEN NoLetter ELSE 1]} :
    Pick("setting",
         [setting |-> [prefix |-> prefix, subtype |-> t, cost |-> cost,
                       salt |-> salt, hash |-> NULL],
          size |-> size])

Next ==
  \/ PickBytes \/ PickStrings
  \/ PickRequest \/ PickRead \/ PickCut
  \/ PickForm \/ PickPost \/ PickPostTexts \/ PickAccept \/ PickList \/ PickHandshake
  \/ PickPath \/ PickMimes
  \/ PickFrame \/ PickReply
  \/ PickPasswords \/ PickKeys \/ PickSetting

Spec == Init /\ [][Next]_<<alg, in>>
------------------------------------------------------------------------------
(* Base64Exact: base64_decode() gives back the bytes that base64_encode()     *)
(* took, followed by a zero for each '='.                                    *)
Base64Exact == alg = "base64" => Base64RoundTrip(in)

(* SortOrder: std::sort() may be given lex_str_less.                         *)
SortOrder == alg = "sort" => StrictWeakOrder(in[1], in[2], Strings, 99)

(* RequestsRead: http::request reads what a client wrote.                    *)
RequestsRead == alg = "request" => ReadAsWritten(in.q, in.body, in.stale)

(* StaleHarmless: the scan of a header that was read whole never meets what  *)
(* an earlier request left in the worker's buffer.                           *)
StaleHarmless ==
  alg = "read" => StaleIgnored(in.sent, Nread(in.sent), in.short, Stales)

(* BodiesAccounted: a request that fills the buffer is refused properly, or  *)
(* a second buffer is allocated as long as its body, and only a short second *)
(* read leaves a part of that unfilled.                                      *)
BodiesAccounted == alg = "read" /\ Len(in.sent) >= Size => BodyAccounted(in.sent, in.short)

(* FormsRead: form_data and post_form_data() give back the pieces sent.      *)
FormsRead ==
  /\ alg = "form" => FormAsPieces(in)
  /\ alg = "post" => PostFormExact(in, <<<<1>>, <<2>>>>)
  /\ alg = "fields" => PostFormRoundTrip(in)

(* HeaderListsSearched: qvalue() and the checks of the handshake read the    *)
(* comma-separated values of a header as lists.                              *)
HeaderListsSearched ==
  /\ alg = "accept" => QvalueOfFirst(in, <<"gzip">>)
  /\ alg = "list" => ListSearched(in.value, <<"Upgrade">>, in.beyond)
  /\ alg = "handshake" => HandshakeChecked(in.names, in.twice)

(* PathsInside: the GET handler opens nothing above files/.                  *)
PathsInside == alg = "path" => PathStaysInside(in)

(* MimesRead: the MIME table has the lines of its file.                      *)
MimesRead == alg = "mimes" => MimesOfLines(in)

(* FramesUnderstood: parse_frame() understands a peer's frames, and a peer   *)
(* those of send_frame() up to 125 bytes, which all that the server sends    *)
(* are; a longer one only if its length reads the same in both byte orders.  *)
FramesUnderstood ==
  /\ alg = "frame" => FrameUnderstood(in[1], in[2], in[3], in[4], in[5])
  /\ alg = "reply" => ReplyUnderstood(in[1], in[2], in[3])

(* PasswordsTold: bcrypt_check() accepts the password that bcrypt_hash()     *)
(* was given and no other.                                                   *)
PasswordsTold == alg = "passwords" => HashTellsPasswords(in.a, in.b, in.rand, in.work)

(* SafetyMeasured: hashes of the correct and of the buggy algorithm stay     *)
(* apart.                                                                    *)
SafetyMeasured == alg = "keys" => SafetyMeasure(in[1], in[2])

(* FailuresNeverMatch: a failing crypt() never returns the stored hash.      *)
FailuresNeverMatch ==
  alg = "setting" => FailureNeverMatches(<<1>>, in.setting, in.size)
==============================================================================
