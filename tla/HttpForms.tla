------------------------------ MODULE HttpForms ------------------------------
(***************************************************************************)
(* What the handlers do with the text of a request: form_data, qvalue(),    *)
(* post_form_data(), the check of a file's path in src/myserver.cc, the     *)
(* lists in the headers of websocket::handshake(), and the MIME table that  *)
(* src/server/http.cc reads at its start.  Texts are sequences of letters   *)
(* (characters, or words where only whole words are compared); a C string   *)
(* is one that ends in its only NUL.                                        *)
(***************************************************************************)
EXTENDS HttpRequest

CONSTANT
  Null      \* a null pointer, and "nothing found"
ASSUME SeparatorAssumption == NUL \notin {"?", "&", "=", "#", "\t"}

C(s) == Append(s, NUL)

(* strspn() and strcspn() from position i of the C string s. *)
Span(s, i, S)  == SelectInSubSeq(s, i, Len(s), LAMBDA c : c \notin S)
CSpan(s, i, S) == SelectInSubSeq(s, i, Len(s), LAMBDA c : c \in S \cup {NUL})
------------------------------------------------------------------------------
(* params[key] makes an entry with a null value if there is none.           *)
Touch(params, key) ==
  [k \in DOMAIN params \cup {key} |-> IF k \in DOMAIN params THEN params[k] ELSE Null]
Assign(params, key, value) ==
  [k \in DOMAIN params \cup {key} |-> IF k = key THEN value ELSE params[k]]

(* A slip to compare with: every '=' separates, not only the first one.     *)
FormLetterEveryEquals(st, c) ==
  IF c = "=" THEN [st EXCEPT !.params = Touch(@, st.a), !.val = st.a, !.a = <<>>]
  ELSE IF c \in {"&", NUL}
       THEN [st EXCEPT !.params = IF st.val = Null THEN Touch(@, st.a)
                                  ELSE Assign(@, st.val, st.a),
                       !.val = Null, !.a = <<>>]
  ELSE [st EXCEPT !.a = Append(@, c)]

(* One turn of the loop: a is the text since the last separator, val the    *)
(* key whose value it will be.                                              *)
FormLetter(st, c) ==
  IF c = "=" /\ st.val = Null
  THEN [st EXCEPT !.params = Touch(@, st.a), !.val = st.a, !.a = <<>>]
  ELSE IF c \in {"&", NUL}
       THEN [st EXCEPT !.params = IF st.val = Null THEN Touch(@, st.a)
                                  ELSE Assign(@, st.val, st.a),
                       !.val = Null, !.a = <<>>]
  ELSE [st EXCEPT !.a = Append(@, c)]

(* The loop over a C string. *)
FormTurns(t) ==
  LET After[n \in 0..Len(t)] ==
        IF n = 0 THEN [params |-> <<>>, val |-> Null, a |-> <<>>]
        ELSE FormLetter(After[n - 1], t[n])
  IN  After[Len(t)].params

(* form_data(str, q): with q the parameters begin after a '?', if any.      *)
FormData(str, q) ==
  LET s    == CString(str, 1)
      mark == SelectInSeq(s, LAMBDA c : c = "?")
      from == IF q THEN mark + 1 ELSE 1
  IN  IF q /\ mark = 0 THEN <<>> ELSE FormTurns(C(SubSeq(s, from, Len(s))))

(* get_params().path() *)
FormPath(str) ==
  SubSeq(CString(str, 1), 1, CSpan(C(CString(str, 1)), 1, {"?"}) - 1)
------------------------------------------------------------------------------
Blank == {" ", "\t"}

(* The value of `; q = value' from its semicolon on, in tenths. *)
Weight(s, semicolon) ==
  LET q == Span(s, semicolon + 1, Blank)
      e == Span(s, q + 1, Blank)
      v == Span(s, e + 1, Blank)
      atof == [x \in {"0", "0.5", "1"} |-> CASE x = "0" -> 0 [] x = "0.5" -> 5 [] x = "1" -> 10]
  IN  IF s[q] # "q" THEN 10 ELSE IF s[e] # "=" THEN 10
      ELSE IF s[v] \in {NUL, ","} THEN 10
      ELSE IF s[v] \in DOMAIN atof THEN atof[s[v]] ELSE 0

(* The elements of one header value, from position a on: each up to the     *)
(* next comma, its name up to the last semicolon and without blanks around. *)
(* The first whose name is `value' decides.                                 *)
QvalueIn(s, value) ==
  LET From[i \in 1..Len(s)] ==
        LET a  == Span(s, i, Blank)
            b  == CSpan(s, a, {","})
            q  == SelectLastInSubSeq(s, a, b - 1, LAMBDA c : c = ";")
            b2 == IF q = 0 THEN b ELSE q
            z  == SelectLastInSubSeq(s, a, b2 - 1, LAMBDA c : c \notin Blank)
        IN  IF b2 > a /\ SubSeq(s, a, z) = value
            THEN IF q = 0 THEN 10 ELSE Weight(s, q)
            ELSE IF s[b] = NUL THEN Null ELSE From[b + 1]
  IN  IF s[1] = NUL THEN Null ELSE From[1]

(* A slip to compare with: an element of weight 0 is passed over.           *)
QvaluePositive(values, value) ==
  FoldLeft(LAMBDA r, v : IF r # Null /\ r # 0 THEN r ELSE QvalueIn(v, value), Null, values)

(* qvalue() over the values of a field, in order. *)
Qvalue(values, value) ==
  LET r == FoldLeft(LAMBDA found, v : IF found # Null THEN found ELSE QvalueIn(v, value),
                    Null, values)
  IN  IF r = Null THEN 0 ELSE r
------------------------------------------------------------------------------
(* post_form_data(f): bytes, each text preceded by its length in two bytes  *)
(* and followed by a zero.  A length cut off at the end of the data is      *)
(* completed by the byte behind it, and is too large whatever that is.      *)
PostFields(data) ==
  LET From[p \in 1..(Len(data) + 1)] ==
        LET len == 256 * data[p] + data[p + 1]
            end == p + 2 + len
        IN  IF p = Len(data) + 1 THEN <<>>
            ELSE IF p = Len(data) THEN <<Null>>
            ELSE IF end > Len(data) THEN <<Null>>
            ELSE IF data[end] # 0 THEN <<Null>>
            ELSE <<SubSeq(data, p + 2, end - 1)>> \o From[end + 1]
  IN  From[1]

(* The exceptions it throws are a Null at the end. *)
FormRefused(fields) == fields # <<>> /\ Last(fields) = Null

(* post_form_data(field...): names and values alternate, an unknown name is *)
(* refused, the last value of a name counts, and a name without a value at  *)
(* the end is ignored.                                                      *)
PostNamed(data, fields) ==
  LET t == PostFields(data)
      names == {i \in DOMAIN t : i % 2 = 1}
      of(f) == {i \in names : t[i] = f /\ i < Len(t)}
  IN  IF FormRefused(t) \/ \E i \in names : t[i] \notin Range(fields) THEN Refused(400)
      ELSE [status |-> 200, values |-> [k \in DOMAIN fields |->
              IF of(fields[k]) = {} THEN <<>>
              ELSE t[1 + CHOOSE i \in of(fields[k]) : \A j \in of(fields[k]) : j <= i]]]
------------------------------------------------------------------------------
(* The characters that a path may have, of which some stand for many; and   *)
(* one that it may not.                                                     *)
PathChars == {"a", "A", "0", "_", "-", ".", "/"}
ASSUME NulAssumption == NUL \notin PathChars \cup {"%"}

(* A slip to compare with: a component at the very start is not looked at.  *)
AllowedPathInner(path) ==
  /\ \A i \in DOMAIN path : path[i] \in PathChars
  /\ \A i \in DOMAIN path : path[i] = "." /\ i > 1 /\ path[i - 1] = "/" =>
       C(path)[Span(C(path), i, {"."})] \notin {"/", NUL}

(* The loop over the path: its characters, and no component of dots alone.  *)
AllowedPath(path) ==
  /\ \A i \in DOMAIN path : path[i] \in PathChars
  /\ \A i \in DOMAIN path : path[i] = "." /\ (i = 1 \/ path[i - 1] = "/") =>
       C(path)[Span(C(path), i, {"."})] \notin {"/", NUL}
------------------------------------------------------------------------------
(* check_header(name, x): is x an element of some value's list?  After a    *)
(* comma and the blanks behind it the loop steps once more before it looks: *)
(* the first character of an element is never taken for its end, and behind *)
(* a comma at the end of the value the scan goes on (beyond is what it      *)
(* finds there, up to the next NUL).                                        *)
ListHas(value, x, beyond) ==
  LET s == C(value) \o C(beyond)
      From[a \in 1..Len(s), b \in 1..Len(s)] ==
        IF s[b] \notin {",", NUL} THEN From[a, b + 1]
        ELSE IF SubSeq(s, a, b - 1) = x THEN TRUE
        ELSE IF s[b] = NUL THEN FALSE
        ELSE LET n == Span(s, b + 1, {SP})
             IN  IF n = Len(s) THEN FALSE ELSE From[n, n + 1]
  IN  From[1, 1]

(* websocket::handshake(): 101, or the first complaint. *)
Handshake(header, beyond) ==
  LET has(name, x) == \E i \in DOMAIN Values(header, name) :
                        ListHas(Values(header, name)[i], x, beyond)
      one(name) == Len(Values(header, name)) = 1
  IN  IF /\ has(<<"Upgrade">>, <<"websocket">>)
         /\ has(<<"Connection">>, <<"Upgrade">>)
         /\ one(<<"Sec-WebSocket-Version">>)
         /\ one(<<"Origin">>)
         /\ one(<<"Sec-WebSocket-Protocol">>)
         /\ one(<<"Sec-WebSocket-Key">>)
      THEN [status |-> 101] ELSE Refused(400)
------------------------------------------------------------------------------
EndOfLine == {CR, LF}

(* A slip to compare with: a value keeps the blanks at the end of its line. *)
MimesUntrimmed(text) ==
  LET s == C(text)
      From[i \in 1..Len(s)] ==
        LET a == Span(s, i, Blank \cup EndOfLine)
            b == CSpan(s, a, Blank \cup EndOfLine)
            v == Span(s, b + 1, Blank)
            z == CSpan(s, v, EndOfLine)
        IN  IF s[a] = NUL \/ s[z] = NUL THEN <<>>
            ELSE IF s[b] \in EndOfLine \/ s[v] \in EndOfLine THEN <<"error">>
            ELSE <<<<SubSeq(s, a, b - 1), SubSeq(s, v, z - 1)>>>> \o From[z + 1]
  IN  From[1]

(* The constructor of mimes_dict over the file's text: <<key, value>> per   *)
(* line, before they are sorted by their keys, "error" where it throws,     *)
(* "loops" where it stays.  After a comment it goes on at the comment's     *)
(* last character, and a last line without its end of line is left out.     *)
MimesOf(text) ==
  LET s == C(text)
      From[i \in 1..Len(s)] ==
        LET a  == Span(s, i, Blank \cup EndOfLine)
            c  == CSpan(s, a + 1, {LF}) - 1
            b  == CSpan(s, a, Blank \cup EndOfLine)
            v  == Span(s, b + 1, Blank)
            z  == CSpan(s, v, EndOfLine)
            e  == 1 + SelectLastInSubSeq(s, v, z - 1, LAMBDA x : x \notin Blank)
        IN  IF s[a] = NUL THEN <<>>
            ELSE IF s[a] = "#" THEN IF c = a THEN <<"loops">> ELSE From[c]
            ELSE IF s[b] \in EndOfLine \cup {NUL} THEN <<"error">>
            ELSE IF s[v] \in EndOfLine \cup {NUL} THEN <<"error">>
            ELSE IF s[e] = NUL THEN <<>>
            ELSE <<<<SubSeq(s, a, b - 1), SubSeq(s, v, e - 1)>>>> \o From[e + 1]
  IN  From[1]
------------------------------------------------------------------------------
(* Reference definitions. *)

(* The longest pieces of s without the letter c, in order. *)
PieceEnd(s, i, c) == Min({j \in i..(Len(s) + 1) : j = Len(s) + 1 \/ s[j] = c})
Piece(s, i, c) == SubSeq(s, i, PieceEnd(s, i, c) - 1)
Split(s, c) ==
  LET From[i \in 1..(Len(s) + 1)] ==
        <<Piece(s, i, c)>> \o
          IF PieceEnd(s, i, c) > Len(s) THEN <<>> ELSE From[PieceEnd(s, i, c) + 1]
  IN  From[1]

Trim(s) ==
  LET ink == {i \in DOMAIN s : s[i] \notin Blank}
  IN  IF ink = {} THEN <<>>
      ELSE SubSeq(s, CHOOSE i \in ink : \A j \in ink : i <= j,
                     CHOOSE i \in ink : \A j \in ink : j <= i)

KeyOf(piece) ==
  LET e == SelectInSeq(piece, LAMBDA c : c = "=")
  IN  IF e = 0 THEN [key |-> piece, value |-> Null]
      ELSE [key |-> SubSeq(piece, 1, e - 1), value |-> SubSeq(piece, e + 1, Len(piece))]

(* form_data reads key=value pieces separated by '&': every key is there, a *)
(* value may itself hold '=', the last value of a key counts, and a later   *)
(* piece without a value does not take one away.  What stands behind the    *)
(* '?' of a path is read the same way, and path() is what stands before.    *)
FormAsPieces(str) ==
  LET s == CString(str, 1)
      p == [i \in DOMAIN Split(s, "&") |-> KeyOf(Split(s, "&")[i])]
      f == FormData(str, FALSE)
      last(k) == SelectLastInSeq(p, LAMBDA x : x.key = k /\ x.value # Null)
  IN  /\ DOMAIN f = {p[i].key : i \in DOMAIN p}
      /\ \A k \in DOMAIN f :
           f[k] = IF last(k) = 0 THEN Null ELSE p[last(k)].value
      /\ FormData(<<"/", "a", "?">> \o str, TRUE) = f
      /\ FormPath(<<"/", "a", "?">> \o str) = <<"/", "a">>

(* With at most one parameter per element, qvalue() is the weight of the    *)
(* first element of that name: an explicit weight of 0 is final, and an     *)
(* element without a weight has 1.                                          *)
QvalueOfFirst(values, value) ==
  LET elements == FlattenSeq([i \in DOMAIN values |->
                    Split(SubSeq(values[i], 1, Len(values[i]) - 1), ",")])
      parts(e) == [k \in DOMAIN Split(e, ";") |-> Trim(Split(e, ";")[k])]
      first    == SelectInSeq(elements, LAMBDA e : parts(e)[1] = value)
      weight   == LET p == parts(elements[first])
                  IN  IF Len(p) = 1 THEN 10
                      ELSE CASE p[2] = <<"q", "=", "0">> -> 0
                             [] p[2] = <<"q", "=", "0.5">> -> 5
                             [] OTHER -> Qvalue(values, value)
  IN  (\A i \in DOMAIN elements : Len(parts(elements[i])) <= 2) =>
        Qvalue(values, value) = IF first = 0 THEN 0 ELSE weight

Encoded(fields) ==
  FlattenSeq([i \in DOMAIN fields |->
    <<Len(fields[i]) \div 256, Len(fields[i]) % 256>> \o fields[i] \o <<0>>])

(* post_form_data() accepts exactly what encodes some texts, and gives them *)
(* back; the named form gives each field the value sent last.               *)
PostFormExact(data, fields) ==
  LET t == PostFields(data)
      r == PostNamed(data, fields)
  IN  /\ ~FormRefused(t) => Encoded(t) = data
      /\ r.status = 200 =>
           \A k \in DOMAIN fields : r.values[k] # <<>> =>
             \E i \in DOMAIN t : i % 2 = 0 /\ t[i] = r.values[k] /\ t[i - 1] = fields[k]
PostFormRoundTrip(texts) ==
  /\ PostFields(Encoded(texts)) = texts
  /\ \A n \in 1..(Len(Encoded(texts)) - 1) :
       LET cut == SubSeq(Encoded(texts), 1, n)
       IN  FormRefused(PostFields(cut)) \/ \E i \in DOMAIN texts :
             cut = Encoded(SubSeq(texts, 1, i))

(* The components of an accepted path never lead out of files/, no matter   *)
(* how many are empty; and only a component of dots, or a character outside *)
(* the list, makes a path refused.                                          *)
PathStaysInside(path) ==
  LET parts == Split(path, "/")
      up(n)   == Cardinality({i \in 1..n : parts[i] = <<".", ".">>})
      down(n) == Cardinality({i \in 1..n : parts[i] \notin {<<>>, <<".">>, <<".", ".">>}})
  IN  /\ AllowedPath(path) => \A n \in DOMAIN parts : up(n) <= down(n)
      /\ AllowedPath(path) <=>
           /\ "%" \notin Range(path)
           /\ \A n \in DOMAIN parts : parts[n] # <<>> => Range(parts[n]) # {"."}

(* A header list without empty elements, blanks before commas or a comma at *)
(* its end is searched as such; so are several headers of one name.         *)
ListSearched(value, x, beyond) ==
  LET parts == Split(value, ",")
  IN  (\A n \in DOMAIN parts : parts[n] # <<>> /\ Last(parts[n]) # SP
                               /\ (n > 1 => Trim(parts[n]) # <<>>))
        => (ListHas(value, x, beyond) <=>
              x \in {IF n = 1 THEN parts[1] ELSE Trim(parts[n]) : n \in DOMAIN parts})

(* A request with some of the headers that a handshake needs is accepted if *)
(* all of them are there, and those that are no lists once.                 *)
HandshakeChecked(names, twice) ==
  LET value(n) == CASE n = <<"Upgrade">> -> <<"h2c", ",", SP, "websocket">>
                    [] n = <<"Connection">> -> <<"Upgrade">>
                    [] OTHER -> <<"x">>
      header == [i \in DOMAIN SetToSeq(names) |->
                   <<SetToSeq(names)[i], value(SetToSeq(names)[i])>>]
      again  == Append(header, <<twice, <<"other">>>>)
  IN  /\ Handshake(header, <<>>).status = IF Cardinality(names) = 6 THEN 101 ELSE 400
      /\ Handshake(again, <<>>).status =
           IF /\ Cardinality(names \cup {twice}) = 6
              /\ twice = <<"Connection">> <=> twice \in names
           THEN 101 ELSE 400

(* Without comments, and if the last line is complete, the table has the    *)
(* key and the trimmed value of every line that is not blank, and a line    *)
(* with a key alone is an error.                                            *)
MimesOfLines(text) ==
  LET Table[i \in 1..(Len(text) + 1)] ==
        LET line  == Trim(Piece(text, i, LF))
            key   == CSpan(C(line), 1, Blank) - 1
            value == Trim(SubSeq(line, key + 1, Len(line)))
            next  == PieceEnd(text, i, LF) + 1
        IN  IF i > Len(text) THEN <<>>
            ELSE IF line = <<>> THEN Table[next]
            ELSE IF value = <<>> THEN <<"error">>
            ELSE <<<<SubSeq(line, 1, key), value>>>> \o Table[next]
  IN  /\ text # <<>> /\ Last(text) = LF
      /\ Range(text) \cap {"#", CR} = {}
      => MimesOf(text) = Table[1]
==============================================================================
