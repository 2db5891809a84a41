----------------------------- MODULE HttpRequest -----------------------------
(***************************************************************************)
(* http::request of src/server/http.cc: one read into the worker's buffer,  *)
(* the scan of the header in place, and the body.  A buffer is a sequence   *)
(* of letters, each a character that the scan tells apart or a whole word.  *)
(***************************************************************************)
EXTENDS Integers, FiniteSets, SequencesExt, Functions

CONSTANTS
  Size,     \* buffer.size(), in letters
  MaxBody,  \* own_buffer_max_size
  NUL,      \* the character that ends a C string
  Garbage,  \* what malloc() returned and nothing filled
  Wild      \* a view whose length wrapped around

ASSUME RequestAssumption == Size \in Nat /\ MaxBody \in Nat

CR == "\r"
LF == "\n"
SP == " "
Invalid == {NUL, "\t"}    \* outside 0x20..0x7E, other than CR and LF
ASSUME LetterAssumption == NUL \notin {CR, LF, SP, ":"}

(* Numerals are letters; atol() of anything else is 0. *)
Numerals == [n \in {"0", "1", "2", "3", "4", "9"} |->
               CASE n = "0" -> 0 [] n = "1" -> 1 [] n = "2" -> 2
                 [] n = "3" -> 3 [] n = "4" -> 4 [] n = "9" -> 9]
Atol(s) == IF s # <<>> /\ s[1] \in DOMAIN Numerals THEN Numerals[s[1]] ELSE 0

(* The codes that error::operator<< finds a status line for. *)
StatusCodes == {400, 401, 403, 404, 405, 411, 413, 500, 501}

Refused(code) == [status |-> code]

(* A record with the fields of another one added. *)
Merged(r, more) ==
  [x \in DOMAIN r \cup DOMAIN more |-> IF x \in DOMAIN r THEN r[x] ELSE more[x]]
------------------------------------------------------------------------------
(* The C string at position i of s, which ends before the next NUL.         *)
CString(s, i) ==
  LET n == SelectInSubSeq(s, i, Len(s), LAMBDA c : c = NUL)
  IN  SubSeq(s, i, IF n = 0 THEN Len(s) ELSE n - 1)

(* The first position of c in the C string s, 0 if it is not there.         *)
FindIn(s, c) == SelectInSeq(CString(s, 1), LAMBDA x : x = c)

(* A slip to compare with: an empty line of CR and LF does not end it.      *)
HeaderEndsBare(b) ==
  {i \in DOMAIN b : b[i] = LF /\ \E j \in 1..(i - 1) : b[j] = LF /\ j = i - 1}

(* Where nn gets to 2: an LF with nothing but CR since the LF before.       *)
HeaderEnds(b) ==
  {i \in DOMAIN b : b[i] = LF /\ \E j \in 1..(i - 1) :
     b[j] = LF /\ \A k \in (j + 1)..(i - 1) : b[k] = CR}

(* Up to its end the header has no invalid character and at most one CR     *)
(* between two LF: nr is reset by LF only, so the CR may stand anywhere.    *)
Scannable(h) ==
  /\ \A i \in DOMAIN h : h[i] \notin Invalid
  /\ \A i, j \in DOMAIN h :
       i < j /\ h[i] = CR /\ h[j] = CR => \E k \in i..j : h[k] = LF

(* The line that begins at i ends at the next LF. *)
LineEnd(h, i) == Min({j \in i..Len(h) : h[j] = LF})

(* The lines before the empty one, each with CR and LF replaced by NUL.     *)
Nulled(s) == [k \in DOMAIN s |-> IF s[k] \in {CR, LF} THEN NUL ELSE s[k]]
Lines(h) ==
  LET From[i \in 1..Len(h)] ==
        IF LineEnd(h, i) = Len(h) THEN <<>>
        ELSE <<Nulled(SubSeq(h, i, LineEnd(h, i)))>> \o From[LineEnd(h, i) + 1]
  IN  From[1]

(* Behind the method, which ends at m, the protocol begins after the last   *)
(* blank, and the path between them starts with '/'.  A NUL found first is  *)
(* refused, and so is running out of the line on the left: what lies there  *)
(* is NUL, or a blank that leaves the path empty.                           *)
PathAndProtocol(t, m) ==
  LET z == SelectLastInSeq(t, LAMBDA c : c # NUL)
      p == SelectLastInSubSeq(t, 1, z, LAMBDA c : c \in {SP, NUL})
      path == CString([t EXCEPT ![p] = NUL], m + 1)
  IN  IF p = 0 THEN Refused(400)
      ELSE IF t[p] = NUL \/ Head(path \o <<NUL>>) # "/" THEN Refused(400)
      ELSE [status |-> 200, method |-> CString(t, 1), path |-> path,
            protocol |-> CString(t, p + 1)]

(* The method ends at the first blank. *)
RequestLine(line) ==
  LET m == FindIn(line, SP)
  IN  IF m = 0 THEN Refused(400)
      ELSE PathAndProtocol([line EXCEPT ![m] = NUL], m)

(* name ':' blanks value *)
HasColon(line) == FindIn(line, ":") # 0

Field(line) ==
  LET c == FindIn(line, ":")
      v == SelectInSubSeq(line, c + 1, Len(line), LAMBDA x : x # SP)
  IN  <<SubSeq(line, 1, c - 1), CString(line, v)>>

(* header.equal_range(name): the values in the order of the lines.          *)
Values(header, name) ==
  LET mine == SelectSeq(header, LAMBDA f : f[1] = name)
  IN  [i \in DOMAIN mine |-> mine[i][2]]

ParseLines(lines, end) ==
  LET first == RequestLine(lines[1])
  IN  IF first.status # 200 \/ \E n \in 2..Len(lines) : ~HasColon(lines[n])
      THEN Refused(400)
      ELSE Merged(first, [header |-> [n \in 1..(Len(lines) - 1) |-> Field(lines[n + 1])],
                          end |-> end])

ParseHeader(h) ==
  IF Scannable(h) THEN ParseLines(Lines(h), Len(h)) ELSE Refused(400)

(* The scan of the buffer; without an end it exceeds the buffer, or worse. *)
Parse(b) ==
  IF HeaderEnds(b) = {} THEN Refused(400)
  ELSE ParseHeader(SubSeq(b, 1, Min(HeaderEnds(b))))
------------------------------------------------------------------------------
WithData(r, data) == Merged(r, [data |-> data])

(* What malloc(length) holds after the second read, which returns once.     *)
OwnBuffer(have, got, length) ==
  have \o got \o [i \in 1..(length - Len(have) - Len(got)) |-> Garbage]

(* A slip to compare with: own_buffer_max_size is not looked at.            *)
BodyOfFullUnbounded(r, have, rest, short) ==
  LET lengths == Values(r.header, <<"Content-Length">>)
      length  == Atol(lengths[1])
      asked   == length - Len(have)
  IN  IF r.method # <<"POST">> THEN Refused(413)
      ELSE IF Len(lengths) # 1 THEN Refused(411)
      ELSE IF length < Len(have) THEN Refused(413)
      ELSE WithData(r, OwnBuffer(have, SubSeq(rest, 1, Min({asked, Len(rest)})), length))

(* A buffer that the first read filled may not hold the whole body.         *)
BodyOfFull(r, have, rest, short) ==
  LET lengths == Values(r.header, <<"Content-Length">>)
      length  == Atol(lengths[1])
      asked   == length - Len(have)
      got     == SubSeq(rest, 1, Min({short, asked, Len(rest)}))
  IN  IF r.method # <<"POST">> THEN Refused(413)
      ELSE IF Len(lengths) # 1 THEN Refused(411)
      ELSE IF length < Len(have) THEN Refused(413)
      ELSE IF length > MaxBody THEN Refused(413)
      ELSE WithData(r, IF asked = 0 THEN have ELSE OwnBuffer(have, got, length))

(* A slip to compare with: the body is what is left of the buffer.          *)
RequestWholeBuffer(sent, nread, short, stale) ==
  LET b == SubSeq(sent, 1, nread) \o SubSeq(stale, nread + 1, Size)
      r == Parse(b)
  IN  IF r.status # 200 THEN r ELSE WithData(r, SubSeq(b, r.end + 1, Size))

(* The data: behind the header, up to what was read. *)
WithBody(r, b, nread, rest, short) ==
  LET have == SubSeq(b, r.end + 1, nread)
  IN  IF r.status # 200 THEN r
      ELSE IF nread < r.end THEN WithData(r, Wild)
      ELSE IF nread < Size THEN WithData(r, have)
      ELSE BodyOfFull(r, have, rest, short)

(* request::request(): the first read returns nread letters of what was     *)
(* sent, behind them the buffer keeps what earlier requests left.  The scan *)
(* is bounded by the buffer and not by nread, so nread - header may wrap.   *)
Request(sent, nread, short, stale) ==
  LET b == SubSeq(sent, 1, nread) \o SubSeq(stale, nread + 1, Size)
  IN  WithBody(Parse(b), b, nread, SubSeq(sent, nread + 1, Len(sent)), short)
------------------------------------------------------------------------------
(* Reference: a request as a client writes it. *)
Written(q) ==
  LET Line(f) == f[1] \o <<":">> \o f[3] \o f[2] \o q.eol
  IN  q.method \o <<SP>> \o q.path \o <<SP>> \o q.protocol \o q.eol
      \o FlattenSeq([i \in DOMAIN q.header |-> Line(q.header[i])]) \o q.eol

AsWritten(q, body, r) ==
  /\ r.status = 200
  /\ <<r.method, r.path, r.protocol>> = <<q.method, q.path, q.protocol>>
  /\ r.header = [i \in DOMAIN q.header |-> <<q.header[i][1], q.header[i][2]>>]
  /\ r.data = body

(* A request is read as it was written, whatever ends its lines, how many   *)
(* blanks precede a value, and whatever the buffer held: if the reads       *)
(* return all of it, its body included, provided that a body too long for   *)
(* the buffer has the length that its only Content-Length says.             *)
ReadAsWritten(q, body, stale) ==
  LET sent  == Written(q) \o body
      nread == Min({Len(sent), Size})
      told  == Values([i \in DOMAIN q.header |-> <<q.header[i][1], q.header[i][2]>>],
                      <<"Content-Length">>)
      right == /\ q.method = <<"POST">> /\ Len(told) = 1
               /\ Len(body) <= MaxBody /\ Atol(told[1]) = Len(body)
  IN  Len(Written(q)) <= Size /\ (Len(sent) < Size \/ right) =>
        AsWritten(q, body, Request(sent, nread, MaxBody, stale))

(* What an earlier request left in the buffer has no influence on one whose *)
(* header was read whole.                                                   *)
StaleIgnored(sent, nread, short, stales) ==
  HeaderEnds(SubSeq(sent, 1, nread)) # {} =>
    \A s, t \in stales : Request(sent, nread, short, s) = Request(sent, nread, short, t)

(* A request that filled the buffer is refused with a code that has a       *)
(* status line, or it is a POST and its first Content-Length is that of the *)
(* body, is allowed, and covers everything that was read; only a second     *)
(* read that came short leaves a part of the body unfilled.                 *)
Accounted(r, sent, short) ==
  \/ r.status \in StatusCodes
  \/ /\ r.status = 200
     /\ r.method = <<"POST">>
     /\ Values(r.header, <<"Content-Length">>) # <<>>
     /\ Len(r.data) = Atol(Values(r.header, <<"Content-Length">>)[1])
     /\ Len(r.data) \in (Size - r.end)..MaxBody
     /\ Garbage \in Range(r.data) => \/ r.end + Len(r.data) > Size + short
                                     \/ r.end + Len(r.data) > Len(sent)

BodyAccounted(sent, short) ==
  Accounted(Request(sent, Size, short, <<>>), sent, short)
==============================================================================
