---------------------------- MODULE ServerProofs ----------------------------
(***************************************************************************)
(* demo-echo and demo-http answer what they were asked, for any number of  *)
(* connections and of messages, however the network cuts them up.          *)
(*                                                                         *)
(* Sessions share nothing, so the invariant is one of each session, and a  *)
(* step of one leaves those of the others alone.  It relates the answers   *)
(* to the stream through the position that was read up to: in demo-echo    *)
(* byte by byte, in demo-http message by message, which holds for as long  *)
(* as the reads are aligned with the messages.  A session that has taken   *)
(* the whole stream has then answered the whole of it, which is what the   *)
(* last theorem but one makes of it.                                       *)
(***************************************************************************)
EXTENDS Server, SequenceTheorems, WellFoundedInduction, TLAPS

Where == {"none", "read", "write", "close", "done"}

Types(s) == /\ at[s]     \in Where
            /\ sent[s]   \in Seq([what : DOMAIN Message, end : Nat])
            /\ stream[s] \in Seq(Tokens)
            /\ pos[s]    \in 0 .. Len(stream[s])
            /\ reply[s]  \in Seq(Tokens \cup Answers)
            /\ got[s]    \in Seq(Tokens \cup Answers)
            /\ aligned[s] \in BOOLEAN

\* Nothing happens to a session before it is accepted.
Fresh(s) == at[s] = "none" => sent[s] = <<>> /\ pos[s] = 0 /\ got[s] = <<>>

\* Message m is what text has after position from, and ends at position to.
Placed(text, from, to, m) == /\ to = from + Len(m)
                             /\ to <= Len(text)
                             /\ \A j \in 1 .. Len(m) : text[from + j] = m[j]

\* The stream is its messages, one after the other.
Layout(s) ==
  /\ Boundary(s, Len(sent[s])) = Len(stream[s])
  /\ \A i, j \in 0 .. Len(sent[s]) : i < j => Boundary(s, i) < Boundary(s, j)
  /\ \A i \in DOMAIN sent[s] :
       /\ proto = "http" => sent[s][i].what \in {"get", "other", "post"}
       /\ Placed(stream[s], Boundary(s, i - 1), Boundary(s, i), Message[sent[s][i].what])

\* Got, and then the reply, is the stream up to the position.
Echo(s) ==
  proto = "echo" /\ s \notin cut =>
    /\ Len(got[s]) <= Len(stream[s])
    /\ \A i \in 1 .. Len(got[s]) : got[s][i] = stream[s][i]
    /\ at[s] = "read" => Len(got[s]) = pos[s]
    /\ at[s] = "write" =>
         /\ Len(got[s]) + Len(reply[s]) = pos[s]
         /\ \A i \in 1 .. Len(reply[s]) : reply[s][i] = stream[s][Len(got[s]) + i]

\* Got, and then the reply, answers the messages up to the position.
Http(s) ==
  proto = "http" /\ s \notin cut /\ aligned[s] =>
    /\ Len(got[s]) <= Len(sent[s])
    /\ \A i \in 1 .. Len(got[s]) : got[s][i] = Due(s)[i]
    /\ at[s] = "read" => pos[s] = Boundary(s, Len(got[s]))
    /\ at[s] = "write" =>
         /\ Len(got[s]) < Len(sent[s])
         /\ pos[s] = Boundary(s, Len(got[s]) + 1)
         /\ reply[s] = <<Due(s)[Len(got[s]) + 1]>>

SessionInv(s) == Types(s) /\ Fresh(s) /\ Layout(s) /\ Echo(s) /\ Http(s)

Shape == /\ at      = [s \in Sessions |-> at[s]]
         /\ sent    = [s \in Sessions |-> sent[s]]
         /\ stream  = [s \in Sessions |-> stream[s]]
         /\ pos     = [s \in Sessions |-> pos[s]]
         /\ reply   = [s \in Sessions |-> reply[s]]
         /\ got     = [s \in Sessions |-> got[s]]
         /\ aligned = [s \in Sessions |-> aligned[s]]

\* What is not of one session.
Common == /\ proto    \in {"echo", "http"}
          /\ process  \in {"running", "over", "panicked", "undefined"}
          /\ listener \in {"accepting", "closing", "closed"}
          /\ eptr \subseteq Sessions /\ fin \subseteq Sessions /\ cut \subseteq Sessions
          /\ UndefinedNeedsSplit
          /\ Shape

IInv == Common /\ \A s \in Sessions : SessionInv(s)

-----------------------------------------------------------------------------
(***************************************************************************)
(* The parser takes a whole message for what it is                         *)
(***************************************************************************)
LEMMA MinOf ==
  ASSUME NEW S \in SUBSET Nat, S # {}
  PROVE  Min(S) \in S /\ \A y \in S : Min(S) <= y
<1>1. PICK x \in S : \A y \in S : <<y, x>> \notin OpToRel(<, Nat)
  BY WFMin, NatLessThanWellFounded, Zenon
<1>2. \A y \in S : ~ (y < x)
  BY <1>1, Zenon DEF OpToRel
<1>3. \A y \in S : x <= y
  BY <1>2
<1>. QED BY <1>3 DEF Min

LEMMA MinIs ==
  ASSUME NEW S \in SUBSET Int, NEW x \in S, \A y \in S : x <= y
  PROVE  Min(S) = x
<1>1. \A y \in S : (\A z \in S : y <= z) => y = x
  BY SMT
<1>2. \A z \in S : Min(S) <= z /\ Min(S) \in S
  BY DEF Min
<1>. QED BY <1>1, <1>2

\* A part of a sequence, element by element.
LEMMA Part ==
  ASSUME NEW S, NEW seq \in Seq(S), NEW a \in Nat, NEW b \in Nat, b <= Len(seq)
  PROVE  /\ SubSeq(seq, a + 1, b) \in Seq(S)
         /\ a <= b => Len(SubSeq(seq, a + 1, b)) = b - a
         /\ a >= b => SubSeq(seq, a + 1, b) = <<>>
         /\ \A i \in 1 .. b - a : SubSeq(seq, a + 1, b)[i] = seq[a + i]
<1>. DEFINE m == a + 1
<1>1. ASSUME NEW i \in m .. b PROVE seq[i] \in S
  <2>1. i \in 1 .. Len(seq)
    BY SMT
  <2>. QED BY <2>1, ElementOfSeq
<1>2. m \in Int /\ b \in Int
  OBVIOUS
<1>. HIDE DEF m
<1>3. /\ SubSeq(seq, m, b) \in Seq(S)
      /\ Len(SubSeq(seq, m, b)) = IF m <= b THEN b - m + 1 ELSE 0
      /\ \A i \in 1 .. b - m + 1 : SubSeq(seq, m, b)[i] = seq[m + i - 1]
  BY <1>1, <1>2, SubSeqProperties
<1>4. b - m + 1 = b - a /\ \A i \in 1 .. b - a : m + i - 1 = a + i
  BY DEF m
<1>5. a >= b => b < m /\ (a = b => b - a = 0)
  BY DEF m
<1>6. a < b => m <= b
  BY DEF m
<1>7. a >= b => SubSeq(seq, m, b) = <<>>
  BY <1>2, <1>5, SubSeqEmpty
<1>8. a <= b => Len(SubSeq(seq, m, b)) = b - a
  BY <1>3, <1>4, <1>5, <1>6
<1>. QED BY <1>3, <1>4, <1>7, <1>8 DEF m

\* Part holds what old has after position p, up to position n.
Takes(part, old, p, n) == /\ Len(part) = n - p
                          /\ \A i \in 1 .. n - p : part[i] = old[p + i]

LEMMA Taken ==
  ASSUME NEW S, NEW old \in Seq(S), NEW p \in Nat, NEW n \in Nat, p <= n, n <= Len(old)
  PROVE  SubSeq(old, p + 1, n) \in Seq(S) /\ Takes(SubSeq(old, p + 1, n), old, p, n)
BY Part DEF Takes

LEMMA FrontIs ==
  ASSUME NEW S, NEW seq \in Seq(S)
  PROVE  /\ Len(seq) = 1 => Front(seq) = <<>>
         /\ Len(seq) = 2 => Front(seq) = <<seq[1]>>
<1>. DEFINE n == Len(seq) - 1
            part == SubSeq(seq, 1, n)
<1>1. n \in Int /\ Front(seq) = part
  BY DEF Front
<1>2. ASSUME NEW i \in 1 .. n PROVE seq[i] \in S
  <2>1. i \in 1 .. Len(seq)
    OBVIOUS
  <2>. QED BY <2>1, ElementOfSeq
<1>. HIDE DEF n
<1>3. /\ part \in Seq(S) /\ Len(part) = IF 1 <= n THEN n - 1 + 1 ELSE 0
      /\ \A i \in 1 .. n - 1 + 1 : part[i] = seq[1 + i - 1]
  BY <1>1, <1>2, SubSeqProperties
<1>. HIDE DEF part
<1>4. n = 0 => part = <<>>
  BY <1>3, EmptySeq
<1>5. n = 1 => part = <<seq[1]>>
  <2>1. n = 1 => Len(part) = 1 /\ part[1] = seq[1]
    BY <1>3
  <2>. QED BY <1>3, <2>1
<1>6. Len(seq) = 1 => n = 0
  BY DEF n
<1>7. Len(seq) = 2 => n = 1
  BY DEF n
<1>. QED BY <1>1, <1>4, <1>5, <1>6, <1>7

\* A line that ends at e.
LEMMA LineIs ==
  ASSUME NEW S, NEW text \in Seq(S), NEW from \in Nat, NEW e \in 1 .. Len(text),
         from < e, text[e] = "LF", \A i \in from + 1 .. e - 1 : text[i] # "LF"
  PROVE  /\ End(text, from) = e
         /\ e = from + 1 => Line(text, from) = <<>>
         /\ e = from + 2 /\ text[e - 1] = "CR" => Line(text, from) = <<>>
         /\ e = from + 2 /\ text[e - 1] # "CR" => Line(text, from) = <<text[e - 1]>>
         /\ e = from + 3 /\ text[e - 1] = "CR" => Line(text, from) = <<text[e - 2]>>
<1>1. DOMAIN text = 1 .. Len(text) /\ Len(text) \in Nat
  BY LenProperties
<1>2. End(text, from) = e
  <2>. DEFINE M == {i \in DOMAIN text : i > from /\ text[i] = "LF"} \cup {Len(text) + 1}
  <2>1. M \in SUBSET Int /\ e \in M
    BY <1>1
  <2>2. ASSUME NEW y \in M PROVE e <= y
    BY <1>1
  <2>. HIDE DEF M
  <2>3. Min(M) = e
    BY <2>1, <2>2, MinIs
  <2>. QED BY <2>3 DEF End, M
<1>. DEFINE line == SubSeq(text, from + 1, e - 1)
<1>3. /\ line \in Seq(S) /\ Len(line) = e - 1 - from
      /\ e = from + 1 => line = <<>>
      /\ \A i \in 1 .. e - 1 - from : line[i] = text[from + i]
  <2>. DEFINE b == e - 1
  <2>1. b \in Nat /\ b <= Len(text) /\ from <= b /\ (e = from + 1 => from >= b)
    BY <1>1
  <2>2. b - from = e - 1 - from
    BY <1>1
  <2>. HIDE DEF b
  <2>. DEFINE part == SubSeq(text, from + 1, b)
  <2>3. part \in Seq(S) /\ Takes(part, text, from, b)
    BY <2>1, Taken
  <2>. HIDE DEF part
  <2>4. /\ part \in Seq(S) /\ Len(part) = b - from
        /\ \A i \in 1 .. b - from : part[i] = text[from + i]
    BY <2>3 DEF Takes
  <2>5. e = from + 1 => part = <<>>
    BY <2>2, <2>4, EmptySeq
  <2>6. part = line
    BY DEF part, b
  <2>. HIDE DEF line
  <2>. QED BY <2>2, <2>4, <2>5, <2>6
<1>4. Line(text, from) = IF line # <<>> /\ Last(line) = "CR" THEN Front(line) ELSE line
  BY <1>2 DEF Line
<1>. HIDE DEF line
<1>5. CASE e = from + 1
  BY <1>1, <1>2, <1>3, <1>4, <1>5
<1>6. CASE e = from + 2
  <2>1. Len(line) = 1 /\ line[1] = text[e - 1] /\ line # <<>>
    BY <1>1, <1>3, <1>6, EmptySeq
  <2>2. Last(line) = text[e - 1]
    BY <2>1 DEF Last
  <2>3. Front(line) = <<>>
    BY <1>3, <2>1, FrontIs
  <2>4. line = <<text[e - 1]>>
    BY <1>3, <2>1
  <2>. QED BY <1>1, <1>2, <1>4, <1>6, <2>1, <2>2, <2>3, <2>4
<1>7. CASE e = from + 3 /\ text[e - 1] = "CR"
  <2>0. e - 1 - from = 2 /\ e - 1 = from + 2 /\ e - 2 = from + 1
    BY <1>7
  <2>1. /\ Len(line) = 2 /\ line[1] = text[from + 1] /\ line[2] = text[from + 2]
        /\ line # <<>> /\ e - 1 = from + 2 /\ e - 2 = from + 1
    BY <1>3, <2>0, EmptySeq
  <2>2. Last(line) = "CR"
    BY <1>7, <2>1 DEF Last
  <2>3. Front(line) = <<line[1]>>
    BY <1>3, <2>1, FrontIs
  <2>. QED BY <1>1, <1>2, <1>4, <1>7, <2>1, <2>2, <2>3
<1>. QED BY <1>2, <1>5, <1>6, <1>7

\* The lines up to the empty one, and what is made of them.
LEMMA StopIs ==
  ASSUME NEW text \in Seq(Tokens), NEW first \in Nat, NEW e \in Starts(text, first),
         first \in 1 .. Len(text),
         e >= Len(text) \/ ~IsHeader(Line(text, e)),
         \A d \in Starts(text, first) : d < e => d < Len(text) /\ IsHeader(Line(text, d))
  PROVE  Stop(text, first) = e
<1>. DEFINE M == {d \in Starts(text, first) : d >= Len(text) \/ ~IsHeader(Line(text, d))}
<1>1. Starts(text, first) \subseteq Int
  BY LenProperties DEF Starts
<1>2. M \in SUBSET Int /\ e \in M
  BY <1>1
<1>3. ASSUME NEW y \in M PROVE e <= y
  BY <1>1, <1>2
<1>. HIDE DEF M
<1>4. Min(M) = e
  BY <1>2, <1>3, MinIs
<1>. QED BY <1>4 DEF Stop, M

LEMMA Headers ==
  /\ ~IsHeader(<<>>)
  /\ IsHeader(<<"field">>) /\ IsHeader(<<"length">>)
BY DEF IsHeader, HeaderLines

\* The request line of a message is the first line.
LEMMA RequestIs ==
  ASSUME NEW text, NEW r \in RequestLines, Line(text, 0) = <<r>>, text[1] # "LF"
  PROVE  Parse(text) = ParseHeaders(r, text, End(text, 0))
<1>. DEFINE line == <<r>>
<1>1. Requests(line) = {1}
  BY DEF Requests
<1>2. Min({1}) = 1
  BY MinIs
<1>3. line[Min(Requests(line))] = r
  BY <1>1, <1>2
<1>4. Requests(line) # {}
  BY <1>1
<1>. HIDE DEF line
<1>5. Line(text, 0) = line
  BY DEF line
<1>. QED BY <1>3, <1>4, <1>5 DEF Parse

LEMMA GetParses == Parse(Message.get) = {"get"}
<1>. DEFINE text == Message.get
<1>1. text = <<"get", "CR", "LF", "CR", "LF">>
  BY DEF Message
<1>2. text \in Seq(Tokens) /\ Len(text) = 5
  BY <1>1 DEF Tokens, RequestLines, HeaderLines, Bytes
<1>3. text[1] = "get" /\ text[2] = "CR" /\ text[3] = "LF" /\ text[4] = "CR" /\ text[5] = "LF"
  BY <1>1
<1>. HIDE DEF text
<1>4. End(text, 0) = 3 /\ Line(text, 0) = <<"get">>
  <2>1. \A i \in 0 + 1 .. 3 - 1 : text[i] # "LF"
    BY <1>3
  <2>2. 3 \in 1 .. Len(text) /\ 3 = 0 + 3 /\ text[3 - 1] = "CR" /\ text[3 - 2] = "get" /\ 0 < 3
    BY <1>2, <1>3
  <2>. QED BY <1>2, <1>3, <2>1, <2>2, LineIs
<1>5. Line(text, 3) = <<>>
  <2>1. \A i \in 3 + 1 .. 5 - 1 : text[i] # "LF"
    BY <1>3
  <2>2. 5 \in 1 .. Len(text) /\ 5 = 3 + 2 /\ text[5 - 1] = "CR" /\ 3 < 5
    BY <1>2, <1>3
  <2>. QED BY <1>2, <1>3, <2>1, <2>2, LineIs
<1>6. 3 \in Starts(text, 3) /\ \A d \in Starts(text, 3) : ~(d < 3)
  BY <1>2 DEF Starts
<1>7. Stop(text, 3) = 3
  BY <1>2, <1>5, <1>6, Headers, StopIs
<1>8. ~HasLength(text, 3)
  BY <1>6, <1>7 DEF HasLength
<1>9. Parse(text) = ParseHeaders("get", text, 3)
  BY <1>3, <1>4, RequestIs DEF RequestLines
<1>. QED BY <1>2, <1>5, <1>7, <1>8, <1>9 DEF ParseHeaders, text

LEMMA OtherParses == Parse(Message.other) = {"getx"}
<1>. DEFINE text == Message.other
<1>1. text = <<"getx", "LF", "field", "CR", "LF", "LF">>
  BY DEF Message
<1>2. text \in Seq(Tokens) /\ Len(text) = 6
  BY <1>1 DEF Tokens, RequestLines, HeaderLines, Bytes
<1>3. /\ text[1] = "getx" /\ text[2] = "LF" /\ text[3] = "field" /\ text[4] = "CR"
      /\ text[5] = "LF" /\ text[6] = "LF"
  BY <1>1
<1>. HIDE DEF text
<1>4. End(text, 0) = 2 /\ Line(text, 0) = <<"getx">>
  <2>1. \A i \in 0 + 1 .. 2 - 1 : text[i] # "LF"
    BY <1>3
  <2>2. 2 \in 1 .. Len(text) /\ 2 = 0 + 2 /\ text[2 - 1] = "getx" /\ 0 < 2
    BY <1>2, <1>3
  <2>. QED BY <1>2, <1>3, <2>1, <2>2, LineIs
<1>5. Line(text, 2) = <<"field">>
  <2>1. \A i \in 2 + 1 .. 5 - 1 : text[i] # "LF"
    BY <1>3
  <2>2. 5 \in 1 .. Len(text) /\ 5 = 2 + 3 /\ text[5 - 1] = "CR" /\ text[5 - 2] = "field" /\ 2 < 5
    BY <1>2, <1>3
  <2>. QED BY <1>2, <1>3, <2>1, <2>2, LineIs
<1>6. Line(text, 5) = <<>>
  <2>1. \A i \in 5 + 1 .. 6 - 1 : text[i] # "LF"
    BY <1>3
  <2>2. 6 \in 1 .. Len(text) /\ 6 = 5 + 1 /\ 5 < 6
    BY <1>2
  <2>. QED BY <1>2, <1>3, <2>1, <2>2, LineIs
<1>7. 5 \in Starts(text, 2) /\ \A d \in Starts(text, 2) : d < 5 => d = 2
  BY <1>2, <1>3 DEF Starts
<1>8. Stop(text, 2) = 5
  BY <1>2, <1>5, <1>6, <1>7, Headers, StopIs
<1>9. ~HasLength(text, 2)
  BY <1>5, <1>7, <1>8 DEF HasLength
<1>10. Parse(text) = ParseHeaders("getx", text, 2)
  BY <1>3, <1>4, RequestIs DEF RequestLines
<1>. QED BY <1>2, <1>6, <1>8, <1>9, <1>10 DEF ParseHeaders, text

LEMMA PostParses == Parse(Message.post) = {"post"}
<1>. DEFINE text == Message.post
<1>1. text = <<"post", "CR", "LF", "length", "LF", "LF", "x">>
  BY DEF Message
<1>2. text \in Seq(Tokens) /\ Len(text) = 7
  BY <1>1 DEF Tokens, RequestLines, HeaderLines, Bytes
<1>3. /\ text[1] = "post" /\ text[2] = "CR" /\ text[3] = "LF" /\ text[4] = "length"
      /\ text[5] = "LF" /\ text[6] = "LF" /\ text[7] = "x"
  BY <1>1
<1>. HIDE DEF text
<1>4. End(text, 0) = 3 /\ Line(text, 0) = <<"post">>
  <2>1. \A i \in 0 + 1 .. 3 - 1 : text[i] # "LF"
    BY <1>3
  <2>2. 3 \in 1 .. Len(text) /\ 3 = 0 + 3 /\ text[3 - 1] = "CR" /\ text[3 - 2] = "post" /\ 0 < 3
    BY <1>2, <1>3
  <2>. QED BY <1>2, <1>3, <2>1, <2>2, LineIs
<1>5. Line(text, 3) = <<"length">>
  <2>1. \A i \in 3 + 1 .. 5 - 1 : text[i] # "LF"
    BY <1>3
  <2>2. 5 \in 1 .. Len(text) /\ 5 = 3 + 2 /\ text[5 - 1] = "length" /\ 3 < 5
    BY <1>2, <1>3
  <2>. QED BY <1>2, <1>3, <2>1, <2>2, LineIs
<1>6. Line(text, 5) = <<>> /\ End(text, 5) = 6
  <2>1. \A i \in 5 + 1 .. 6 - 1 : text[i] # "LF"
    BY <1>3
  <2>2. 6 \in 1 .. Len(text) /\ 6 = 5 + 1 /\ 5 < 6
    BY <1>2
  <2>. QED BY <1>2, <1>3, <2>1, <2>2, LineIs
<1>7. 5 \in Starts(text, 3) /\ \A d \in Starts(text, 3) : d < 5 => d = 3
  BY <1>2, <1>3 DEF Starts
<1>8. Stop(text, 3) = 5
  BY <1>2, <1>5, <1>6, <1>7, Headers, StopIs
<1>9. BodyFits(text, 6)
  BY <1>2, <1>3 DEF BodyFits, Last, Bytes
<1>10. Parse(text) = ParseHeaders("post", text, 3)
  BY <1>3, <1>4, RequestIs DEF RequestLines
<1>. QED BY <1>2, <1>6, <1>8, <1>9, <1>10 DEF ParseHeaders, text

LEMMA MessagesParse ==
  ASSUME NEW m \in {"get", "other", "post"}
  PROVE  Parse(Message[m]) = {Message[m][1]} /\ Message[m][1] \in RequestLines
BY GetParses, OtherParses, PostParses DEF Message, RequestLines

\* The line after a position is empty.
EmptyLine(text, e) ==
  /\ text[e] = "LF"
  /\ \/ e + 1 \in DOMAIN text /\ text[e + 1] = "LF"
     \/ e + 2 \in DOMAIN text /\ text[e + 1] = "CR" /\ text[e + 2] = "LF"

Ends(text) == Last(text) = "LF" \/ \E e \in DOMAIN text : EmptyLine(text, e)

(***************************************************************************)
(* MultilineText::iterator::next stays within its text, whatever that is,  *)
(* if it does not begin with a line end and either ends with one or has an *)
(* empty line: parse_request then has an answer or throws.                 *)
(***************************************************************************)
THEOREM TextsThatEndAreDefined ==
  \A text \in Seq(Tokens) :
    text # <<>> /\ text[1] # "LF" /\ Ends(text) => "undefined" \notin Parse(text)
<1>. SUFFICES ASSUME NEW text \in Seq(Tokens), text # <<>>, text[1] # "LF", Ends(text)
              PROVE  "undefined" \notin Parse(text)
  OBVIOUS
<1>. DEFINE first == End(text, 0)
            M     == {d \in Starts(text, first) : d >= Len(text) \/ ~IsHeader(Line(text, d))}
            feeds == {i \in DOMAIN text : i > 0 /\ text[i] = "LF"}
<1>1. DOMAIN text = 1 .. Len(text) /\ Len(text) \in Nat /\ Len(text) >= 1
  BY EmptySeq
<1>2. PICK e \in 1 .. Len(text) :
        text[e] = "LF" /\ (e >= Len(text) \/ Line(text, e) = <<>>)
  <2>1. CASE Last(text) = "LF"
    BY <1>1, <2>1 DEF Last
  <2>2. ASSUME NEW e \in DOMAIN text, EmptyLine(text, e)
        PROVE  text[e] = "LF" /\ Line(text, e) = <<>>
    <3>1. CASE e + 1 \in DOMAIN text /\ text[e + 1] = "LF"
      <4>. DEFINE d == e + 1
      <4>1. d \in 1 .. Len(text) /\ e < d /\ d = e + 1 /\ e \in Nat
        BY <1>1, <3>1
      <4>2. \A i \in e + 1 .. d - 1 : text[i] # "LF"
        BY <1>1
      <4>. HIDE DEF d
      <4>. QED BY <2>2, <3>1, <4>1, <4>2, LineIs DEF EmptyLine
    <3>2. CASE e + 2 \in DOMAIN text /\ text[e + 1] = "CR" /\ text[e + 2] = "LF"
      <4>. DEFINE d == e + 2
      <4>1. d \in 1 .. Len(text) /\ e < d /\ d = e + 2 /\ e \in Nat /\ d - 1 = e + 1
        BY <1>1, <3>2
      <4>2. \A i \in e + 1 .. d - 1 : text[i] # "LF"
        BY <1>1, <3>2
      <4>. HIDE DEF d
      <4>. QED BY <2>2, <3>2, <4>1, <4>2, LineIs DEF EmptyLine
    <3>. QED BY <2>2, <3>1, <3>2 DEF EmptyLine
  <2>. QED BY <1>1, <2>1, <2>2 DEF Ends
<1>3. first \in 1 .. Len(text) /\ first <= e
  <2>1. feeds \cup {Len(text) + 1} \in SUBSET Nat /\ e \in feeds
    BY <1>1, <1>2
  <2>. DEFINE F == feeds \cup {Len(text) + 1}
  <2>2. F \in SUBSET Nat /\ F # {} /\ e \in F
    BY <2>1
  <2>3. \A i \in F : i = Len(text) + 1 \/ i \in 1 .. Len(text)
    BY <1>1
  <2>. HIDE DEF F
  <2>4. Min(F) \in F /\ Min(F) <= e
    BY <2>2, MinOf
  <2>5. first = Min(F)
    BY DEF End, F
  <2>. HIDE DEF first
  <2>. QED BY <1>1, <2>3, <2>4, <2>5
<1>. HIDE DEF first
<1>4. e \in Starts(text, first)
  BY <1>1, <1>2, <1>3 DEF Starts
<1>5. Starts(text, first) \subseteq Nat
  BY <1>1, <1>3 DEF Starts
<1>6. M \in SUBSET Nat /\ e \in M
  BY <1>2, <1>4, <1>5, Headers
<1>7. Stop(text, first) = Min(M)
  BY DEF Stop
<1>. HIDE DEF M
<1>8. Stop(text, first) <= e /\ Stop(text, first) \in Nat
  <2>1. M # {}
    BY <1>6
  <2>2. Min(M) \in M /\ \A y \in M : Min(M) <= y
    BY <1>6, <2>1, MinOf
  <2>. QED BY <1>6, <1>7, <2>2
<1>9. ~(Stop(text, first) > Len(text))
  BY <1>1, <1>8
<1>10. \A r : r # "undefined" => "undefined" \notin ParseHeaders(r, text, first)
  BY <1>9 DEF ParseHeaders
<1>11. Requests(Line(text, 0)) # {} =>
         Line(text, 0)[Min(Requests(Line(text, 0)))] # "undefined"
  <2>. DEFINE line == Line(text, 0)
  <2>1. DOMAIN line \subseteq Nat
    <3>1. SubSeq(text, 0 + 1, End(text, 0) - 1) \in Seq(Tokens)
      <4>. DEFINE b == first - 1
      <4>1. b \in Nat /\ b <= Len(text) /\ 0 \in Nat
        BY <1>1, <1>3
      <4>. HIDE DEF b
      <4>2. SubSeq(text, 0 + 1, b) \in Seq(Tokens)
        BY <4>1, Part
      <4>. QED BY <4>2 DEF b, first
    <3>. DEFINE part == SubSeq(text, 0 + 1, End(text, 0) - 1)
    <3>2. line = IF part # <<>> /\ Last(part) = "CR" THEN Front(part) ELSE part
      BY DEF Line
    <3>. HIDE DEF part, line
    <3>3. part \in Seq(Tokens)
      BY <3>1 DEF part
    <3>4. CASE line = part
      BY <3>3, <3>4
    <3>5. CASE line = Front(part)
      BY <3>3, <3>5, LenProperties DEF Front
    <3>. QED BY <3>2, <3>4, <3>5
  <2>. HIDE DEF line
  <2>2. Requests(line) \in SUBSET Nat
    BY <2>1 DEF Requests
  <2>3. Requests(line) # {} => line[Min(Requests(line))] \in RequestLines
    <3>1. Requests(line) # {} => Min(Requests(line)) \in Requests(line)
      BY <2>2, MinOf
    <3>. QED BY <3>1 DEF Requests
  <2>. QED BY <2>3 DEF RequestLines, line
<1>. QED BY <1>10, <1>11 DEF Parse, first

-----------------------------------------------------------------------------
(***************************************************************************)
(* Sessions                                                                *)
(***************************************************************************)
\* A step leaves session r as it is.
Same(r) == /\ proto' = proto
           /\ at'[r] = at[r] /\ sent'[r] = sent[r] /\ stream'[r] = stream[r]
           /\ pos'[r] = pos[r] /\ reply'[r] = reply[r] /\ got'[r] = got[r]
           /\ aligned'[r] = aligned[r]
           /\ r \in cut' <=> r \in cut

\* The messages of a session and where they end do not depend on the rest.
LEMMA SameMessages ==
  ASSUME NEW s, sent'[s] = sent[s]
  PROVE  (\A i : Boundary(s, i)' = Boundary(s, i)) /\ Due(s)' = Due(s)
BY DEF Boundary, Due

LEMMA SameLayout ==
  ASSUME NEW s, Layout(s), proto' = proto, sent'[s] = sent[s], stream'[s] = stream[s]
  PROVE  Layout(s)'
<1>1. \A i : Boundary(s, i)' = Boundary(s, i)
  BY SameMessages
<1>2. Message' = Message
  BY DEF Message
<1>3. \A i \in DOMAIN sent[s] :
        /\ proto = "http" => sent[s][i].what \in {"get", "other", "post"}
        /\ Placed(stream[s], Boundary(s, i - 1), Boundary(s, i), Message[sent[s][i].what])
  BY DEF Layout
<1>4. ASSUME NEW i \in DOMAIN sent'[s]
      PROVE  /\ proto' = "http" => sent'[s][i].what \in {"get", "other", "post"}
             /\ Placed(stream'[s], Boundary(s, i - 1)', Boundary(s, i)',
                        Message'[sent'[s][i].what])
  BY <1>1, <1>2, <1>3
<1>5. /\ Boundary(s, Len(sent[s])) = Len(stream[s])
      /\ \A i, j \in 0 .. Len(sent[s]) : i < j => Boundary(s, i) < Boundary(s, j)
  BY DEF Layout
<1>6. Boundary(s, Len(sent[s]))' = Len(stream[s])'
  BY <1>1, <1>5
<1>7. \A i, j \in 0 .. Len(sent[s])' : i < j => Boundary(s, i)' < Boundary(s, j)'
  BY <1>1, <1>5
<1>. QED BY <1>4, <1>6, <1>7 DEF Layout

LEMMA SameInv ==
  ASSUME NEW r \in Sessions, SessionInv(r), Same(r)
  PROVE  SessionInv(r)'
<1>1. Types(r)' /\ Fresh(r)'
  BY DEF SessionInv, Types, Fresh, Same
<1>2. \A i : Boundary(r, i)' = Boundary(r, i)
  BY DEF Boundary, Same
<1>3. Due(r)' = Due(r)
  BY DEF Due, Same
<1>4. Layout(r)'
  BY SameLayout DEF SessionInv, Same
<1>5. Echo(r)'
  BY DEF SessionInv, Echo, Same
<1>6. Http(r)'
  BY <1>2, <1>3 DEF SessionInv, Http, Same
<1>. QED BY <1>1, <1>4, <1>5, <1>6 DEF SessionInv

LEMMA Lengths ==
  ASSUME NEW s \in Sessions, Types(s)
  PROVE  /\ Len(sent[s]) \in Nat /\ Len(stream[s]) \in Nat /\ Len(reply[s]) \in Nat
         /\ Len(got[s]) \in Nat /\ pos[s] \in Nat /\ pos[s] <= Len(stream[s])
         /\ DOMAIN sent[s] = 1 .. Len(sent[s])
<1>1. Len(sent[s]) \in Nat /\ DOMAIN sent[s] = 1 .. Len(sent[s])
  BY LenProperties DEF Types
<1>2. Len(stream[s]) \in Nat /\ Len(reply[s]) \in Nat /\ Len(got[s]) \in Nat
  BY LenProperties DEF Types
<1>. QED BY <1>1, <1>2 DEF Types

\* A session that is accepted, or that is left.
LEMMA Moves ==
  ASSUME IInv, NEW s \in Sessions, NEW w \in Where, Go(s, w),
         UNCHANGED <<proto, sent, stream, pos, reply, got, aligned, cut>>,
         \/ w = "read" /\ at[s] = "none"
         \/ w \in {"close", "done"} /\ at[s] # "none"
  PROVE  Shape' /\ \A r \in Sessions : SessionInv(r)'
<1>1. at'[s] = w /\ (\A r \in Sessions : r # s => at'[r] = at[r]) /\ at' = [r \in Sessions |-> at'[r]]
  BY DEF Go, IInv, Common, Shape
<1>2. Shape'
  BY <1>1 DEF IInv, Common, Shape
<1>3. ASSUME NEW r \in Sessions, r # s PROVE SessionInv(r)'
  BY <1>1, <1>3, SameInv DEF IInv, Same
<1>4. SessionInv(s)
  BY DEF IInv
<1>5. Types(s)' /\ Fresh(s)'
  BY <1>1, <1>4 DEF SessionInv, Types, Fresh, Where
<1>6. (\A i : Boundary(s, i)' = Boundary(s, i)) /\ Due(s)' = Due(s)
  BY SameMessages
<1>7. Layout(s)'
  BY <1>4, SameLayout DEF SessionInv
<1>8. at'[s] = "read" => pos[s] = 0 /\ got[s] = <<>> /\ Len(got[s]) = 0 /\ Boundary(s, 0) = 0
  BY <1>1, <1>4, EmptySeq DEF SessionInv, Fresh, Boundary
<1>9. at'[s] # "write"
  BY <1>1
<1>10. Echo(s)'
  BY <1>4, <1>8, <1>9 DEF SessionInv, Echo
<1>11. Http(s)'
  BY <1>4, <1>6, <1>8, <1>9 DEF SessionInv, Http
<1>. QED BY <1>2, <1>3, <1>5, <1>7, <1>10, <1>11 DEF SessionInv

\* How a session leaves its loop.
LEMMA Leaves ==
  ASSUME Common, NEW s \in Sessions, LeaveLoop(s), process = "running"
  PROVE  /\ \E w \in {"close", "done"} : Go(s, w)
         /\ at'[s] \in {"close", "done"} /\ \A r \in Sessions : r # s => at'[r] = at[r]
         /\ at' = [r \in Sessions |-> at'[r]]
         /\ process' \in {"running", "panicked", "over"}
BY DEF LeaveLoop, Go, Common, Shape

\* ... as the main coroutine and the sessions do it.
LEMMA MoveSteps ==
  ASSUME IInv, NEW s \in Sessions, Accept(s) \/ Eof(s) \/ Fail(s) \/ Close(s)
  PROVE  IInv'
<1>1. Fresh(s) /\ Common
  BY DEF IInv, SessionInv
<1>2. \E w \in Where : /\ Go(s, w)
                       /\ \/ w = "read" /\ at[s] = "none"
                          \/ w \in {"close", "done"} /\ at[s] # "none"
  <2>1. CASE Accept(s)
    BY <2>1 DEF Accept, Where
  <2>2. CASE Eof(s) \/ Fail(s)
    <3>1. at[s] \in {"read", "write"} /\ LeaveLoop(s) /\ process = "running"
      BY <2>2 DEF Eof, Fail, Running, Catch
    <3>. QED BY <1>1, <3>1, Leaves DEF Where
  <2>3. CASE Close(s)
    BY <2>3 DEF Close, Running, Where
  <2>. QED BY <2>1, <2>2, <2>3
<1>3. UNCHANGED <<proto, sent, stream, pos, reply, got, aligned, cut, fin, listener>>
  BY DEF Accept, Eof, Fail, Close, peerVars, sessionVars
<1>4. /\ process' \in {"running", "panicked", "over"}
      /\ eptr' \in {eptr, eptr \cup {s}}
  <2>1. CASE Eof(s) \/ Fail(s)
    <3>1. process = "running" /\ LeaveLoop(s) /\ (eptr' = eptr \/ Catch(s))
      BY <2>1 DEF Eof, Fail, Running, Catch
    <3>. QED BY <1>1, <3>1, Leaves DEF Catch
  <2>2. CASE Accept(s) \/ Close(s)
    BY <2>2 DEF Accept, Close
  <2>. QED BY <2>1, <2>2
<1>5. Shape' /\ \A r \in Sessions : SessionInv(r)'
  BY <1>2, <1>3, Moves
<1>. QED BY <1>1, <1>3, <1>4, <1>5 DEF IInv, Common, UndefinedNeedsSplit

LEMMA ListenerSteps ==
  ASSUME IInv, AcceptUnlogged \/ AcceptFails \/ CloseListener \/ \E s \in Sessions : Shut(s)
  PROVE  IInv'
<1>1. /\ UNCHANGED <<proto, at, eptr, sent, stream, pos, reply, got, aligned, cut>>
      /\ process = "running"
  BY DEF AcceptUnlogged, AcceptFails, CloseListener, Shut, peerVars, sessionVars
<1>2. ASSUME NEW r \in Sessions PROVE SessionInv(r)'
  BY <1>1, SameInv DEF IInv, Same
<1>3. /\ listener' \in {"accepting", "closing", "closed"}
      /\ process' \in {"running", "over", "panicked"}
      /\ fin' \subseteq Sessions
  BY <1>1 DEF AcceptUnlogged, AcceptFails, CloseListener, Shut, peerVars, IInv, Common
<1>4. Shape'
  BY <1>1 DEF IInv, Common, Shape
<1>. QED BY <1>1, <1>2, <1>3, <1>4 DEF IInv, Common, UndefinedNeedsSplit

LEMMA MessageTypes ==
  ASSUME NEW m \in DOMAIN Message
  PROVE  Message[m] \in Seq(Tokens) /\ Len(Message[m]) \in Nat \ {0}
<1>1. m \in {"get", "other", "post", "line"}
  BY DEF Message
<1>2. {"CR", "LF", "x", "get", "getx", "post", "field", "length"} \subseteq Tokens
  BY DEF Tokens, RequestLines, HeaderLines, Bytes
<1>3. /\ Message["get"]   = <<"get", "CR", "LF", "CR", "LF">>
      /\ Message["other"] = <<"getx", "LF", "field", "CR", "LF", "LF">>
      /\ Message["post"]  = <<"post", "CR", "LF", "length", "LF", "LF", "x">>
      /\ Message["line"]  = <<"x", "CR", "LF">>
  BY DEF Message
<1>4. Message["get"] \in Seq(Tokens) /\ Len(Message["get"]) = 5
  BY <1>2, <1>3
<1>5. Message["other"] \in Seq(Tokens) /\ Len(Message["other"]) = 6
  BY <1>2, <1>3
<1>6. Message["post"] \in Seq(Tokens) /\ Len(Message["post"]) = 7
  BY <1>2, <1>3
<1>7. Message["line"] \in Seq(Tokens) /\ Len(Message["line"]) = 3
  BY <1>2, <1>3
<1>8. 5 \in Nat \ {0} /\ 6 \in Nat \ {0} /\ 7 \in Nat \ {0} /\ 3 \in Nat \ {0}
  OBVIOUS
<1>9. CASE m = "get"
  BY <1>4, <1>8, <1>9
<1>10. CASE m = "other"
  BY <1>5, <1>8, <1>10
<1>11. CASE m = "post"
  BY <1>6, <1>8, <1>11
<1>12. CASE m = "line"
  BY <1>7, <1>8, <1>12
<1>. QED BY <1>1, <1>9, <1>10, <1>11, <1>12

LEMMA Appended ==
  ASSUME NEW S, NEW seq \in Seq(S), NEW x \in S
  PROVE  /\ Append(seq, x) \in Seq(S) /\ Len(Append(seq, x)) = Len(seq) + 1
         /\ \A i \in 1 .. Len(seq) : Append(seq, x)[i] = seq[i]
         /\ Append(seq, x)[Len(seq) + 1] = x
OBVIOUS

Appends(new, old, tail) ==
  /\ Len(new) = Len(old) + Len(tail)
  /\ \A i \in 1 .. Len(old) : new[i] = old[i]
  /\ \A i \in 1 .. Len(tail) : new[Len(old) + i] = tail[i]

LEMMA Joined ==
  ASSUME NEW S, NEW seq \in Seq(S), NEW tail \in Seq(S)
  PROVE  seq \o tail \in Seq(S) /\ Appends(seq \o tail, seq, tail)
BY DEF Appends

LEMMA SendSteps ==
  ASSUME IInv, NEW s \in Sessions, NEW m \in Offered, Send(s, m)
  PROVE  IInv'
<1>1. SessionInv(s) /\ Common /\ Types(s)
  BY DEF IInv, SessionInv
<1>. DEFINE M == Message[m]
<1>0. \E l, n, g \in Nat : l = Len(sent[s]) /\ n = Len(stream[s]) /\ g = Len(got[s])
  BY <1>1, Lengths
<1>. PICK L, N, G \in Nat : L = Len(sent[s]) /\ N = Len(stream[s]) /\ G = Len(got[s])
  BY <1>0
<1>. DEFINE entry == [what |-> m, end |-> N + Len(M)]
<1>2. /\ m \in DOMAIN Message
      /\ proto = "http" => m \in {"get", "other", "post"}
  BY <1>1 DEF Offered, Common, Message
<1>3. M \in Seq(Tokens) /\ Len(M) \in Nat /\ Len(M) > 0
  BY <1>2, MessageTypes
<1>4. /\ Len(reply[s]) \in Nat
      /\ pos[s] \in Nat /\ pos[s] <= N /\ DOMAIN sent[s] = 1 .. L
  BY <1>1, Lengths
<1>5. /\ UNCHANGED <<proto, process, listener, at, eptr, fin, pos, reply, got, aligned, cut>>
      /\ process = "running" /\ at[s] \in {"read", "write"}
      /\ stream' = [stream EXCEPT ![s] = @ \o M]
      /\ sent'   = [sent EXCEPT ![s] = Append(@, [what |-> m, end |-> Len(stream'[s])])]
  BY DEF Send, sessionVars
<1>6. /\ stream'[s] = stream[s] \o M
      /\ sent'[s] = Append(sent[s], [what |-> m, end |-> Len(stream'[s])])
      /\ \A r \in Sessions : r # s => stream'[r] = stream[r] /\ sent'[r] = sent[r]
      /\ Shape'
  <2>. HIDE DEF M
  <2>. QED BY <1>1, <1>5 DEF Common, Shape
<1>7. ASSUME NEW r \in Sessions, r # s PROVE SessionInv(r)'
  BY <1>5, <1>6, <1>7, SameInv DEF IInv, Same
<1>8. /\ stream'[s] \in Seq(Tokens) /\ Len(stream'[s]) = N + Len(M)
      /\ \A i \in 1 .. N : stream'[s][i] = stream[s][i]
      /\ \A i \in 1 .. Len(M) : stream'[s][N + i] = M[i]
  <2>. HIDE DEF M
  <2>. DEFINE old == stream[s]
              new == old \o M
  <2>1. old \in Seq(Tokens) /\ stream'[s] = new /\ Len(old) = N
    BY <1>1, <1>6 DEF Types
  <2>. HIDE DEF old
  <2>2. new \in Seq(Tokens) /\ Appends(new, old, M)
    BY <1>3, <2>1, Joined
  <2>. HIDE DEF new
  <2>. QED BY <2>1, <2>2 DEF old, Appends
<1>9. /\ sent'[s] \in Seq([what : DOMAIN Message, end : Nat]) /\ Len(sent'[s]) = L + 1
      /\ \A i \in 1 .. L : sent'[s][i] = sent[s][i]
      /\ sent'[s][L + 1] = entry /\ DOMAIN sent'[s] = 1 .. L + 1
  <2>1. entry \in [what : DOMAIN Message, end : Nat]
    BY <1>2, <1>3
  <2>3. sent'[s] = Append(sent[s], entry)
    BY <1>6, <1>8
  <2>. HIDE DEF entry
  <2>2. /\ sent'[s] \in Seq([what : DOMAIN Message, end : Nat]) /\ Len(sent'[s]) = L + 1
        /\ \A i \in 1 .. L : sent'[s][i] = sent[s][i]
        /\ sent'[s][L + 1] = entry
    BY <1>1, <2>1, <2>3, Appended DEF Types
  <2>. QED BY <2>2, LenProperties
<1>10. entry.what = m /\ entry.end = N + Len(M)
  OBVIOUS
<1>. HIDE DEF entry, M
<1>11. /\ \A i \in 0 .. L : Boundary(s, i)' = Boundary(s, i)
       /\ Boundary(s, L + 1)' = N + Len(M)
       /\ Boundary(s, L) = N
       /\ \A i \in 1 .. L : Due(s)'[i] = Due(s)[i]
  <2>1. ASSUME NEW i \in 0 .. L PROVE Boundary(s, i)' = Boundary(s, i)
    <3>1. i = 0 \/ i \in 1 .. L
      BY <1>4
    <3>. QED BY <1>9, <3>1 DEF Boundary
  <2>2. Boundary(s, L + 1)' = N + Len(M)
    <3>1. L + 1 # 0
      BY <1>4
    <3>. QED BY <1>9, <1>10, <3>1 DEF Boundary
  <2>3. ASSUME NEW i \in 1 .. L PROVE Due(s)'[i] = Due(s)[i]
    <3>1. i \in DOMAIN sent[s] /\ i \in DOMAIN sent'[s] /\ sent'[s][i] = sent[s][i]
      BY <1>4, <1>9
    <3>. QED BY <3>1 DEF Due
  <2>4. Boundary(s, L) = N
    BY <1>1 DEF SessionInv, Layout
  <2>. QED BY <2>1, <2>2, <2>3, <2>4
<1>12. Types(s)' /\ Fresh(s)'
  <2>1. Types(s) /\ Fresh(s)
    BY <1>1 DEF SessionInv
  <2>2. pos[s] \in 0 .. Len(stream'[s])
    BY <1>3, <1>4, <1>8
  <2>3. Types(s)'
    BY <1>5, <1>8, <1>9, <2>1, <2>2 DEF Types
  <2>4. Fresh(s)'
    BY <1>5, <2>1 DEF Fresh
  <2>. QED BY <2>3, <2>4
<1>13. Layout(s)'
  <2>1. Boundary(s, L + 1)' = Len(stream'[s])
    BY <1>8, <1>11
  <2>4. \A i \in 0 .. L : Boundary(s, i) \in Nat
    <3>1. ASSUME NEW i \in 1 .. L PROVE Boundary(s, i) \in Nat
      <4>1. sent[s][i] \in [what : DOMAIN Message, end : Nat]
        BY <1>1, <1>4, ElementOfSeq DEF Types
      <4>. QED BY <4>1 DEF Boundary
    <3>. QED BY <3>1 DEF Boundary
  <2>2. ASSUME NEW i \in 0 .. L + 1, NEW j \in 0 .. L + 1, i < j
        PROVE  Boundary(s, i)' < Boundary(s, j)'
    <3>1. CASE j \in 0 .. L
      <4>1. i \in 0 .. L /\ Boundary(s, i) < Boundary(s, j)
        BY <1>1, <1>4, <2>2, <3>1 DEF SessionInv, Layout
      <4>. QED BY <1>11, <3>1, <4>1
    <3>2. CASE j = L + 1
      <4>1. i \in 0 .. L
        BY <1>4, <2>2, <3>2
      <4>2. Boundary(s, i) <= N
        <5>1. CASE i = L
          BY <1>4, <1>11, <5>1
        <5>2. CASE i < L
          <6>1. Boundary(s, i) < Boundary(s, L) /\ i \in 0 .. L /\ L \in 0 .. L
            BY <1>1, <1>4, <4>1, <5>2 DEF SessionInv, Layout
          <6>. QED BY <1>11, <2>4, <6>1
        <5>. QED BY <1>4, <4>1, <5>1, <5>2
      <4>3. Boundary(s, i)' = Boundary(s, i) /\ Boundary(s, i) \in Nat
        BY <1>11, <2>4, <4>1
      <4>4. Boundary(s, j)' = N + Len(M)
        BY <1>11, <3>2
      <4>. QED BY <1>3, <4>2, <4>3, <4>4
    <3>. QED BY <1>4, <3>1, <3>2
  <2>3. ASSUME NEW i \in 1 .. L + 1
        PROVE  /\ proto = "http" => sent'[s][i].what \in {"get", "other", "post"}
               /\ Placed(stream'[s], Boundary(s, i - 1)', Boundary(s, i)',
                         Message[sent'[s][i].what])
    <3>1. CASE i \in 1 .. L
      <4>. DEFINE w == Message[sent[s][i].what]
      <4>1. /\ proto = "http" => sent[s][i].what \in {"get", "other", "post"}
            /\ Boundary(s, i) = Boundary(s, i - 1) + Len(w)
            /\ Boundary(s, i) <= N
            /\ \A j \in 1 .. Len(w) : stream[s][Boundary(s, i - 1) + j] = w[j]
        BY <1>1, <1>4, <3>1 DEF SessionInv, Layout, Placed
      <4>2. i \in 0 .. L /\ i - 1 \in 0 .. L
        BY <1>4, <3>1
      <4>3. sent'[s][i] = sent[s][i]
        BY <1>9, <3>1
      <4>4. Boundary(s, i)' = Boundary(s, i) /\ Boundary(s, i - 1)' = Boundary(s, i - 1)
        BY <1>11, <4>2
      <4>5. Boundary(s, i - 1) \in Nat /\ Len(w) \in Nat
        <5>1. sent[s][i] \in [what : DOMAIN Message, end : Nat]
          BY <1>1, <1>4, <3>1, ElementOfSeq DEF Types
        <5>2. sent[s][i].what \in DOMAIN Message
          BY <5>1
        <5>3. Len(w) \in Nat
          BY <5>2, MessageTypes
        <5>. QED BY <2>4, <4>2, <5>3
      <4>. HIDE DEF w
      <4>6. ASSUME NEW j \in 1 .. Len(w) PROVE stream'[s][Boundary(s, i - 1) + j] = w[j]
        <5>1. Boundary(s, i - 1) + j \in 1 .. N
          BY <1>4, <4>1, <4>5
        <5>. QED BY <1>8, <4>1, <5>1
      <4>7. Boundary(s, i) <= Len(stream'[s])
        BY <1>3, <1>4, <1>8, <4>1, <4>5
      <4>8. Placed(stream'[s], Boundary(s, i - 1), Boundary(s, i), w)
        BY <4>1, <4>6, <4>7 DEF Placed
      <4>. QED BY <4>1, <4>3, <4>4, <4>8 DEF w
    <3>2. CASE i = L + 1
      <4>1. i - 1 = L /\ L \in 0 .. L
        BY <1>4, <3>2
      <4>2. sent'[s][i].what = m /\ Message[sent'[s][i].what] = M
        BY <1>9, <1>10, <3>2 DEF M
      <4>3. Boundary(s, i)' = N + Len(M) /\ Boundary(s, i - 1)' = N
        <5>1. Boundary(s, i)' = Boundary(s, L + 1)'
          BY <3>2
        <5>2. Boundary(s, i - 1)' = Boundary(s, L)'
          BY <4>1
        <5>. QED BY <1>11, <4>1, <5>1, <5>2
      <4>. DEFINE w  == Message[sent'[s][i].what]
                  lo == Boundary(s, i - 1)'
                  hi == Boundary(s, i)'
      <4>4. w = M /\ lo = N /\ hi = N + Len(M)
        BY <4>2, <4>3
      <4>5. proto = "http" => sent'[s][i].what \in {"get", "other", "post"}
        BY <1>2, <4>2
      <4>. HIDE DEF w, lo, hi
      <4>6. hi = lo + Len(w) /\ hi <= Len(stream'[s])
        BY <1>3, <1>4, <1>8, <4>4
      <4>7. \A j \in 1 .. Len(w) : stream'[s][lo + j] = w[j]
        BY <1>8, <4>4
      <4>8. Placed(stream'[s], lo, hi, w)
        BY <4>6, <4>7 DEF Placed
      <4>. QED BY <4>5, <4>8 DEF w, lo, hi
    <3>3. i \in 1 .. L \/ i = L + 1
      BY <1>4
    <3>. QED BY <3>1, <3>2, <3>3
  <2>5. Len(sent'[s]) = L + 1 /\ DOMAIN sent'[s] = 1 .. L + 1
    BY <1>9
  <2>6. Message' = Message
    BY DEF Message
  <2>7. Boundary(s, Len(sent[s]))' = Len(stream[s])'
    BY <2>1, <2>5
  <2>8. \A i, j \in 0 .. Len(sent[s])' : i < j => Boundary(s, i)' < Boundary(s, j)'
    BY <2>2, <2>5
  <2>9. ASSUME NEW i \in DOMAIN sent'[s]
        PROVE  /\ proto' = "http" => sent'[s][i].what \in {"get", "other", "post"}
               /\ Placed(stream'[s], Boundary(s, i - 1)', Boundary(s, i)',
                         Message'[sent'[s][i].what])
    BY <1>5, <2>3, <2>5, <2>6
  <2>. QED BY <2>7, <2>8, <2>9 DEF Layout
<1>14. Echo(s)'
  <2>1. SUFFICES ASSUME proto = "echo", s \notin cut
        PROVE  /\ G <= Len(stream'[s])
               /\ \A i \in 1 .. G : got[s][i] = stream'[s][i]
               /\ at[s] = "read" => G = pos[s]
               /\ at[s] = "write" =>
                    /\ G + Len(reply[s]) = pos[s]
                    /\ \A i \in 1 .. Len(reply[s]) : reply[s][i] = stream'[s][G + i]
    BY <1>5 DEF Echo
  <2>2. /\ G <= N
        /\ \A i \in 1 .. G : got[s][i] = stream[s][i]
        /\ at[s] = "read" => G = pos[s]
        /\ at[s] = "write" =>
             /\ G + Len(reply[s]) = pos[s]
             /\ \A i \in 1 .. Len(reply[s]) : reply[s][i] = stream[s][G + i]
    BY <1>1, <2>1 DEF SessionInv, Echo
  <2>3. ASSUME NEW i \in 1 .. G PROVE got[s][i] = stream'[s][i]
    <3>1. i \in 1 .. N
      BY <1>4, <2>2
    <3>. QED BY <1>8, <2>2, <3>1
  <2>4. ASSUME at[s] = "write", NEW i \in 1 .. Len(reply[s])
        PROVE  reply[s][i] = stream'[s][G + i]
    <3>0. G + Len(reply[s]) <= N /\ reply[s][i] = stream[s][G + i]
      BY <1>4, <2>2, <2>4
    <3>. DEFINE b == Len(reply[s])
    <3>2. b \in Nat /\ G + b <= N /\ i \in 1 .. b
      BY <1>4, <3>0
    <3>. HIDE DEF b
    <3>1. G + i \in 1 .. N
      BY <3>2
    <3>. QED BY <1>8, <3>0, <3>1
  <2>5. G <= Len(stream'[s])
    BY <1>3, <1>4, <1>8, <2>2
  <2>. QED BY <2>2, <2>3, <2>4, <2>5
<1>15. Http(s)'
  <2>1. SUFFICES ASSUME proto = "http", s \notin cut, aligned[s]
        PROVE  /\ G <= Len(sent'[s])
               /\ \A i \in 1 .. G : got[s][i] = Due(s)'[i]
               /\ at[s] = "read" => pos[s] = Boundary(s, G)'
               /\ at[s] = "write" =>
                    /\ G < Len(sent'[s])
                    /\ pos[s] = Boundary(s, G + 1)'
                    /\ reply[s] = <<Due(s)'[G + 1]>>
    BY <1>5 DEF Http
  <2>2. /\ G <= L
        /\ \A i \in 1 .. G : got[s][i] = Due(s)[i]
        /\ at[s] = "read" => pos[s] = Boundary(s, G)
        /\ at[s] = "write" =>
             /\ G < L
             /\ pos[s] = Boundary(s, G + 1)
             /\ reply[s] = <<Due(s)[G + 1]>>
    BY <1>1, <2>1 DEF SessionInv, Http
  <2>3. ASSUME NEW i \in 1 .. G PROVE got[s][i] = Due(s)'[i]
    <3>1. i \in 1 .. L
      BY <1>4, <2>2
    <3>. QED BY <1>11, <2>2, <3>1
  <2>4. G \in 0 .. L /\ (G < L => G + 1 \in 1 .. L /\ G + 1 \in 0 .. L)
    BY <1>4, <2>2
  <2>5. G <= Len(sent'[s]) /\ (G < L => G < Len(sent'[s]))
    BY <1>4, <1>9, <2>2
  <2>. QED BY <1>11, <2>2, <2>3, <2>4, <2>5
<1>16. SessionInv(s)'
  BY <1>12, <1>13, <1>14, <1>15 DEF SessionInv
<1>. QED BY <1>1, <1>5, <1>6, <1>7, <1>16 DEF IInv, Common, UndefinedNeedsSplit

\* What a session does by itself: its peer's messages stay, and so do the
\* other sessions.
LEMMA SessionSteps ==
  ASSUME IInv, NEW s \in Sessions, Shape',
         UNCHANGED <<proto, sent, stream, fin, listener>>, at[s] \in {"read", "write"},
         process' \in {"running", "over", "panicked", "undefined"},
         process' = "undefined" => ~aligned'[s],
         cut' \in {cut, cut \cup {s}}, eptr' \in {eptr, eptr \cup {s}},
         \A r \in Sessions : r # s => /\ at'[r] = at[r] /\ pos'[r] = pos[r]
                                      /\ reply'[r] = reply[r] /\ got'[r] = got[r]
                                      /\ aligned'[r] = aligned[r],
         at'[s] \in {"read", "write", "close", "done"}, Types(s)', Echo(s)', Http(s)'
  PROVE  IInv'
<1>1. ASSUME NEW r \in Sessions, r # s PROVE SessionInv(r)'
  <2>1. r \in cut' <=> r \in cut
    BY <1>1
  <2>. QED BY <1>1, <2>1, SameInv DEF IInv, Same
<1>2. SessionInv(s) /\ Common
  BY DEF IInv
<1>3. Fresh(s)'
  BY <1>2 DEF SessionInv, Fresh
<1>4. Layout(s)'
  BY <1>2, SameLayout DEF SessionInv
<1>5. Common'
  BY <1>2 DEF Common, UndefinedNeedsSplit
<1>. QED BY <1>1, <1>3, <1>4, <1>5 DEF IInv, SessionInv

LEMMA OneMore ==
  ASSUME NEW g \in Nat, NEW i \in 1 .. g + 1
  PROVE  i \in 1 .. g \/ i = g + 1
OBVIOUS

LEMMA Beyond ==
  ASSUME NEW g \in Nat, NEW n \in Nat, NEW i \in 1 .. g + n, i > g
  PROVE  i - g \in 1 .. n /\ g + (i - g) = i
OBVIOUS

LEMMA WriteSteps ==
  ASSUME IInv, NEW s \in Sessions, Write(s)
  PROVE  IInv'
<1>1. SessionInv(s) /\ Common /\ Types(s)
  BY DEF IInv, SessionInv
<1>0. \E l, n, g, p, k \in Nat : /\ l = Len(sent[s]) /\ n = Len(stream[s]) /\ g = Len(got[s])
                                 /\ p = pos[s] /\ k = Len(reply[s])
  BY <1>1, Lengths
<1>. PICK L, N, G, P, K \in Nat : /\ L = Len(sent[s]) /\ N = Len(stream[s]) /\ G = Len(got[s])
                                  /\ P = pos[s] /\ K = Len(reply[s])
  BY <1>0
<1>. DEFINE Item == Tokens \cup Answers
<1>2. /\ reply[s] \in Seq(Item) /\ got[s] \in Seq(Item) /\ P <= N
      /\ DOMAIN reply[s] = 1 .. K
  BY <1>1, Lengths, LenProperties DEF Types
<1>3. /\ UNCHANGED <<proto, listener, sent, stream, fin, pos, aligned>>
      /\ process = "running" /\ at[s] = "write"
      /\ reply' = [reply EXCEPT ![s] = <<>>]
      /\ \/ Go(s, "read") /\ UNCHANGED <<process, eptr>>
         \/ Catch(s)
  BY DEF Write, Running, peerVars
<1>8. /\ at'[s] \in {"read", "close", "done"} /\ \A r \in Sessions : r # s => at'[r] = at[r]
      /\ at' = [r \in Sessions |-> at'[r]]
      /\ process' \in {"running", "panicked", "over"} /\ eptr' \in {eptr, eptr \cup {s}}
  <2>1. CASE Go(s, "read") /\ UNCHANGED <<process, eptr>>
    BY <1>1, <1>3, <2>1 DEF Go, Common, Shape
  <2>2. CASE Catch(s)
    BY <1>1, <1>3, <2>2, Leaves DEF Catch
  <2>. QED BY <1>3, <2>1, <2>2
<1>4. /\ reply'[s] = <<>> /\ \A r \in Sessions : r # s => reply'[r] = reply[r]
      /\ reply' = [r \in Sessions |-> reply'[r]]
  BY <1>1, <1>3 DEF Common, Shape
<1>5. ASSUME NEW piece \in Seq(Item), got' = [got EXCEPT ![s] = @ \o piece],
             \/ piece = reply[s] /\ cut' = cut
             \/ cut' = cut \cup {s}
      PROVE  IInv'
  <2>1. /\ got'[s] = got[s] \o piece
        /\ \A r \in Sessions : r # s => got'[r] = got[r]
        /\ Shape'
    BY <1>1, <1>3, <1>4, <1>5, <1>8 DEF Common, Shape
  <2>2. got'[s] \in Seq(Item) /\ Appends(got'[s], got[s], piece)
    <3>. DEFINE old == got[s]
    <3>1. old \in Seq(Item)
      BY <1>2
    <3>. HIDE DEF old, Item
    <3>2. old \o piece \in Seq(Item) /\ Appends(old \o piece, old, piece)
      BY <1>5, <3>1, Joined
    <3>. QED BY <2>1, <3>2 DEF old
  <2>3. Types(s)'
    <3>1. <<>> \in Seq(Item)
      BY EmptySeq
    <3>. QED BY <1>1, <1>3, <1>4, <1>8, <2>2, <3>1 DEF Types, Where
  <2>4. CASE cut' = cut \cup {s}
    <3>1. Echo(s)' /\ Http(s)'
      BY <2>4 DEF Echo, Http
    <3>. QED BY <1>3, <1>4, <1>8, <2>1, <2>3, <2>4, <3>1, SessionSteps
  <2>5. CASE piece = reply[s] /\ cut' = cut
    <3>0. /\ Len(got'[s]) = G + K
          /\ \A i \in 1 .. G : got'[s][i] = got[s][i]
          /\ \A i \in 1 .. K : got'[s][G + i] = reply[s][i]
      BY <2>2, <2>5 DEF Appends
    <3>1. Echo(s)'
      <4>1. SUFFICES ASSUME proto = "echo", s \notin cut
            PROVE  /\ Len(got'[s]) <= N /\ Len(got'[s]) = P
                   /\ \A i \in 1 .. Len(got'[s]) : got'[s][i] = stream[s][i]
        BY <1>3, <1>8, <2>5 DEF Echo
      <4>2. /\ G + K = P
            /\ \A i \in 1 .. G : got[s][i] = stream[s][i]
            /\ \A i \in 1 .. K : reply[s][i] = stream[s][G + i]
        BY <1>1, <1>3, <4>1 DEF SessionInv, Echo
      <4>3. ASSUME NEW i \in 1 .. G + K PROVE got'[s][i] = stream[s][i]
        <5>1. CASE i <= G
          <6>1. i \in 1 .. G
            BY <5>1
          <6>. QED BY <3>0, <4>2, <6>1
        <5>2. CASE i > G
          <6>. DEFINE k == i - G
          <6>1. k \in 1 .. K /\ G + k = i
            BY <5>2, Beyond
          <6>. HIDE DEF k
          <6>2. got'[s][G + k] = reply[s][k] /\ reply[s][k] = stream[s][G + k]
            BY <3>0, <4>2, <6>1
          <6>. QED BY <6>1, <6>2
        <5>. QED BY <5>1, <5>2
      <4>. QED BY <1>2, <3>0, <4>2, <4>3
    <3>2. Http(s)'
      <4>1. SUFFICES ASSUME proto = "http", s \notin cut, aligned[s]
            PROVE  /\ Len(got'[s]) <= L /\ Len(got'[s]) = G + 1
                   /\ \A i \in 1 .. G + 1 : got'[s][i] = Due(s)[i]
                   /\ P = Boundary(s, G + 1)
        <5>1. Due(s)' = Due(s) /\ \A i : Boundary(s, i)' = Boundary(s, i)
          BY <1>3, SameMessages
        <5>. QED BY <1>3, <1>8, <2>5, <5>1 DEF Http
      <4>2. /\ G < L /\ P = Boundary(s, G + 1)
            /\ \A i \in 1 .. G : got[s][i] = Due(s)[i]
            /\ reply[s] = <<Due(s)[G + 1]>>
        BY <1>1, <1>3, <4>1 DEF SessionInv, Http
      <4>3. K = 1 /\ reply[s][1] = Due(s)[G + 1]
        BY <4>2
      <4>4. got'[s][G + 1] = Due(s)[G + 1] /\ Len(got'[s]) = G + 1
        BY <3>0, <4>3
      <4>5. ASSUME NEW i \in 1 .. G + 1 PROVE got'[s][i] = Due(s)[i]
        <5>1. i \in 1 .. G \/ i = G + 1
          BY OneMore
        <5>2. CASE i \in 1 .. G
          BY <3>0, <4>2, <5>2
        <5>. QED BY <4>4, <5>1, <5>2
      <4>6. Len(got'[s]) <= L
        BY <1>2, <4>2, <4>4
      <4>7. P = Boundary(s, G + 1)
        BY <4>2
      <4>. QED BY <4>4, <4>5, <4>6, <4>7
    <3>. QED BY <1>3, <1>4, <1>8, <2>1, <2>3, <2>5, <3>1, <3>2, SessionSteps
  <2>. QED BY <1>5, <2>4, <2>5
<1>6. CASE got' = [got EXCEPT ![s] = @ \o reply[s]] /\ UNCHANGED cut
  BY <1>2, <1>5, <1>6
<1>7. CASE /\ \E n \in 0 .. Len(reply[s]) - 1 :
                got' = [got EXCEPT ![s] = @ \o SubSeq(reply[s], 1, n)]
           /\ cut' = cut \cup {s}
  <2>1. PICK n \in 0 .. K - 1 : got' = [got EXCEPT ![s] = @ \o SubSeq(reply[s], 1, n)]
    BY <1>7
  <2>2. SubSeq(reply[s], 1, n) \in Seq(Item)
    <3>. DEFINE old == reply[s]
    <3>1. n \in Nat /\ n <= Len(old) /\ old \in Seq(Item)
      BY <1>2, <2>1
    <3>. HIDE DEF old, Item
    <3>2. 0 \in Nat /\ 0 + 1 = 1
      OBVIOUS
    <3>3. SubSeq(old, 0 + 1, n) \in Seq(Item)
      BY <3>1, <3>2, Part
    <3>. QED BY <3>2, <3>3 DEF old
  <2>. QED BY <1>5, <1>7, <2>1, <2>2
<1>. QED BY <1>6, <1>7 DEF Write

Finds(s, i, part) == \E r \in RequestLines : Parse(part) = {r} /\ Due(s)[i] = Answer[r]

\* A read that takes one message finds its request.
LEMMA WholeMessage ==
  ASSUME NEW s \in Sessions, Types(s), Layout(s), proto = "http",
         NEW i \in DOMAIN sent[s], NEW p \in Nat, NEW n \in Nat,
         p = Boundary(s, i - 1), n = Boundary(s, i)
  PROVE  Finds(s, i, SubSeq(stream[s], p + 1, n))
<1>. DEFINE w == sent[s][i].what
            text == Message[w]
            old == stream[s]
<1>1. /\ w \in {"get", "other", "post"} /\ n = p + Len(text) /\ n <= Len(old)
      /\ \A j \in 1 .. Len(text) : old[p + j] = text[j]
  BY DEF Layout, Placed
<1>2. w \in DOMAIN Message
  BY <1>1 DEF Message
<1>3. text \in Seq(Tokens) /\ Len(text) \in Nat
  BY <1>2, MessageTypes
<1>4. Parse(text) = {text[1]} /\ text[1] \in RequestLines /\ Due(s)[i] = Answer[text[1]]
  <2>1. Due(s)[i] = Answer[text[1]]
    BY DEF Due
  <2>. HIDE DEF w
  <2>. QED BY <1>1, <2>1, MessagesParse
<1>5. old \in Seq(Tokens)
  BY DEF Types
<1>. HIDE DEF text, old
<1>. DEFINE chunk == SubSeq(old, p + 1, n)
<1>6. chunk \in Seq(Tokens) /\ Len(chunk) = n - p /\ \A j \in 1 .. n - p : chunk[j] = old[p + j]
  <2>1. p <= n
    BY <1>1, <1>3
  <2>2. chunk \in Seq(Tokens) /\ Takes(chunk, old, p, n)
    BY <1>1, <1>5, <2>1, Taken
  <2>. HIDE DEF chunk
  <2>. QED BY <2>2 DEF Takes
<1>7. n - p = Len(text)
  BY <1>1, <1>3
<1>. HIDE DEF chunk
<1>8. chunk = text
  BY <1>1, <1>3, <1>6, <1>7, SeqEqual
<1>. QED BY <1>4, <1>8 DEF chunk, old, Finds

LEMMA ReceiveSteps ==
  ASSUME IInv, NEW s \in Sessions, Receive(s)
  PROVE  IInv'
<1>1. SessionInv(s) /\ Common /\ Types(s) /\ Layout(s)
  BY DEF IInv, SessionInv
<1>0. \E l, n, g, p \in Nat : /\ l = Len(sent[s]) /\ n = Len(stream[s]) /\ g = Len(got[s])
                              /\ p = pos[s]
  BY <1>1, Lengths
<1>. PICK L, N, G, P \in Nat : /\ L = Len(sent[s]) /\ N = Len(stream[s]) /\ G = Len(got[s])
                               /\ P = pos[s]
  BY <1>0
<1>. DEFINE Item == Tokens \cup Answers
            Chunk(n) == SubSeq(stream[s], P + 1, n)
<1>2. DOMAIN sent[s] = 1 .. L
  BY <1>1, Lengths
<1>3. /\ UNCHANGED <<proto, listener, sent, stream, fin, got, cut>>
      /\ process = "running" /\ at[s] = "read" /\ proto \in {"echo", "http"}
  BY <1>1 DEF Receive, Running, peerVars, Common
<1>4. PICK n \in P + 1 .. N :
         /\ pos' = [pos EXCEPT ![s] = n]
         /\ aligned' = [aligned EXCEPT ![s] = @ /\ (proto = "http" => Whole(s, n))]
         /\ \/ Catch(s) /\ UNCHANGED reply
            \/ /\ proto = "echo"
               /\ reply' = [reply EXCEPT ![s] = Chunk(n)]
               /\ Go(s, "write")
               /\ UNCHANGED <<process, eptr>>
            \/ /\ proto = "http"
               /\ \E outcome \in Parse(Chunk(n)) :
                    \/ /\ outcome = "undefined"
                       /\ process' = "undefined"
                       /\ UNCHANGED <<reply, at, eptr>>
                    \/ /\ outcome \in RequestLines
                       /\ Respond(s, outcome)
                       /\ UNCHANGED <<process, eptr>>
  BY DEF Receive
<1>5. n \in Nat /\ P < n /\ n <= N /\ n \in 0 .. N
  BY <1>4
<1>6. /\ Chunk(n) \in Seq(Tokens) /\ Len(Chunk(n)) = n - P
      /\ \A i \in 1 .. n - P : Chunk(n)[i] = stream[s][P + i]
  <2>. DEFINE old == stream[s]
  <2>1. old \in Seq(Tokens) /\ n <= Len(old) /\ P <= n
    BY <1>1, <1>5 DEF Types
  <2>. HIDE DEF old
  <2>2. SubSeq(old, P + 1, n) \in Seq(Tokens) /\ Takes(SubSeq(old, P + 1, n), old, P, n)
    BY <1>5, <2>1, Taken
  <2>. QED BY <2>2 DEF old, Takes
<1>7. /\ pos'[s] = n /\ \A r \in Sessions : r # s => pos'[r] = pos[r]
      /\ pos' = [r \in Sessions |-> pos'[r]]
  BY <1>1, <1>4 DEF Common, Shape
<1>8. /\ got[s] \in Seq(Item) /\ reply[s] \in Seq(Item)
  BY <1>1 DEF Types
<1>11. /\ aligned'[s] = (aligned[s] /\ (proto = "http" => Whole(s, n)))
       /\ \A r \in Sessions : r # s => aligned'[r] = aligned[r]
       /\ aligned' = [r \in Sessions |-> aligned'[r]]
  <2>1. aligned = [r \in Sessions |-> aligned[r]]
    BY <1>1 DEF Common, Shape
  <2>. QED BY <1>4, <2>1
<1>12. aligned'[s] \in BOOLEAN
  <2>1. (aligned[s] /\ (proto = "http" => Whole(s, n))) \in BOOLEAN
    OBVIOUS
  <2>. QED BY <1>11, <2>1, Zenon
<1>13. aligned'[s] => aligned[s] /\ (proto = "http" => Whole(s, n))
  BY <1>11
<1>14. CASE Catch(s) /\ UNCHANGED reply
  <2>1. /\ at'[s] \in {"close", "done"} /\ \A r \in Sessions : r # s => at'[r] = at[r]
        /\ at' = [r \in Sessions |-> at'[r]]
        /\ process' \in {"running", "panicked", "over"} /\ eptr' = eptr \cup {s}
    BY <1>1, <1>3, <1>14, Leaves DEF Catch
  <2>2. Shape'
    BY <1>1, <1>3, <1>7, <1>11, <1>14, <2>1 DEF Common, Shape
  <2>3. Types(s)'
    BY <1>1, <1>3, <1>5, <1>7, <1>12, <1>14, <2>1 DEF Types, Where
  <2>4. Echo(s)'
    BY <1>1, <1>3, <2>1 DEF SessionInv, Echo
  <2>5. Http(s)'
    <3>1. Due(s)' = Due(s)
      BY <1>3, SameMessages
    <3>. QED BY <1>1, <1>3, <1>13, <2>1, <3>1 DEF SessionInv, Http
  <2>. QED BY <1>3, <1>7, <1>11, <1>14, <2>1, <2>2, <2>3, <2>4, <2>5, SessionSteps
<1>9. CASE /\ proto = "echo"
           /\ reply' = [reply EXCEPT ![s] = Chunk(n)]
           /\ Go(s, "write")
           /\ UNCHANGED <<process, eptr>>
  <2>. DEFINE chunk == Chunk(n)
  <2>1. reply' = [reply EXCEPT ![s] = chunk] /\ Go(s, "write") /\ UNCHANGED <<process, eptr>>
    BY <1>9
  <2>2. chunk \in Seq(Tokens) /\ Len(chunk) = n - P /\ \A i \in 1 .. n - P : chunk[i] = stream[s][P + i]
    BY <1>6
  <2>. HIDE DEF chunk
  <2>3. /\ at'[s] = "write" /\ reply'[s] = chunk
        /\ \A r \in Sessions : r # s => at'[r] = at[r] /\ reply'[r] = reply[r]
        /\ Shape'
    BY <1>1, <1>3, <1>7, <1>11, <2>1 DEF Go, Common, Shape
  <2>4. chunk \in Seq(Item)
    <3>1. Tokens \subseteq Item
      OBVIOUS
    <3>. HIDE DEF Item
    <3>. QED BY <2>2, <3>1, SeqMonotonic
  <2>5. Types(s)'
    BY <1>1, <1>3, <1>5, <1>7, <1>12, <2>1, <2>3, <2>4 DEF Types, Where
  <2>6. Echo(s)'
    <3>1. SUFFICES ASSUME s \notin cut
          PROVE  /\ G <= N
                 /\ \A i \in 1 .. G : got[s][i] = stream[s][i]
                 /\ G + Len(chunk) = n
                 /\ \A i \in 1 .. Len(chunk) : chunk[i] = stream[s][G + i]
      BY <1>3, <1>7, <2>3 DEF Echo
    <3>2. /\ G <= N /\ G = P
          /\ \A i \in 1 .. G : got[s][i] = stream[s][i]
      BY <1>1, <1>3, <1>9, <3>1 DEF SessionInv, Echo
    <3>3. G + Len(chunk) = n
      BY <1>5, <2>2, <3>2
    <3>. QED BY <2>2, <3>2, <3>3
  <2>7. Http(s)'
    BY <1>3, <1>9 DEF Http
  <2>. QED BY <1>3, <1>7, <1>11, <2>1, <2>3, <2>5, <2>6, <2>7, SessionSteps
<1>10. CASE /\ proto = "http"
            /\ \E outcome \in Parse(Chunk(n)) :
                 \/ /\ outcome = "undefined"
                    /\ process' = "undefined"
                    /\ UNCHANGED <<reply, at, eptr>>
                 \/ /\ outcome \in RequestLines
                    /\ Respond(s, outcome)
                    /\ UNCHANGED <<process, eptr>>
  <2>2. PICK outcome \in Parse(Chunk(n)) :
                    \/ /\ outcome = "undefined"
                       /\ process' = "undefined"
                       /\ UNCHANGED <<reply, at, eptr>>
                    \/ /\ outcome \in RequestLines
                       /\ Respond(s, outcome)
                       /\ UNCHANGED <<process, eptr>>
    BY <1>10
  <2>5. ASSUME aligned'[s]
        PROVE  \E i \in 1 .. L : /\ P = Boundary(s, i - 1) /\ n = Boundary(s, i) /\ aligned[s]
                                 /\ outcome \in RequestLines /\ Due(s)[i] = Answer[outcome]
    <3>1. aligned[s] /\ Whole(s, n)
      BY <1>10, <1>13, <2>5
    <3>2. PICK i \in DOMAIN sent[s] : P = Boundary(s, i - 1) /\ n = Boundary(s, i)
      BY <3>1 DEF Whole
    <3>5. Finds(s, i, SubSeq(stream[s], P + 1, n))
      <4>. HIDE DEF Chunk
      <4>. QED BY <1>1, <1>5, <1>10, <3>2, WholeMessage
    <3>3. PICK r \in RequestLines : Parse(Chunk(n)) = {r} /\ Due(s)[i] = Answer[r]
      BY <3>5 DEF Finds
    <3>4. outcome = r
      BY <2>2, <3>3
    <3>. QED BY <1>2, <3>1, <3>2, <3>3, <3>4
  <2>6. "undefined" \notin RequestLines
    BY DEF RequestLines
  <2>. DEFINE answer == Answer[outcome]
  <2>7. /\ at'[s] \in {"read", "write"} /\ eptr' = eptr
        /\ \A r \in Sessions : r # s => at'[r] = at[r] /\ reply'[r] = reply[r]
        /\ process' \in {"running", "undefined"}
        /\ process' = "undefined" => ~aligned'[s]
        /\ at'[s] = "read" => ~aligned'[s]
        /\ at'[s] = "write" => outcome \in RequestLines /\ reply'[s] = <<answer>>
        /\ reply'[s] \in Seq(Item)
        /\ Shape'
    <3>1. CASE outcome = "undefined" /\ process' = "undefined" /\ UNCHANGED <<reply, at, eptr>>
      <4>1. ~aligned'[s]
        BY <2>5, <2>6, <3>1
      <4>2. Shape'
        BY <1>1, <1>3, <1>7, <1>11, <3>1 DEF Common, Shape
      <4>. QED BY <1>3, <1>8, <3>1, <4>1, <4>2
    <3>2. CASE outcome \in RequestLines /\ Respond(s, outcome) /\ UNCHANGED <<process, eptr>>
      <4>1. answer \in Item
        BY <3>2 DEF Answer, Answers, RequestLines
      <4>2. Go(s, "write") /\ reply' = [reply EXCEPT ![s] = <<answer>>]
        BY <3>2 DEF Respond
      <4>. HIDE DEF answer, Item
      <4>3. /\ at'[s] = "write" /\ reply'[s] = <<answer>>
            /\ \A r \in Sessions : r # s => at'[r] = at[r] /\ reply'[r] = reply[r]
        BY <1>1, <4>2 DEF Go, Common, Shape
      <4>4. Shape'
        BY <1>1, <1>3, <1>7, <1>11, <4>2 DEF Go, Common, Shape
      <4>5. <<answer>> \in Seq(Item)
        BY <4>1
      <4>. QED BY <1>3, <3>2, <4>3, <4>4, <4>5
    <3>. QED BY <2>2, <3>1, <3>2
  <2>. HIDE DEF answer
  <2>8. Types(s)'
    <3>1. at'[s] \in Where
      BY <2>7 DEF Where
    <3>. QED BY <1>1, <1>3, <1>5, <1>7, <1>12, <2>7, <3>1 DEF Types
  <2>9. Echo(s)'
    BY <1>3, <1>10 DEF Echo
  <2>10. Http(s)'
    <3>1. SUFFICES ASSUME s \notin cut, aligned'[s]
          PROVE  /\ G <= L /\ \A i \in 1 .. G : got[s][i] = Due(s)[i]
                 /\ at'[s] = "write" =>
                      /\ G < L /\ n = Boundary(s, G + 1) /\ reply'[s] = <<Due(s)[G + 1]>>
      <4>1. Due(s)' = Due(s) /\ \A i : Boundary(s, i)' = Boundary(s, i)
        BY <1>3, SameMessages
      <4>. QED BY <1>3, <1>7, <2>7, <4>1 DEF Http
    <3>2. PICK i \in 1 .. L : /\ P = Boundary(s, i - 1) /\ n = Boundary(s, i) /\ aligned[s]
                              /\ Due(s)[i] = Answer[outcome]
      BY <2>5, <3>1
    <3>3. /\ G <= L /\ P = Boundary(s, G)
          /\ \A j \in 1 .. G : got[s][j] = Due(s)[j]
      BY <1>1, <1>3, <1>10, <3>1, <3>2 DEF SessionInv, Http
    <3>4. \A a, b \in 0 .. L : a < b => Boundary(s, a) < Boundary(s, b)
      BY <1>1 DEF Layout
    <3>5. i - 1 \in 0 .. L /\ G \in 0 .. L
      BY <3>3
    <3>6. i - 1 = G
      <4>. DEFINE k == i - 1
      <4>1. k \in 0 .. L /\ ~(k < G) /\ ~(G < k)
        BY <3>2, <3>3, <3>4, <3>5
      <4>. HIDE DEF k
      <4>2. k = G
        BY <4>1
      <4>. QED BY <4>2 DEF k
    <3>7. i = G + 1 /\ G < L
      BY <3>6
    <3>. QED BY <2>7, <3>2, <3>3, <3>7 DEF answer
  <2>. QED BY <1>3, <1>7, <1>11, <2>7, <2>8, <2>9, <2>10, SessionSteps
<1>. QED BY <1>4, <1>9, <1>10, <1>14

-----------------------------------------------------------------------------
LEMMA InitInv == Init => IInv
<1>. SUFFICES ASSUME Init PROVE IInv
  OBVIOUS
<1>1. Common
  BY DEF Init, Common, UndefinedNeedsSplit, Shape
<1>2. ASSUME NEW s \in Sessions PROVE SessionInv(s)
  <2>1. /\ at[s] = "none" /\ sent[s] = <<>> /\ stream[s] = <<>> /\ pos[s] = 0 /\ reply[s] = <<>>
        /\ got[s] = <<>> /\ aligned[s] = TRUE
    BY DEF Init
  <2>2. \A S : <<>> \in Seq(S) /\ Len(<<>>) = 0 /\ DOMAIN <<>> = {}
    BY EmptySeq
  <2>3. Types(s) /\ Fresh(s)
    <3>1. /\ <<>> \in Seq([what : DOMAIN Message, end : Nat])
          /\ <<>> \in Seq(Tokens) /\ <<>> \in Seq(Tokens \cup Answers) /\ 0 \in 0 .. Len(<<>>)
      BY <2>2
    <3>2. Types(s)
      BY <2>1, <3>1 DEF Types, Where
    <3>. QED BY <2>1, <3>2 DEF Fresh
  <2>4. Layout(s)
    <3>1. DOMAIN sent[s] = {} /\ Len(sent[s]) = 0 /\ Len(stream[s]) = 0 /\ Boundary(s, 0) = 0
      BY <2>1, <2>2 DEF Boundary
    <3>2. \A i, j \in 0 .. 0 : ~(i < j)
      OBVIOUS
    <3>. QED BY <3>1, <3>2 DEF Layout
  <2>5. Echo(s) /\ Http(s)
    BY <2>1, <2>2 DEF Echo, Http
  <2>. QED BY <2>3, <2>4, <2>5 DEF SessionInv
<1>. QED BY <1>1, <1>2 DEF IInv

LEMMA StepInv == IInv /\ [Next]_vars => IInv'
<1>1. CASE UNCHANGED vars
  <2>1. /\ UNCHANGED <<proto, process, listener, at, eptr, sent, stream, fin, pos, reply, got,
                       aligned, cut>>
    BY <1>1 DEF vars, peerVars, sessionVars
  <2>2. ASSUME IInv, NEW r \in Sessions PROVE SessionInv(r)'
    BY <2>1, <2>2, SameInv DEF IInv, Same
  <2>3. Common => Common'
    BY <2>1 DEF Common, UndefinedNeedsSplit, Shape
  <2>. QED BY <2>2, <2>3 DEF IInv
<1>2. CASE Main
  BY <1>2, ListenerSteps, MoveSteps DEF Main
<1>3. ASSUME NEW s \in Sessions, Peer(s) PROVE IInv => IInv'
  BY <1>3, ListenerSteps, SendSteps DEF Peer
<1>4. ASSUME NEW s \in Sessions, Session(s) \/ Fail(s) PROVE IInv => IInv'
  BY <1>4, ReceiveSteps, WriteSteps, MoveSteps DEF Session
<1>. QED BY <1>1, <1>2, <1>3, <1>4 DEF Next

LEMMA Invariance == Spec => []IInv
BY InitInv, StepInv, PTL DEF Spec

LEMMA Prefix ==
  ASSUME NEW S, NEW seq \in Seq(S), NEW T, NEW part \in Seq(T), Len(part) <= Len(seq),
         \A i \in 1 .. Len(part) : part[i] = seq[i]
  PROVE  IsPrefix(part, seq)
<1>. DEFINE n == Len(part)
<1>1. n \in Nat /\ n <= Len(seq) /\ 0 + 1 = 1 /\ n - 0 = n
  OBVIOUS
<1>. HIDE DEF n
<1>2. SubSeq(seq, 0 + 1, n) \in Seq(S) /\ Takes(SubSeq(seq, 0 + 1, n), seq, 0, n)
  BY <1>1, Taken
<1>. DEFINE front == SubSeq(seq, 1, n)
<1>3. front \in Seq(S) /\ Len(front) = n /\ \A i \in 1 .. n : front[i] = seq[0 + i]
  BY <1>1, <1>2 DEF Takes
<1>. HIDE DEF front
<1>4. \A i \in 1 .. n : 0 + i = i
  BY <1>1
<1>5. Len(front) = Len(part) /\ \A i \in 1 .. Len(front) : front[i] = part[i]
  BY <1>3, <1>4 DEF n
<1>6. front = part
  BY <1>3, <1>5, SeqEqual
<1>. QED BY <1>6 DEF IsPrefix, front, n

(***************************************************************************)
(* The variables keep their types, whatever the peers send and whatever a  *)
(* read or a write does of what it was asked: a session never reads past   *)
(* what has arrived (src/demo-echo.cc, src/demo-http.cc).                  *)
(***************************************************************************)
THEOREM TypeCorrectness == Spec => []TypeOK
<1>1. ASSUME IInv PROVE TypeOK
  <2>1. Common /\ \A s \in Sessions : Types(s)
    BY <1>1 DEF IInv, SessionInv
  <2>2. at \in [Sessions -> {"none", "read", "write", "close", "done"}]
    BY <2>1 DEF Common, Shape, Types, Where
  <2>3. aligned \in [Sessions -> BOOLEAN]
    <3>1. aligned = [s \in Sessions |-> aligned[s]] /\ \A s \in Sessions : aligned[s] \in BOOLEAN
      BY <2>1 DEF Common, Shape, Types
    <3>. QED BY <3>1
  <2>. QED BY <2>1, <2>2, <2>3 DEF TypeOK, Common, Types
<1>. QED BY <1>1, Invariance, PTL

(***************************************************************************)
(* demo-http answers the requests of a connection in their order, with     *)
(* what the parser and do_GET make of each, for any number of connections  *)
(* and of requests, as long as every read took one request and no write    *)
(* fell short; a session that waits for more owes no answer.               *)
(***************************************************************************)
THEOREM AnswersComeInOrder == Spec => []AnswersInOrder
<1>1. ASSUME IInv PROVE AnswersInOrder
  <2>1. SUFFICES ASSUME proto = "http", NEW s \in Sessions \ cut, aligned[s]
                 PROVE  /\ IsPrefix(got[s], Due(s))
                        /\ at[s] = "read" => pos[s] = Boundary(s, Len(got[s]))
    BY DEF AnswersInOrder
  <2>2. Types(s) /\ Http(s)
    BY <1>1 DEF IInv, SessionInv
  <2>3. /\ Len(got[s]) <= Len(sent[s])
        /\ \A i \in 1 .. Len(got[s]) : got[s][i] = Due(s)[i]
        /\ at[s] = "read" => pos[s] = Boundary(s, Len(got[s]))
    BY <2>1, <2>2 DEF Http
  <2>. DEFINE due == Due(s)
              all == {due[i] : i \in DOMAIN sent[s]}
  <2>4. DOMAIN sent[s] = 1 .. Len(sent[s]) /\ Len(sent[s]) \in Nat
    BY <2>2, Lengths
  <2>5. due \in [1 .. Len(sent[s]) -> all]
    BY <2>4 DEF Due
  <2>. HIDE DEF all
  <2>6. due \in Seq(all) /\ Len(due) = Len(sent[s])
    <3>. HIDE DEF due
    <3>. QED BY <2>4, <2>5, SeqDef, LenProperties
  <2>7. IsPrefix(got[s], due)
    <3>. DEFINE part == got[s]
    <3>1. /\ part \in Seq(Tokens \cup Answers) /\ Len(part) <= Len(due)
          /\ \A i \in 1 .. Len(part) : part[i] = due[i]
      BY <2>2, <2>3, <2>6 DEF Types
    <3>. HIDE DEF part, due
    <3>2. IsPrefix(part, due)
      BY <2>6, <3>1, Prefix
    <3>. QED BY <3>2 DEF part
  <2>. QED BY <2>3, <2>7
<1>. QED BY <1>1, Invariance, PTL

(***************************************************************************)
(* demo-echo sends back the bytes of each connection in their order, for   *)
(* any number of connections and of bytes and however the reads cut them,  *)
(* unless a write fell short; a session that waits for more owes nothing.  *)
(***************************************************************************)
THEOREM EchoIsWhatCame == Spec => []EchoIsFaithful
<1>1. ASSUME IInv PROVE EchoIsFaithful
  <2>1. SUFFICES ASSUME proto = "echo", NEW s \in Sessions \ cut
                 PROVE  /\ IsPrefix(got[s], stream[s])
                        /\ at[s] = "read" => Len(got[s]) = pos[s]
    BY DEF EchoIsFaithful
  <2>2. Types(s) /\ Echo(s)
    BY <1>1 DEF IInv, SessionInv
  <2>3. /\ Len(got[s]) <= Len(stream[s])
        /\ \A i \in 1 .. Len(got[s]) : got[s][i] = stream[s][i]
        /\ at[s] = "read" => Len(got[s]) = pos[s]
    BY <2>1, <2>2 DEF Echo
  <2>. DEFINE part == got[s]
              whole == stream[s]
  <2>4. /\ part \in Seq(Tokens \cup Answers) /\ whole \in Seq(Tokens) /\ Len(part) <= Len(whole)
        /\ \A i \in 1 .. Len(part) : part[i] = whole[i]
    BY <2>2, <2>3 DEF Types
  <2>. HIDE DEF part, whole
  <2>5. IsPrefix(part, whole)
    BY <2>4, Prefix
  <2>. QED BY <2>3, <2>5 DEF part, whole
<1>. QED BY <1>1, Invariance, PTL

\* A step leaves what session s did, and its peer does not come back.
Keeps(s) == /\ proto' = proto /\ sent'[s] = sent[s] /\ stream'[s] = stream[s]
            /\ pos'[s] = pos[s] /\ got'[s] = got[s] /\ aligned'[s] = aligned[s]
            /\ (s \in cut' <=> s \in cut) /\ fin \subseteq fin'

\* A session that has left its loop without an exception had done so before,
\* or it has just found its peer's shutdown behind all that came before it.
LEMMA CleanEnds ==
  ASSUME IInv, [Next]_vars, NEW s \in Sessions, s \notin eptr', at'[s] \in {"close", "done"}
  PROVE  /\ Keeps(s)
         /\ \/ at[s] \in {"close", "done"} /\ s \notin eptr
            \/ at[s] = "read" /\ s \in fin /\ pos[s] = Len(stream[s])
<1>1. Common
  BY DEF IInv
<1>2. CASE UNCHANGED vars
  BY <1>2 DEF vars, peerVars, sessionVars, Keeps
<1>3. CASE AcceptUnlogged \/ AcceptFails \/ CloseListener
  BY <1>3 DEF AcceptUnlogged, AcceptFails, CloseListener, peerVars, sessionVars, Keeps
<1>4. ASSUME NEW r \in Sessions, Accept(r) PROVE Keeps(s) /\ at[s] = at'[s] /\ eptr = eptr'
  BY <1>1, <1>4 DEF Accept, Go, peerVars, sessionVars, Keeps, Common, Shape
<1>5. ASSUME NEW r \in Sessions, Shut(r) PROVE Keeps(s) /\ at[s] = at'[s] /\ eptr = eptr'
  BY <1>5 DEF Shut, sessionVars, Keeps
<1>6. ASSUME NEW r \in Sessions, NEW m \in Offered, Send(r, m)
      PROVE  Keeps(s) /\ at[s] = at'[s] /\ eptr = eptr'
  <2>1. r # s
    BY <1>6 DEF Send
  <2>2. sent'[s] = sent[s] /\ stream'[s] = stream[s]
    BY <1>1, <1>6, <2>1 DEF Send, Common, Shape
  <2>. QED BY <1>6, <2>2 DEF Send, sessionVars, Keeps
<1>7. ASSUME NEW r \in Sessions, Session(r) \/ Fail(r), r # s
      PROVE  Keeps(s) /\ at[s] = at'[s] /\ (s \in eptr <=> s \in eptr')
  <2>1. CASE Receive(r)
    <3>1. UNCHANGED <<proto, sent, stream, fin, got, cut>> /\ process = "running"
      BY <2>1 DEF Receive, Running, peerVars
    <3>2. pos'[s] = pos[s] /\ aligned'[s] = aligned[s]
      BY <1>1, <1>7, <2>1 DEF Receive, Common, Shape
    <3>3. \/ Catch(r)
          \/ Go(r, "write") /\ eptr' = eptr
          \/ UNCHANGED <<at, eptr>>
      BY <2>1 DEF Receive, Respond
    <3>4. at[s] = at'[s] /\ (s \in eptr <=> s \in eptr')
      BY <1>1, <1>7, <3>1, <3>3, Leaves DEF Catch, Go, Common, Shape
    <3>. QED BY <3>1, <3>2, <3>4 DEF Keeps
  <2>2. CASE Write(r)
    <3>1. UNCHANGED <<proto, sent, stream, fin, pos, aligned>> /\ process = "running"
      BY <2>2 DEF Write, Running, peerVars
    <3>2. got'[s] = got[s] /\ (s \in cut <=> s \in cut')
      BY <1>1, <1>7, <2>2 DEF Write, Common, Shape
    <3>3. \/ Catch(r)
          \/ Go(r, "read") /\ eptr' = eptr
      BY <2>2 DEF Write
    <3>4. at[s] = at'[s] /\ (s \in eptr <=> s \in eptr')
      BY <1>1, <1>7, <3>1, <3>3, Leaves DEF Catch, Go, Common, Shape
    <3>. QED BY <3>1, <3>2, <3>4 DEF Keeps
  <2>3. CASE Eof(r) \/ Fail(r)
    <3>1. UNCHANGED <<peerVars, sessionVars>> /\ process = "running"
      BY <2>3 DEF Eof, Fail, Running
    <3>2. \/ Catch(r)
          \/ LeaveLoop(r) /\ eptr' = eptr
      BY <2>3 DEF Eof, Fail
    <3>3. at[s] = at'[s] /\ (s \in eptr <=> s \in eptr')
      BY <1>1, <1>7, <3>1, <3>2, Leaves DEF Catch
    <3>. QED BY <3>1, <3>3 DEF Keeps, peerVars, sessionVars
  <2>4. CASE Close(r)
    BY <1>1, <1>7, <2>4 DEF Close, Go, peerVars, sessionVars, Keeps, Common, Shape
  <2>. QED BY <1>7, <2>1, <2>2, <2>3, <2>4 DEF Session
<1>8. CASE Session(s) \/ Fail(s)
  <2>1. ~Catch(s)
    BY DEF Catch
  <2>2. CASE Receive(s)
    <3>1. \/ Go(s, "write")
          \/ at' = at /\ at[s] = "read"
      BY <2>1, <2>2 DEF Receive, Respond, Running
    <3>. QED BY <1>1, <3>1 DEF Go, Common, Shape
  <2>3. CASE Write(s)
    <3>1. Go(s, "read")
      BY <2>1, <2>3 DEF Write
    <3>. QED BY <1>1, <3>1 DEF Go, Common, Shape
  <2>4. CASE Eof(s)
    BY <2>1, <2>4 DEF Eof, Running, peerVars, sessionVars, Keeps
  <2>5. CASE Close(s)
    BY <2>5 DEF Close, Running, peerVars, sessionVars, Keeps
  <2>. QED BY <1>8, <2>1, <2>2, <2>3, <2>4, <2>5 DEF Session, Fail
<1>. QED BY <1>2, <1>3, <1>4, <1>5, <1>6, <1>7, <1>8 DEF Next, Main, Peer

\* What a session owes when it has read all that came.
LEMMA Complete ==
  ASSUME NEW s \in Sessions, SessionInv(s), at[s] = "read", pos[s] = Len(stream[s]), s \notin cut
  PROVE  /\ proto = "echo" => got[s] = stream[s]
         /\ proto = "http" /\ aligned[s] => got[s] = Due(s)
<1>1. Types(s) /\ Layout(s) /\ Echo(s) /\ Http(s)
  BY DEF SessionInv
<1>2. PICK L, N, G \in Nat : L = Len(sent[s]) /\ N = Len(stream[s]) /\ G = Len(got[s])
  BY <1>1, Lengths
<1>3. ASSUME proto = "echo" PROVE got[s] = stream[s]
  <2>1. G = N /\ \A i \in 1 .. G : got[s][i] = stream[s][i]
    BY <1>1, <1>2, <1>3 DEF Echo
  <2>. DEFINE whole == stream[s]
              part  == got[s]
  <2>2. part \in Seq(Tokens \cup Answers) /\ whole \in Seq(Tokens) /\ Len(part) = Len(whole)
    BY <1>1, <1>2, <2>1 DEF Types
  <2>3. \A i \in 1 .. Len(part) : part[i] = whole[i]
    BY <1>2, <2>1
  <2>. HIDE DEF part, whole
  <2>4. part = [i \in 1 .. Len(part) |-> part[i]] /\ whole = [i \in 1 .. Len(whole) |-> whole[i]]
    BY <2>2
  <2>5. part = whole
    BY <2>2, <2>3, <2>4
  <2>. QED BY <2>5 DEF part, whole
<1>4. ASSUME proto = "http", aligned[s] PROVE got[s] = Due(s)
  <2>1. /\ G <= L /\ N = Boundary(s, G)
        /\ \A i \in 1 .. G : got[s][i] = Due(s)[i]
    BY <1>1, <1>2, <1>4 DEF Http
  <2>2. /\ N = Boundary(s, L)
        /\ \A i, j \in 0 .. L : i < j => Boundary(s, i) < Boundary(s, j)
    BY <1>1, <1>2 DEF Layout
  <2>3. G = L
    <3>1. G \in 0 .. L /\ L \in 0 .. L
      BY <2>1
    <3>2. ~(G < L)
      <4>1. G < L => Boundary(s, G) < Boundary(s, L)
        BY <2>2, <3>1
      <4>. QED BY <2>1, <2>2, <4>1
    <3>. QED BY <2>1, <3>2
  <2>4. DOMAIN sent[s] = 1 .. L /\ DOMAIN got[s] = 1 .. G
    BY <1>1, <1>2, Lengths, LenProperties DEF Types
  <2>5. got[s] = [i \in 1 .. G |-> got[s][i]]
    BY <1>1, <1>2 DEF Types
  <2>6. Due(s) = [i \in 1 .. L |-> Due(s)[i]]
    BY <2>4 DEF Due
  <2>. DEFINE due  == Due(s)
              part == got[s]
  <2>7. part = [i \in 1 .. L |-> part[i]] /\ due = [i \in 1 .. L |-> due[i]]
    BY <2>3, <2>5, <2>6
  <2>8. \A i \in 1 .. L : part[i] = due[i]
    BY <2>1, <2>3
  <2>. HIDE DEF due, part
  <2>9. part = due
    BY <2>7, <2>8
  <2>. QED BY <2>9 DEF due, part
<1>. QED BY <1>3, <1>4

(***************************************************************************)
(* A session of demo-echo or demo-http that leaves its loop without an     *)
(* exception has taken all that its peer sent before the shutdown and has  *)
(* answered all of it, in demo-echo however the reads cut it up and in     *)
(* demo-http when each took one request, unless a write fell short; for    *)
(* any number of connections and messages, and whatever the log refuses.   *)
(***************************************************************************)
THEOREM CleanEndsAreComplete == Spec => []CleanEndIsComplete
<1>1. Init => CleanEndIsComplete
  BY DEF Init, CleanEndIsComplete
<1>2. ASSUME IInv, CleanEndIsComplete, [Next]_vars PROVE CleanEndIsComplete'
  <2>1. SUFFICES ASSUME NEW s \in Sessions, s \notin eptr', at'[s] \in {"close", "done"}
                 PROVE  /\ s \in fin' /\ pos'[s] = Len(stream'[s])
                        /\ proto' = "echo" /\ s \notin cut' => got'[s] = stream'[s]
                        /\ proto' = "http" /\ s \notin cut' /\ aligned'[s] => got'[s] = Due(s)'
    BY DEF CleanEndIsComplete
  <2>2. /\ Keeps(s)
        /\ \/ at[s] \in {"close", "done"} /\ s \notin eptr
           \/ at[s] = "read" /\ s \in fin /\ pos[s] = Len(stream[s])
    BY <1>2, <2>1, CleanEnds
  <2>3. /\ s \in fin /\ pos[s] = Len(stream[s])
        /\ proto = "echo" /\ s \notin cut => got[s] = stream[s]
        /\ proto = "http" /\ s \notin cut /\ aligned[s] => got[s] = Due(s)
    <3>1. CASE at[s] \in {"close", "done"} /\ s \notin eptr
      BY <1>2, <3>1 DEF CleanEndIsComplete
    <3>2. CASE at[s] = "read" /\ s \in fin /\ pos[s] = Len(stream[s])
      BY <1>2, <3>2, Complete DEF IInv
    <3>. QED BY <2>2, <3>1, <3>2
  <2>4. Due(s)' = Due(s)
    BY <2>2, SameMessages DEF Keeps
  <2>. QED BY <2>2, <2>3, <2>4 DEF Keeps
<1>3. CleanEndIsComplete /\ UNCHANGED vars => CleanEndIsComplete'
  BY DEF vars, peerVars, sessionVars, CleanEndIsComplete, Due
<1>. QED BY <1>1, <1>2, <1>3, Invariance, PTL DEF Spec

(***************************************************************************)
(* parse_request goes on beyond its text only after a read that took       *)
(* something other than one whole request of those modelled.               *)
(***************************************************************************)
THEOREM WholeRequestsAreDefined == Spec => []UndefinedNeedsSplit
<1>1. IInv => UndefinedNeedsSplit
  BY DEF IInv, Common
<1>. QED BY <1>1, Invariance, PTL

=============================================================================
