------------------------------ MODULE HttpParse ------------------------------
(***************************************************************************)
(* parse_request of demo-http (src/demo-http-parse.cc) as a function from  *)
(* a received text to what it can make of it.                              *)
(*                                                                         *)
(* A text is a sequence of tokens: the bytes "CR", "LF" and "x" (a lower   *)
(* case letter), the request lines "get" (GET / HTTP/1.1), "getx" (GET of  *)
(* another path) and "post", and the header lines "field" (A: b) and       *)
(* "length" (Content-Length: 1).                                           *)
(*                                                                         *)
(* The result is the set of possible outcomes: the request line that was   *)
(* taken, "invalid" for an exception, and "undefined" where the code goes  *)
(* on with a span that has run over the end of the text or, for an empty   *)
(* first line, reads the byte before it (std::span checks nothing).        *)
(***************************************************************************)
EXTENDS Integers, Sequences, SequencesExt

RequestLines == {"get", "getx", "post"}
HeaderLines  == {"field", "length"}
Bytes        == {"CR", "LF", "x"}
Tokens       == RequestLines \cup HeaderLines \cup Bytes

\* iterator::next: where the line after a position ends, which is beyond the
\* end of the text if it has no "LF", and the line without its end.
End(text, from)  == Min({i \in DOMAIN text : i > from /\ text[i] = "LF"} \cup {Len(text) + 1})
Line(text, from) ==
  LET line == SubSeq(text, from + 1, End(text, from) - 1) IN
  IF line # <<>> /\ Last(line) = "CR" THEN Front(line) ELSE line

\* set_request: regex_search, which finds the first request in the line.
Requests(line) == {i \in DOMAIN line : line[i] \in RequestLines}

\* set_header: regex_match, where no value has a "CR".
IsHeader(line) == \E i \in DOMAIN line :
                    /\ line[i] \in HeaderLines
                    /\ \A j \in DOMAIN line : j > i => line[j] # "CR"
                    /\ \A j \in 1 .. i - 1 : line[j] \notin HeaderLines

\* The positions that lines begin after, from a given one on: those of line
\* ends, or beyond the text if its last line has none.
Starts(text, first) ==
  {first} \cup {e \in DOMAIN text : e > first /\ text[e] = "LF"}
          \cup {e \in {Len(text) + 1} : Last(text) # "LF"}

\* The loop in state HEADER takes lines up to the first that is no header:
\* an empty one, an invalid one, or none because the text is over.
Stop(text, first) ==
  Min({e \in Starts(text, first) : e >= Len(text) \/ ~IsHeader(Line(text, e))})

\* headers["Content-Length"]: one of the headers before that.
HasLength(text, first) ==
  \E e \in Starts(text, first) : e < Stop(text, first) /\ Line(text, e)[1] = "length"

\* Content-Length is the size of the text that is left after a position.
BodyFits(text, from) == Len(text) = from + 1 /\ Last(text) \in Bytes

\* Mutant of ParseHeaders: the body is skipped as one more line.
ParseBodyAsLine(request, text, first) ==
  LET stop == Stop(text, first) IN
  IF stop > Len(text) THEN {"undefined"}
  ELSE IF stop = Len(text) \/ ~HasLength(text, first) THEN {request}
  ELSE IF End(text, End(text, stop)) > Len(text) THEN {"undefined"} ELSE {request}

\* What becomes of the text after its request line: a span that has run over
\* the end is used, the text is over, the line is invalid, or it is empty.
ParseHeaders(request, text, first) ==
  LET stop == Stop(text, first) IN
  IF stop > Len(text) THEN {"undefined"}
  ELSE IF \/ stop = Len(text)
          \/ /\ Line(text, stop) = <<>>
             /\ HasLength(text, first) => BodyFits(text, End(text, stop))
       THEN {request} ELSE {"invalid"}

\* parse_request of a text that is not empty.
Parse(text) ==
  LET line == Line(text, 0) IN
  IF text[1] = "LF" THEN {"invalid", "undefined"}
  ELSE IF Requests(line) = {} THEN {"invalid"}
  ELSE ParseHeaders(line[Min(Requests(line))], text, End(text, 0))

=============================================================================
