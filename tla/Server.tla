------------------------------- MODULE Server -------------------------------
(***************************************************************************)
(* demo-echo and demo-http (src/demo-echo.cc, src/demo-http.cc): a main    *)
(* coroutine that accepts connections and a detached session for each.     *)
(*                                                                         *)
(* A session reads what has arrived, whatever part of a message or however *)
(* many that is, and writes an answer with one send: what it was given, or *)
(* the response to the request that parse_request makes of it.  What fails *)
(* in the loop is caught, the connection is closed and the exception goes  *)
(* on to a future nobody has, so that it is logged.                        *)
(*                                                                         *)
(* Whatever is logged may be refused by the log's sink, which throws: some *)
(* calls of the logger are in the loop and some are not, and then the      *)
(* Client is destroyed open.  Data is the tokens of HttpParse; the read's  *)
(* buffer is taken to hold all that has arrived.                           *)
(***************************************************************************)
EXTENDS Integers, Sequences, SequencesExt, HttpParse

CONSTANTS MaxClients,   \* bound on the connections
          MaxMessages   \* bound on the messages that the peers send

ASSUME ServerAssumption == MaxClients \in Nat /\ MaxMessages \in Nat

\* Sessions are numbered by client_id.
Sessions == 0 .. MaxClients - 1

VARIABLES
  proto,     \* which of the two programs this is
  process,   \* "running", or how it ended
  listener,  \* where main's coroutine is
  at,        \* where each session is
  eptr,      \* the sessions whose exception_ptr is set
  sent,      \* the messages each peer has sent, and where each one ends
  stream,    \* ... as the tokens that arrive
  fin,       \* the peers that will send no more
  pos,       \* how much of it the session has read
  reply,     \* what the session is writing
  got,       \* the answers that the peer got: tokens or status codes
  aligned,   \* history: every read took exactly one message
  cut        \* history: the sessions that had a write fall short

peerVars    == <<proto, sent, stream, fin>>
sessionVars == <<pos, reply, got, aligned, cut>>
vars        == <<process, listener, at, eptr, peerVars, sessionVars>>

\* What peers send: requests with and without a body, whose lines end both
\* ways, and for demo-echo a line of any three bytes.
Message == [get   |-> <<"get", "CR", "LF", "CR", "LF">>,
            other |-> <<"getx", "LF", "field", "CR", "LF", "LF">>,
            post  |-> <<"post", "CR", "LF", "length", "LF", "LF", "x">>,
            line  |-> <<"x", "CR", "LF">>]

Init == /\ proto    \in {"echo", "http"}
        /\ process  = "running"
        /\ listener = "accepting"
        /\ at       = [s \in Sessions |-> "none"]
        /\ eptr     = {}
        /\ sent     = [s \in Sessions |-> <<>>]
        /\ stream   = [s \in Sessions |-> <<>>]
        /\ fin      = {}
        /\ pos      = [s \in Sessions |-> 0]
        /\ reply    = [s \in Sessions |-> <<>>]
        /\ got      = [s \in Sessions |-> <<>>]
        /\ aligned  = [s \in Sessions |-> TRUE]
        /\ cut      = {}

\* Where the i-th message ends in its stream.
Boundary(s, i) == IF i = 0 THEN 0 ELSE sent[s][i].end

Go(s, where) == at' = [at EXCEPT ![s] = where]

-----------------------------------------------------------------------------
(* Peers                                                                   *)

Offered == IF proto = "echo" THEN {"line"} ELSE {"get", "other", "post"}

Send(s, m) ==
  /\ process = "running"
  /\ at[s] \in {"read", "write"} /\ s \notin fin
  /\ FoldFunction(LAMBDA q, n : n + Len(q), 0, sent) < MaxMessages
  /\ stream' = [stream EXCEPT ![s] = @ \o Message[m]]
  /\ sent'   = [sent EXCEPT ![s] = Append(@, [what |-> m, end |-> Len(stream'[s])])]
  /\ UNCHANGED <<proto, fin, process, listener, at, eptr, sessionVars>>

Shut(s) ==
  /\ process = "running"
  /\ at[s] \in {"read", "write"}
  /\ fin' = fin \cup {s}
  /\ UNCHANGED <<proto, sent, stream, process, listener, at, eptr, sessionVars>>

-----------------------------------------------------------------------------
(* Main                                                                    *)

\* accept, and the session runs up to its first read; its future is dropped.
Accept(s) ==
  /\ process = "running" /\ listener = "accepting"
  /\ at[s] = "none" /\ \A r \in 0 .. s - 1 : at[r] # "none"
  /\ Go(s, "read")
  /\ UNCHANGED <<process, listener, eptr, peerVars, sessionVars>>

\* The log of an accepted connection is refused: its Client, which no session
\* has yet, is destroyed open.
AcceptUnlogged ==
  /\ process = "running" /\ listener = "accepting"
  /\ process' = "panicked"
  /\ UNCHANGED <<listener, at, eptr, peerVars, sessionVars>>

\* accept fails, or before it the first log.
AcceptFails ==
  /\ process = "running" /\ listener = "accepting"
  /\ listener' = "closing"
  /\ UNCHANGED <<process, at, eptr, peerVars, sessionVars>>

\* listener.close, with or without an error of its own, and the exception
\* leaves Application::run and main, whoever is connected.
CloseListener ==
  /\ process = "running" /\ listener = "closing"
  /\ listener' = "closed"
  /\ process'  = "over"
  /\ UNCHANGED <<at, eptr, peerVars, sessionVars>>

-----------------------------------------------------------------------------
(* Sessions                                                                *)

Running(s, where) == process = "running" /\ at[s] = where

\* After the loop, the session logs and goes on to close its connection.  If
\* that log is refused the frame dies, and ~Socket panics; unless the log of
\* the orphaned exception is refused as well, which then leaves run() and main.
LeaveLoop(s) == \/ Go(s, "close") /\ UNCHANGED process
                \/ Go(s, "done") /\ process' \in {"panicked", "over"}

\* The loop ends with an exception, which is caught.
Catch(s) == eptr' = eptr \cup {s} /\ LeaveLoop(s)

Answer == [get |-> "200", getx |-> "404", post |-> "405"]

\* Mutant of Respond: the path is not looked at.
RespondAlike(s, request) == /\ reply' = [reply EXCEPT ![s] = <<"200">>]
                            /\ Go(s, "write")

\* The response to a parsed request is written.
Respond(s, request) == /\ reply' = [reply EXCEPT ![s] = <<Answer[request]>>]
                       /\ Go(s, "write")

\* The read took exactly one message.
Whole(s, n) ==
  \E i \in DOMAIN sent[s] : pos[s] = Boundary(s, i - 1) /\ n = Boundary(s, i)

\* Mutant of Receive: one byte more than was read is taken.
ReceivePast(s) ==
  /\ Running(s, "read")
  /\ \E n \in pos[s] + 1 .. Len(stream[s]) :
       /\ pos'   = [pos EXCEPT ![s] = n + 1]
       /\ reply' = [reply EXCEPT ![s] = SubSeq(stream[s], pos[s] + 1, n)]
  /\ Go(s, "write")
  /\ UNCHANGED <<process, listener, eptr, peerVars, got, aligned, cut>>

\* client.read returns some of what has arrived, which is logged, parsed and
\* dealt with.
Receive(s) ==
  /\ Running(s, "read")
  /\ \E n \in pos[s] + 1 .. Len(stream[s]) :
       LET chunk == SubSeq(stream[s], pos[s] + 1, n) IN
       /\ pos'     = [pos EXCEPT ![s] = n]
       /\ aligned' = [aligned EXCEPT ![s] = @ /\ (proto = "http" => Whole(s, n))]
       /\ \/ \* a log is refused
             /\ Catch(s)
             /\ UNCHANGED reply
          \/ /\ proto = "echo"
             /\ reply' = [reply EXCEPT ![s] = chunk]
             /\ Go(s, "write")
             /\ UNCHANGED <<process, eptr>>
          \/ /\ proto = "http"
             /\ \E outcome \in Parse(chunk) :
                  \/ /\ outcome = "undefined"
                     /\ process' = "undefined"
                     /\ UNCHANGED <<reply, at, eptr>>
                  \/ /\ outcome = "invalid"
                     /\ Catch(s)
                     /\ UNCHANGED reply
                  \/ /\ outcome \in RequestLines
                     /\ Respond(s, outcome)
                     /\ UNCHANGED <<process, eptr>>
  /\ UNCHANGED <<listener, peerVars, got, cut>>

\* Mutant of Eof: a read of nothing is tried again.
EofRetried(s) ==
  /\ Running(s, "read")
  /\ s \in fin /\ pos[s] = Len(stream[s])
  /\ UNCHANGED vars

\* Mutant of Eof: the session stops at the peer's shutdown and leaves what came
\* before it unread.
EofEarly(s) ==
  /\ Running(s, "read")
  /\ s \in fin
  /\ LeaveLoop(s)
  /\ UNCHANGED <<listener, eptr, peerVars, sessionVars>>

\* client.read returns nothing: the peer has shut its side down.  The log of
\* that may be refused.
Eof(s) ==
  /\ Running(s, "read")
  /\ s \in fin /\ pos[s] = Len(stream[s])
  /\ \/ Catch(s)
     \/ LeaveLoop(s) /\ UNCHANGED eptr
  /\ UNCHANGED <<listener, peerVars, sessionVars>>

\* Mutant of Write: a write that fell short is tried again from its start.
WriteAgain(s) ==
  /\ Running(s, "write")
  /\ \E n \in DOMAIN reply[s] :
       /\ got' = [got EXCEPT ![s] = @ \o SubSeq(reply[s], 1, n)]
       /\ Go(s, IF n = Len(reply[s]) THEN "read" ELSE "write")
       /\ reply' = [reply EXCEPT ![s] = IF n = Len(@) THEN <<>> ELSE @]
  /\ UNCHANGED <<process, listener, eptr, peerVars, pos, aligned, cut>>

\* client.write: all of it, or less, and nobody asks; part of a response is no
\* response.  demo-echo logs it, which may be refused.
Write(s) ==
  /\ Running(s, "write")
  /\ \/ got' = [got EXCEPT ![s] = @ \o reply[s]] /\ UNCHANGED cut
     \/ /\ \E n \in 0 .. Len(reply[s]) - 1 :
             got' = [got EXCEPT ![s] = @ \o SubSeq(reply[s], 1, n)]
        /\ cut' = cut \cup {s}
  /\ reply' = [reply EXCEPT ![s] = <<>>]
  /\ \/ Go(s, "read") /\ UNCHANGED <<process, eptr>>
     \/ proto = "echo" /\ Catch(s)
  /\ UNCHANGED <<listener, peerVars, pos, aligned>>

\* recv or send fails.
Fail(s) ==
  /\ \/ Running(s, "read") \/ Running(s, "write")
  /\ Catch(s)
  /\ UNCHANGED <<listener, peerVars, sessionVars>>

\* client.close, and the frame goes.  What was caught, or an error of close
\* itself, is orphaned; if its log is refused it leaves run() and main.
Close(s) ==
  /\ Running(s, "close")
  /\ Go(s, "done")
  /\ process' \in {"running", "over"}
  /\ UNCHANGED <<listener, eptr, peerVars, sessionVars>>

-----------------------------------------------------------------------------
Peer(s)    == Shut(s) \/ \E m \in Offered : Send(s, m)
Main       == AcceptUnlogged \/ AcceptFails \/ CloseListener \/ \E s \in Sessions : Accept(s)
Session(s) == Receive(s) \/ Eof(s) \/ Write(s) \/ Close(s)

Next == Main \/ \E s \in Sessions : Peer(s) \/ Session(s) \/ Fail(s)

Spec == Init /\ [][Next]_vars

(***************************************************************************)
(* The reactor resumes each session, the kernel delivers what was sent and *)
(* the peer reads what it is sent.  Peers need not send or stop sending,   *)
(* and nothing needs to fail.                                              *)
(***************************************************************************)
FairSpec == Spec /\ \A s \in Sessions : WF_vars(Session(s))

-----------------------------------------------------------------------------
(* Properties                                                              *)

Answers == {"200", "404", "405"}

TypeOK == /\ proto    \in {"echo", "http"}
          /\ process  \in {"running", "over", "panicked", "undefined"}
          /\ listener \in {"accepting", "closing", "closed"}
          /\ at       \in [Sessions -> {"none", "read", "write", "close", "done"}]
          /\ eptr \subseteq Sessions /\ fin \subseteq Sessions /\ cut \subseteq Sessions
          /\ \A s \in Sessions :
               /\ sent[s]   \in Seq([what : DOMAIN Message, end : Nat])
               /\ stream[s] \in Seq(Tokens)
               /\ pos[s]    \in 0 .. Len(stream[s])
               /\ reply[s]  \in Seq(Tokens \cup Answers)
               /\ got[s]    \in Seq(Tokens \cup Answers)
          /\ aligned \in [Sessions -> BOOLEAN]

\* What the peer of demo-http should be answered.
Due(s) == [i \in DOMAIN sent[s] |-> Answer[Message[sent[s][i].what][1]]]

(***************************************************************************)
(* As long as every read took exactly one request and no write fell short, *)
(* the answers of demo-http are those to the requests, in their order, and *)
(* a session that waits for more owes none.                                *)
(***************************************************************************)
AnswersInOrder ==
  proto = "http" => \A s \in Sessions \ cut : aligned[s] =>
    /\ IsPrefix(got[s], Due(s))
    /\ at[s] = "read" => pos[s] = Boundary(s, Len(got[s]))

(***************************************************************************)
(* demo-echo sends back what it was sent, however the reads cut it up,     *)
(* unless a write fell short; a session that waits for more owes nothing.  *)
(***************************************************************************)
EchoIsFaithful ==
  proto = "echo" => \A s \in Sessions \ cut :
    /\ IsPrefix(got[s], stream[s])
    /\ at[s] = "read" => Len(got[s]) = pos[s]

(***************************************************************************)
(* A session that leaves its loop without an exception has seen its peer   *)
(* shut down and has taken all that came before; and has answered all of   *)
(* it, under the conditions of the two properties above.                   *)
(***************************************************************************)
CleanEndIsComplete ==
  \A s \in Sessions \ eptr : at[s] \in {"close", "done"} =>
    /\ s \in fin /\ pos[s] = Len(stream[s])
    /\ proto = "echo" /\ s \notin cut => got[s] = stream[s]
    /\ proto = "http" /\ s \notin cut /\ aligned[s] => got[s] = Due(s)

(***************************************************************************)
(* No Client is destroyed before it was closed, whatever fails: ~Socket    *)
(* asserts it (lib/reactor/io/socket.cc:86), and the sessions catch every  *)
(* exception to close their Client before they let it go on.  But they log *)
(* in between, and main logs between accept and the session.               *)
(***************************************************************************)
ClientsAreClosed == process # "panicked"

(***************************************************************************)
(* The parser reads past its text only when a read has taken something     *)
(* other than one whole request.                                           *)
(***************************************************************************)
UndefinedNeedsSplit ==
  process = "undefined" => \E s \in Sessions : ~aligned[s]

(***************************************************************************)
(* A session whose peer has shut its side down closes its connection.      *)
(***************************************************************************)
SessionsEnd ==
  \A s \in Sessions : s \in fin ~> at[s] = "done" \/ process # "running"

=============================================================================
