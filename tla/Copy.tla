-------------------------------- MODULE Copy --------------------------------
(***************************************************************************)
(* demo-cp (src/demo-cp.cc): one coroutine that opens two files, copies    *)
(* from one to the other a buffer at a time and closes both.  Every        *)
(* request may fail, and a read or a write may do less than it was asked.  *)
(*                                                                         *)
(* The interesting part is what becomes of the files on the way out: ~File *)
(* panics on one that is open, whether its frame is left by an exception,  *)
(* a co_return or a co_await of an exception_ptr, which destroys the frame *)
(* (coroutine.hh) and does not reach the catch around it.                  *)
(***************************************************************************)
EXTENDS Integers, Sequences, SequencesExt

CONSTANTS MaxSize,   \* bound on the source's size
          Buf        \* sizeof(buf)

ASSUME CopyAssumption == MaxSize \in Nat /\ Buf \in Nat \ {0}

VARIABLES
  at,       \* where main's coroutine is; "out" when it is over
  exit,     \* how it ended
  target,   \* the file that the output path names
  content,  \* the bytes of both files
  open,     \* the File objects that have a descriptor
  cursor, buffer,
  eptr,     \* an exception was caught
  failed,   \* history: some request failed, or a write fell short
  short     \* history: a read fell short of what the file still had

vars == <<at, exit, target, content, open, cursor, buffer, eptr, failed, short>>

Files == {"input", "output"}

Old == <<0, 0, 0>>   \* what was in the output file before

Init == /\ at      = "options"
        /\ exit    = "none"
        /\ target  \in Files
        /\ \E n \in 0 .. MaxSize :
             content = [input |-> [i \in 1 .. n |-> i], output |-> Old]
        /\ open    = {}
        /\ cursor  = 0
        /\ buffer  = <<>>
        /\ eptr    = FALSE
        /\ failed  = FALSE
        /\ short   = FALSE

\* The frame goes, and with it the Files: how the program ends.
Leave(how, files) == /\ at'   = "out"
                     /\ exit' = IF files = {} THEN how ELSE "panic"

\* A path is missing: reported on the console, or the console throws.
MissingPath == /\ at = "options"
               /\ \/ Leave("usage", open) /\ UNCHANGED failed
                  \/ Leave("error", open) /\ failed' = TRUE
               /\ UNCHANGED <<target, content, open, cursor, buffer, eptr, short>>

OpenInput ==
  /\ at = "options"
  /\ \/ /\ open' = {"input"}
        /\ at'   = "open_output"
        /\ UNCHANGED <<exit, failed>>
     \/ /\ failed' = TRUE
        /\ Leave("error", open)
        /\ UNCHANGED open
  /\ UNCHANGED <<target, content, cursor, buffer, eptr, short>>

\* Mutant of OpenOutput: O_TRUNC is left out.
OpenOutputAsItIs ==
  /\ at = "open_output"
  /\ open' = Files
  /\ at'   = "read"
  /\ UNCHANGED <<exit, target, content, cursor, buffer, eptr, failed, short>>

\* O_WRONLY | O_CREAT | O_TRUNC; an error leaves the frame with input open.
OpenOutput ==
  /\ at = "open_output"
  /\ \/ /\ open'    = Files
        /\ content' = [content EXCEPT ![target] = <<>>]
        /\ at'      = "read"
        /\ UNCHANGED <<exit, failed>>
     \/ /\ failed' = TRUE
        /\ Leave("error", open)
        /\ UNCHANGED <<open, content>>
  /\ UNCHANGED <<target, cursor, buffer, eptr, short>>

Catch == eptr' = TRUE /\ failed' = TRUE /\ at' = "close_input"

\* input.read at the cursor: nothing only at the end of the file.
Read ==
  LET left == Max({0, Len(content["input"]) - cursor})
      most == Min({Buf, left}) IN
  /\ at = "read"
  /\ \/ /\ \E n \in Min({1, most}) .. most :
             /\ buffer' = SubSeq(content["input"], cursor + 1, cursor + n)
             /\ short'  = (short \/ n < most)
        /\ at' = "write"
        /\ UNCHANGED <<eptr, failed>>
     \/ Catch /\ UNCHANGED <<buffer, short>>
  /\ UNCHANGED <<exit, target, content, open, cursor>>

\* The file after bytes were written at a position; a gap reads as zeros.
Written(file, pos, bytes) ==
  IF bytes = <<>> THEN file
  ELSE [i \in 1 .. Max({Len(file), pos + Len(bytes)}) |->
          IF i \in pos + 1 .. pos + Len(bytes) THEN bytes[i - pos]
          ELSE IF i <= Len(file) THEN file[i] ELSE 0]

\* Mutant of Write: what was written is not compared with what was read.
WriteUnchecked ==
  /\ at = "write"
  /\ \E n \in Min({1, Len(buffer)}) .. Len(buffer) :
       /\ content' = [content EXCEPT ![target] =
                        Written(@, cursor, SubSeq(buffer, 1, n))]
       /\ failed'  = (failed \/ n < Len(buffer))
  /\ at'     = IF Len(buffer) < Buf THEN "close_input" ELSE "read"
  /\ cursor' = IF Len(buffer) < Buf THEN cursor ELSE cursor + Len(buffer)
  /\ UNCHANGED <<exit, target, open, buffer, eptr, short>>

\* Mutant of Write: the loop goes on after the last buffer, by whole ones.
WriteForEver ==
  /\ at = "write"
  /\ content' = [content EXCEPT ![target] = Written(@, cursor, buffer)]
  /\ at'      = "read"
  /\ cursor'  = cursor + Buf
  /\ UNCHANGED <<exit, target, open, buffer, eptr, failed, short>>

\* Mutant of Write: the cursor stays.
WriteInPlace ==
  /\ at = "write"
  /\ content' = [content EXCEPT ![target] = Written(@, cursor, buffer)]
  /\ at'      = IF Len(buffer) < Buf THEN "close_input" ELSE "read"
  /\ UNCHANGED <<exit, target, open, cursor, buffer, eptr, failed, short>>

\* output.write at the cursor, and the tests that follow it.
Write ==
  /\ at = "write"
  /\ \/ /\ \E n \in Min({1, Len(buffer)}) .. Len(buffer) :
             /\ content' = [content EXCEPT ![target] =
                              Written(@, cursor, SubSeq(buffer, 1, n))]
             /\ \/ /\ n < Len(buffer)       \* co_await of an exception_ptr
                   /\ failed' = TRUE
                   /\ Leave("error", open)
                   /\ UNCHANGED cursor
                \/ /\ n = Len(buffer)
                   /\ IF n < Buf THEN at' = "close_input" /\ UNCHANGED cursor
                                 ELSE at' = "read" /\ cursor' = cursor + n
                   /\ UNCHANGED <<exit, failed>>
        /\ UNCHANGED eptr
     \/ Catch /\ UNCHANGED <<exit, content, cursor>>
  /\ UNCHANGED <<target, open, buffer, short>>

\* Mutant of CloseInput: the descriptor is not forgotten.
CloseInputForgetful ==
  /\ at = "close_input"
  /\ at' = "close_output"
  /\ UNCHANGED <<exit, target, content, open, cursor, buffer, eptr, failed, short>>

\* input.close: the descriptor is forgotten, then the error is thrown, and
\* leaves the frame with output open.
CloseInput ==
  /\ at = "close_input"
  /\ open' = open \ {"input"}
  /\ \/ at' = "close_output" /\ UNCHANGED <<exit, failed>>
     \/ failed' = TRUE /\ Leave("error", open')
  /\ UNCHANGED <<target, content, cursor, buffer, eptr, short>>

\* output.close, then the error of the close or the caught one, or success.
CloseOutput ==
  /\ at = "close_output"
  /\ open' = open \ {"output"}
  /\ \/ Leave(IF eptr THEN "error" ELSE "success", open') /\ UNCHANGED failed
     \/ failed' = TRUE /\ Leave("error", open')
  /\ UNCHANGED <<target, content, cursor, buffer, eptr, short>>

Next == \/ MissingPath \/ OpenInput \/ OpenOutput \/ Read \/ Write
        \/ CloseInput \/ CloseOutput

Spec == Init /\ [][Next]_vars

(***************************************************************************)
(* There is one coroutine and the kernel answers each of its requests.     *)
(***************************************************************************)
FairSpec == Spec /\ WF_vars(Next)

-----------------------------------------------------------------------------
(* Properties                                                              *)

TypeOK == /\ at     \in {"options", "open_output", "read", "write",
                         "close_input", "close_output", "out"}
          /\ exit   \in {"none", "usage", "error", "success", "panic"}
          /\ target \in Files
          /\ \A f \in Files : content[f] \in Seq(0 .. MaxSize)
          /\ open   \subseteq Files
          /\ cursor \in 0 .. MaxSize
          /\ buffer \in Seq(1 .. MaxSize) /\ Len(buffer) <= Buf
          /\ {eptr, failed, short} \subseteq BOOLEAN

(***************************************************************************)
(* Whatever fails and whenever the copy ends, the output is a prefix of    *)
(* the input once its old content is gone: no byte is lost, doubled or out *)
(* of place in the middle.                                                 *)
(***************************************************************************)
OutputIsPrefix ==
  "output" \in open => IsPrefix(content["output"], content["input"])
                         \/ target = "input"

(***************************************************************************)
(* A copy that reports success has copied everything: every request was    *)
(* carried out and the two files are the same, unless a read fell short,   *)
(* which the loop takes for the end of the file, or they are one file.     *)
(***************************************************************************)
SuccessIsComplete ==
  exit = "success" =>
    /\ ~failed
    /\ short \/ target = "input" \/ content["output"] = content["input"]

(***************************************************************************)
(* A program that panics or ends with an exception had something fail: on  *)
(* every path on which all went well both files are closed, also when a    *)
(* read fell short, when the source is empty or is the output itself.      *)
(***************************************************************************)
TroubleHasACause == exit \in {"panic", "error"} => failed

(***************************************************************************)
(* The copy comes to an end, whatever the requests answer.                 *)
(***************************************************************************)
CopyEnds == <>(at = "out")

(***************************************************************************)
(* An error is reported as an error: the program does not die of the       *)
(* panic("File not closed") in ~File.                                      *)
(***************************************************************************)
NeverPanics == exit # "panic"

=============================================================================
