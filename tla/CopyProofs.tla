----------------------------- MODULE CopyProofs -----------------------------
(***************************************************************************)
(* demo-cp copies what it says it has copied, for every size of the source *)
(* and of the buffer, whichever requests fail or do less than was asked.   *)
(*                                                                         *)
(* The invariant says what the loop has done so far: between two rounds    *)
(* the output is the source up to the cursor, and the buffer continues it. *)
(* It is stated byte by byte, as the solvers reason about sequences.       *)
(***************************************************************************)
EXTENDS Copy, SequenceTheorems, TLAPS

Source == content["input"]
Result == content["output"]

\* What is open, and what has failed, at each point of the coroutine.
Control ==
  /\ at = "out" <=> exit # "none"
  /\ at = "options" => open = {}
  /\ at = "open_output" => open = {"input"}
  /\ at \in {"read", "write", "close_input"} => open = Files
  /\ at = "close_output" => open = {"output"}
  /\ at \in {"options", "open_output", "read", "write"} => ~failed /\ ~eptr
  /\ at \in {"close_input", "close_output"} => (failed <=> eptr)

\* The files, when they are two.
Copied ==
  /\ content \in [Files -> Seq(0 .. MaxSize)]
  /\ Source \in Seq(1 .. MaxSize) /\ Len(Source) <= MaxSize
  /\ "output" \in open /\ target = "output" =>
       Len(Result) <= Len(Source) /\ \A i \in 1 .. Len(Result) : Result[i] = Source[i]
  /\ at \in {"read", "write"} /\ target = "output" => Len(Result) = cursor
  /\ at = "write" /\ target = "output" =>
       /\ cursor + Len(buffer) <= Len(Source)
       /\ \A i \in 1 .. Len(buffer) : buffer[i] = Source[cursor + i]
       /\ short \/ Len(buffer) = Buf \/ cursor + Len(buffer) = Len(Source)
  /\ at \in {"close_input", "close_output"} /\ target = "output" /\ ~failed =>
       short \/ Len(Result) = Len(Source)

\* A file copied to itself is emptied when it is opened.
Emptied ==
  /\ at \in {"options", "open_output"} => cursor = 0 /\ buffer = <<>>
  /\ at \in {"read", "write"} /\ target = "input" =>
       Source = <<>> /\ cursor = 0 /\ buffer = <<>>

IInv == TypeOK /\ Control /\ Copied /\ Emptied /\ SuccessIsComplete /\ TroubleHasACause

-----------------------------------------------------------------------------
LEMMA MinMax ==
  ASSUME NEW a \in Int, NEW b \in Int
  PROVE  /\ Min({a, b}) = IF a <= b THEN a ELSE b
         /\ Max({a, b}) = IF a >= b THEN a ELSE b
<1>1. \E x \in {a, b} : \A y \in {a, b} : x <= y
  OBVIOUS
<1>2. \E x \in {a, b} : \A y \in {a, b} : x >= y
  OBVIOUS
<1>3. Min({a, b}) \in {a, b} /\ \A y \in {a, b} : Min({a, b}) <= y
  BY <1>1 DEF Min
<1>4. Max({a, b}) \in {a, b} /\ \A y \in {a, b} : Max({a, b}) >= y
  BY <1>2 DEF Max
<1>. QED BY <1>3, <1>4

Appends(new, old, bytes) ==
  /\ Len(new) = Len(old) + Len(bytes)
  /\ \A i \in 1 .. Len(old) : new[i] = old[i]
  /\ \A i \in 1 .. Len(bytes) : new[Len(old) + i] = bytes[i]

(***************************************************************************)
(* pwrite at the end of a file appends.                                    *)
(***************************************************************************)
LEMMA WrittenAtTheEnd ==
  ASSUME NEW S, NEW file \in Seq(S), NEW bytes \in Seq(S),
         NEW w, w = Written(file, Len(file), bytes)
  PROVE  w \in Seq(S) /\ Appends(w, file, bytes)
<1>1. Len(file) \in Nat /\ Len(bytes) \in Nat
  OBVIOUS
<1>2. CASE bytes = <<>>
  BY <1>1, <1>2 DEF Written, Appends
<1>3. CASE bytes # <<>>
  <2>1. Max({Len(file), Len(file) + Len(bytes)}) = Len(file) + Len(bytes)
    <3>. DEFINE n == Len(file) + Len(bytes)
    <3>1. Len(file) \in Int /\ n \in Int /\ Len(file) <= n
      BY <1>1
    <3>. HIDE DEF n
    <3>2. Max({Len(file), n}) = IF Len(file) >= n THEN Len(file) ELSE n
      BY <3>1, MinMax
    <3>3. Max({Len(file), n}) = n
      BY <3>1, <3>2
    <3>. QED BY <3>3 DEF n
  <2>2. w = [i \in 1 .. Len(file) + Len(bytes) |->
               IF i \in Len(file) + 1 .. Len(file) + Len(bytes) THEN bytes[i - Len(file)]
               ELSE IF i <= Len(file) THEN file[i] ELSE 0]
    BY <1>3, <2>1 DEF Written
  <2>3. \A i \in 1 .. Len(file) : file[i] \in S
    OBVIOUS
  <2>4. \A i \in 1 .. Len(bytes) : bytes[i] \in S
    OBVIOUS
  <2>5. ASSUME NEW i \in 1 .. Len(file) PROVE w[i] = file[i]
    <3>1. /\ i \in 1 .. Len(file) + Len(bytes) /\ i <= Len(file)
          /\ ~ (i \in Len(file) + 1 .. Len(file) + Len(bytes))
      BY <1>1
    <3>. QED BY <2>2, <3>1
  <2>6. ASSUME NEW i \in 1 .. Len(bytes) PROVE w[Len(file) + i] = bytes[i]
    <3>. DEFINE j == Len(file) + i
    <3>1. j \in Len(file) + 1 .. Len(file) + Len(bytes) /\ j - Len(file) = i
          /\ j \in 1 .. Len(file) + Len(bytes)
      BY <1>1
    <3>. HIDE DEF j
    <3>2. w[j] = bytes[j - Len(file)]
      BY <2>2, <3>1
    <3>. QED BY <3>1, <3>2 DEF j
  <2>7. w \in [1 .. Len(file) + Len(bytes) -> S]
    <3>1. ASSUME NEW i \in 1 .. Len(file) + Len(bytes) PROVE w[i] \in S
      <4>1. CASE i <= Len(file)
        BY <1>1, <2>3, <2>5, <4>1
      <4>2. CASE i > Len(file)
        <5>1. i - Len(file) \in 1 .. Len(bytes) /\ Len(file) + (i - Len(file)) = i
          BY <1>1, <4>2
        <5>. QED BY <2>2, <2>4, <1>1, <4>2, <5>1
      <4>. QED BY <1>1, <4>1, <4>2
    <3>. QED BY <2>2, <3>1
  <2>8. w \in Seq(S) /\ Len(w) = Len(file) + Len(bytes)
    BY <1>1, <2>7, SeqDef, LenProperties
  <2>. QED BY <2>5, <2>6, <2>8 DEF Appends
<1>. QED BY <1>2, <1>3

LEMMA InitInv == Init => IInv
<1>. SUFFICES ASSUME Init PROVE IInv
  OBVIOUS
<1>1. PICK n \in 0 .. MaxSize : content = [input |-> [i \in 1 .. n |-> i], output |-> Old]
  BY DEF Init
<1>2. MaxSize \in Nat /\ Buf \in Nat \ {0}
  BY CopyAssumption
<1>3. Source = [i \in 1 .. n |-> i] /\ Result = Old
  BY <1>1 DEF Source, Result
<1>4. Source \in Seq(1 .. MaxSize) /\ Len(Source) = n
  BY <1>2, <1>3
<1>5. Source \in Seq(0 .. MaxSize) /\ Result \in Seq(0 .. MaxSize)
  BY <1>2, <1>3 DEF Old
<1>6. content \in [Files -> Seq(0 .. MaxSize)]
  BY <1>1, <1>5 DEF Files, Source, Result
<1>7. TypeOK
  <2>1. buffer \in Seq(1 .. MaxSize) /\ Len(buffer) <= Buf
    BY <1>2 DEF Init
  <2>2. \A f \in Files : content[f] \in Seq(0 .. MaxSize)
    BY <1>6
  <2>3. /\ at = "options" /\ exit = "none" /\ target \in Files /\ open = {} /\ cursor = 0
        /\ eptr = FALSE /\ failed = FALSE /\ short = FALSE
    BY DEF Init
  <2>4. /\ open \subseteq Files /\ cursor \in 0 .. MaxSize
        /\ {eptr, failed, short} \subseteq BOOLEAN
    <3>1. 0 \in 0 .. MaxSize
      BY <1>2
    <3>. QED BY <2>3, <3>1
  <2>5. at \in {"options"} /\ exit \in {"none"}
    BY <2>3
  <2>. QED BY <2>1, <2>2, <2>3, <2>4, <2>5 DEF TypeOK
<1>8. Control /\ Emptied /\ SuccessIsComplete /\ TroubleHasACause
  BY DEF Init, Control, Emptied, SuccessIsComplete, TroubleHasACause
<1>9. Copied
  BY <1>2, <1>4, <1>6 DEF Init, Copied
<1>. QED BY <1>7, <1>8, <1>9 DEF IInv

-----------------------------------------------------------------------------
\* What the proofs use of the types.
LEMMA Types ==
  ASSUME TypeOK, Copied
  PROVE  /\ Source \in Seq(0 .. MaxSize) /\ Result \in Seq(0 .. MaxSize)
         /\ Len(Source) \in Nat /\ Len(Result) \in Nat /\ Len(buffer) \in Nat
         /\ cursor \in Nat /\ Buf \in Nat /\ Buf > 0 /\ MaxSize \in Nat
         /\ content = [f \in Files |-> content[f]]
<1>1. Source \in Seq(0 .. MaxSize) /\ Result \in Seq(0 .. MaxSize)
  BY DEF Copied, Source, Result, Files
<1>2. buffer \in Seq(1 .. MaxSize) /\ cursor \in 0 .. MaxSize
  BY DEF TypeOK
<1>3. content = [f \in Files |-> content[f]]
  BY DEF Copied
<1>. QED BY <1>1, <1>2, <1>3, CopyAssumption

LEMMA LeaveTypes ==
  ASSUME NEW how \in {"usage", "error", "success"}, NEW files, Leave(how, files)
  PROVE  /\ at' = "out" /\ exit' \in {how, "panic"}
         /\ files = {} => exit' = how
         /\ exit' = "panic" => files # {}
BY DEF Leave

\* Nothing is claimed of the files once the coroutine has failed and left.
LEMMA Leaves ==
  ASSUME IInv, at' = "out", exit' \in {"error", "panic", "usage"}, exit' # "usage" => failed',
         failed' \in BOOLEAN, open' \subseteq open, UNCHANGED <<target, cursor, buffer, eptr, short>>,
         content' \in [Files -> Seq(0 .. MaxSize)],
         Source' \in Seq(1 .. MaxSize) /\ Len(Source)' <= MaxSize,
         "output" \in open' /\ target = "output" =>
           Len(Result)' <= Len(Source)' /\ \A i \in 1 .. Len(Result)' : Result'[i] = Source'[i]
  PROVE  IInv'
<1>1. TypeOK'
  BY DEF IInv, TypeOK
<1>2. Control' /\ Emptied' /\ SuccessIsComplete' /\ TroubleHasACause'
  BY DEF Control, Emptied, SuccessIsComplete, TroubleHasACause
<1>3. Copied'
  BY DEF Copied
<1>. QED BY <1>1, <1>2, <1>3 DEF IInv

\* ... and the same when the files are as they were.
LEMMA LeavesFiles ==
  ASSUME IInv, at' = "out", exit' \in {"error", "panic", "usage"}, exit' # "usage" => failed',
         failed' \in BOOLEAN, open' \subseteq open, UNCHANGED <<target, content, cursor, buffer, eptr, short>>
  PROVE  IInv'
<1>1. Source' = Source /\ Result' = Result
  BY DEF Source, Result
<1>. QED BY <1>1, Leaves DEF IInv, Copied

LEMMA OpenSteps ==
  ASSUME IInv, MissingPath \/ OpenInput \/ OpenOutput PROVE IInv'
<1>1. CASE MissingPath
  <2>1. CASE Leave("usage", open) /\ UNCHANGED failed
    <3>1. at' = "out" /\ exit' = "usage"
      BY <1>1, <2>1 DEF MissingPath, Leave, IInv, Control
    <3>. QED BY <1>1, <2>1, <3>1, LeavesFiles DEF MissingPath, IInv, TypeOK
  <2>2. CASE Leave("error", open) /\ failed' = TRUE
    BY <1>1, <2>2, LeavesFiles DEF MissingPath, Leave
  <2>. QED BY <1>1, <2>1, <2>2 DEF MissingPath
<1>2. CASE OpenInput
  <2>1. CASE failed' = TRUE /\ Leave("error", open) /\ UNCHANGED open
    BY <1>2, <2>1, LeavesFiles DEF OpenInput, Leave
  <2>2. CASE open' = {"input"} /\ at' = "open_output" /\ UNCHANGED <<exit, failed>>
    <3>1. /\ at = "options" /\ UNCHANGED <<target, content, cursor, buffer, eptr, short>>
          /\ Source' = Source /\ Result' = Result
      BY <1>2 DEF OpenInput, Source, Result
    <3>2. TypeOK'
      <4>1. open' \subseteq Files
        BY <2>2 DEF Files
      <4>. QED BY <2>2, <3>1, <4>1 DEF IInv, TypeOK
    <3>3. Control' /\ Emptied' /\ SuccessIsComplete' /\ TroubleHasACause'
      BY <2>2, <3>1 DEF IInv, Control, Emptied, SuccessIsComplete, TroubleHasACause
    <3>4. Copied'
      BY <2>2, <3>1 DEF IInv, Copied
    <3>. QED BY <3>2, <3>3, <3>4 DEF IInv
  <2>. QED BY <1>2, <2>1, <2>2 DEF OpenInput
<1>3. CASE OpenOutput
  <2>1. CASE failed' = TRUE /\ Leave("error", open) /\ UNCHANGED <<open, content>>
    BY <1>3, <2>1, LeavesFiles DEF OpenOutput, Leave
  <2>2. CASE /\ open' = Files /\ content' = [content EXCEPT ![target] = <<>>]
             /\ at' = "read" /\ UNCHANGED <<exit, failed>>
    <3>1. /\ at = "open_output" /\ cursor = 0 /\ buffer = <<>>
          /\ UNCHANGED <<target, cursor, buffer, eptr, short>>
      BY <1>3 DEF OpenOutput, IInv, Emptied
    <3>2. content' \in [Files -> Seq(0 .. MaxSize)]
      <4>1. content \in [Files -> Seq(0 .. MaxSize)] /\ <<>> \in Seq(0 .. MaxSize)
        BY EmptySeq DEF IInv, Copied
      <4>. QED BY <2>2, <4>1
    <3>3. target \in Files
      BY DEF IInv, TypeOK
    <3>4. /\ target = "input" => Source' = <<>> /\ Result' = Result
          /\ target = "output" => Source' = Source /\ Result' = <<>>
      BY <2>2 DEF Source, Result, IInv, Copied, Files
    <3>5. TypeOK'
      BY <2>2, <3>1, <3>2 DEF IInv, TypeOK
    <3>6. Control' /\ SuccessIsComplete' /\ TroubleHasACause'
      BY <2>2, <3>1 DEF IInv, Control, SuccessIsComplete, TroubleHasACause
    <3>7. Emptied'
      BY <2>2, <3>1, <3>4 DEF Emptied
    <3>8. Source' \in Seq(1 .. MaxSize) /\ Len(Source') <= MaxSize
      <4>1. CASE target = "input"
        BY <3>4, <4>1, CopyAssumption
      <4>2. CASE target = "output"
        BY <3>4, <4>2 DEF IInv, Copied
      <4>. QED BY <3>3, <4>1, <4>2 DEF Files
    <3>9. target = "output" =>
             Len(Result') = 0 /\ Len(Source') \in Nat
      BY <3>4, <3>8
    <3>10. Copied'
      BY <2>2, <3>1, <3>2, <3>8, <3>9 DEF Copied
    <3>. QED BY <3>5, <3>6, <3>7, <3>10 DEF IInv
  <2>. QED BY <1>3, <2>1, <2>2 DEF OpenOutput
<1>. QED BY <1>1, <1>2, <1>3

\* Read and write: their exceptions are caught.
LEMMA Catches ==
  ASSUME IInv, at \in {"read", "write"}, Catch,
         UNCHANGED <<exit, target, content, open, cursor, buffer, short>>
  PROVE  IInv'
<1>1. eptr' = TRUE /\ failed' = TRUE /\ at' = "close_input" /\ Source' = Source /\ Result' = Result
  BY DEF Catch, Source, Result
<1>2. TypeOK'
  BY <1>1 DEF IInv, TypeOK
<1>3. Control' /\ Emptied' /\ SuccessIsComplete' /\ TroubleHasACause'
  BY <1>1 DEF IInv, Control, Emptied, SuccessIsComplete, TroubleHasACause
<1>4. Copied'
  BY <1>1 DEF IInv, Copied
<1>. QED BY <1>2, <1>3, <1>4 DEF IInv

LEMMA ReadSteps ==
  ASSUME IInv, Read PROVE IInv'
<1>. DEFINE left == Max({0, Len(Source) - cursor})
            most == Min({Buf, left})
<1>1. /\ Source \in Seq(1 .. MaxSize) /\ Len(Source) \in Nat /\ Len(Source) <= MaxSize
      /\ cursor \in Nat /\ Buf \in Nat /\ Buf > 0 /\ MaxSize \in Nat
      /\ target = "output" => Len(Result) = cursor /\ cursor <= Len(Source)
      /\ target = "input" => Source = <<>> /\ cursor = 0
      /\ target \in {"input", "output"}
  <2>1. at = "read" /\ open = Files
    BY DEF Read, IInv, Control
  <2>2. /\ Source \in Seq(1 .. MaxSize) /\ Len(Source) <= MaxSize
        /\ target = "output" => Len(Result) = cursor /\ cursor <= Len(Source)
    BY <2>1 DEF IInv, Copied, Files
  <2>3. target = "input" => Source = <<>> /\ cursor = 0
    BY <2>1 DEF IInv, Emptied
  <2>4. target \in {"input", "output"}
    BY DEF IInv, TypeOK, Files
  <2>. QED BY <2>2, <2>3, <2>4, Types DEF IInv
<1>2. /\ left \in Nat /\ left = IF 0 >= Len(Source) - cursor THEN 0 ELSE Len(Source) - cursor
      /\ most \in Nat /\ most = IF Buf <= left THEN Buf ELSE left
      /\ Min({1, most}) = IF 1 <= most THEN 1 ELSE most
  <2>1. left = IF 0 >= Len(Source) - cursor THEN 0 ELSE Len(Source) - cursor
    <3>. DEFINE d == Len(Source) - cursor
    <3>1. d \in Int
      BY <1>1
    <3>. HIDE DEF d
    <3>2. Max({0, d}) = IF 0 >= d THEN 0 ELSE d
      BY <3>1, MinMax
    <3>. QED BY <3>2 DEF d
  <2>2. left \in Nat
    BY <1>1, <2>1
  <2>. HIDE DEF left
  <2>3. most = IF Buf <= left THEN Buf ELSE left
    BY <1>1, <2>2, MinMax
  <2>4. most \in Nat
    BY <1>1, <2>2, <2>3
  <2>. HIDE DEF most
  <2>5. Min({1, most}) = IF 1 <= most THEN 1 ELSE most
    BY <2>4, MinMax
  <2>. QED BY <2>1, <2>2, <2>3, <2>4, <2>5
<1>. HIDE DEF left, most
<1>3. CASE Catch /\ UNCHANGED <<buffer, short>>
  BY <1>3, Catches DEF Read
<1>4. CASE /\ \E n \in Min({1, most}) .. most :
                /\ buffer' = SubSeq(Source, cursor + 1, cursor + n)
                /\ short'  = (short \/ n < most)
           /\ at' = "write"
           /\ UNCHANGED <<eptr, failed>>
  <2>1. PICK n \in Min({1, most}) .. most :
                /\ buffer' = SubSeq(Source, cursor + 1, cursor + n)
                /\ short'  = (short \/ n < most)
    BY <1>4
  <2>2. /\ n \in Nat /\ n <= most /\ n <= Buf
        /\ Len(Source) <= cursor => n = 0
        /\ cursor < Len(Source) => cursor + n <= Len(Source)
    BY <1>1, <1>2
  <2>3. /\ at = "read" /\ at' = "write" /\ UNCHANGED <<eptr, failed, exit, target, content, open, cursor>>
        /\ Source' = Source /\ Result' = Result
    BY <1>4 DEF Read, Source, Result
  <2>4. /\ buffer' \in Seq(1 .. MaxSize) /\ Len(buffer') = n
        /\ \A i \in 1 .. n : buffer'[i] = Source[cursor + i]
    <3>1. ASSUME NEW i \in cursor + 1 .. cursor + n PROVE Source[i] \in 1 .. MaxSize
      <4>1. i \in 1 .. Len(Source)
        BY <1>1, <2>2
      <4>. QED BY <1>1, <4>1, ElementOfSeq
    <3>2. cursor + 1 \in Int /\ cursor + n \in Int
      BY <1>1, <2>2
    <3>. DEFINE a == cursor + 1
                b == cursor + n
    <3>3. /\ SubSeq(Source, a, b) \in Seq(1 .. MaxSize)
          /\ Len(SubSeq(Source, a, b)) = IF a <= b THEN b - a + 1 ELSE 0
          /\ \A i \in 1 .. b - a + 1 : SubSeq(Source, a, b)[i] = Source[a + i - 1]
      <4>. HIDE DEF a, b
      <4>1. a \in Int /\ b \in Int /\ \A i \in a .. b : Source[i] \in 1 .. MaxSize
        BY <3>1, <3>2 DEF a, b
      <4>. QED BY <4>1, SubSeqProperties
    <3>4. buffer' = SubSeq(Source, a, b)
      BY <2>1
    <3>5. IF a <= b THEN n = b - a + 1 ELSE n = 0
      BY <1>1, <2>2
    <3>6. b - a + 1 = n /\ \A i \in 1 .. n : a + i - 1 = cursor + i
      BY <1>1, <2>2
    <3>. HIDE DEF a, b
    <3>. QED BY <3>3, <3>4, <3>5, <3>6
  <2>5. TypeOK'
    <3>1. short' \in BOOLEAN
      BY <2>1 DEF IInv, TypeOK
    <3>. QED BY <2>2, <2>3, <2>4, <3>1 DEF IInv, TypeOK
  <2>6. Control' /\ SuccessIsComplete' /\ TroubleHasACause'
    <3>1. at' # "out" /\ exit' = "none"
      BY <2>3 DEF IInv, Control
    <3>. QED BY <2>3, <3>1 DEF IInv, Control, SuccessIsComplete, TroubleHasACause
  <2>7. Emptied'
    <3>1. target' = "input" => buffer' = <<>> /\ Source' = <<>> /\ cursor' = 0
      <4>1. target = "input" => n = 0 /\ Source = <<>> /\ cursor = 0
        BY <1>1, <2>2, EmptySeq
      <4>2. n = 0 => buffer' = <<>>
        BY <2>4, EmptySeq
      <4>. QED BY <2>3, <4>1, <4>2
    <3>. QED BY <2>3, <3>1 DEF Emptied
  <2>8. target = "output" =>
          /\ cursor + Len(buffer') <= Len(Source)
          /\ short' \/ Len(buffer') = Buf \/ cursor + Len(buffer') = Len(Source)
    <3>1. ~short' => n = most
      <4>1. short' \/ ~(n < most)
        BY <2>1, Zenon
      <4>2. n \in Nat /\ most \in Nat /\ n <= most
        BY <1>2, <2>2
      <4>. QED BY <4>1, <4>2
    <3>2. cursor <= Len(Source) => (n = most => n = Buf \/ cursor + n = Len(Source))
      BY <1>1, <1>2
    <3>3. cursor <= Len(Source) => cursor + n <= Len(Source)
      BY <1>1, <2>2
    <3>4. short' \in BOOLEAN
      BY <2>5 DEF TypeOK
    <3>. QED BY <1>1, <2>4, <3>1, <3>2, <3>3, <3>4
  <2>9. Copied'
    BY <2>3, <2>4, <2>8 DEF IInv, Copied
  <2>. QED BY <2>5, <2>6, <2>7, <2>9 DEF IInv
<1>5. \/ Catch /\ UNCHANGED <<buffer, short>>
      \/ /\ \E n \in Min({1, most}) .. most :
                /\ buffer' = SubSeq(Source, cursor + 1, cursor + n)
                /\ short'  = (short \/ n < most)
         /\ at' = "write"
         /\ UNCHANGED <<eptr, failed>>
  BY DEF Read, left, most, Source
<1>. QED BY <1>3, <1>4, <1>5

LEMMA CloseSteps ==
  ASSUME IInv, CloseInput \/ CloseOutput PROVE IInv'
<1>1. CASE CloseInput
  <2>1. /\ at = "close_input" /\ open' = {"output"}
        /\ UNCHANGED <<target, content, cursor, buffer, eptr, short>>
        /\ Source' = Source /\ Result' = Result /\ open = Files
    BY <1>1 DEF CloseInput, IInv, Control, Files, Source, Result
  <2>2. CASE failed' = TRUE /\ Leave("error", open')
    <3>1. open' \subseteq open
      BY <1>1 DEF CloseInput
    <3>. QED BY <2>1, <2>2, <3>1, LeavesFiles DEF Leave
  <2>3. CASE at' = "close_output" /\ UNCHANGED <<exit, failed>>
    <3>1. TypeOK'
      BY <2>1, <2>3 DEF IInv, TypeOK, Files
    <3>2. Control' /\ Emptied' /\ SuccessIsComplete' /\ TroubleHasACause'
      BY <2>1, <2>3 DEF IInv, Control, Emptied, SuccessIsComplete, TroubleHasACause
    <3>3. Copied'
      BY <2>1, <2>3 DEF IInv, Copied, Files
    <3>. QED BY <3>1, <3>2, <3>3 DEF IInv
  <2>. QED BY <1>1, <2>2, <2>3 DEF CloseInput
<1>2. CASE CloseOutput
  <2>1. /\ at = "close_output" /\ open = {"output"} /\ open' = {}
        /\ UNCHANGED <<target, content, cursor, buffer, eptr, short>>
        /\ failed <=> eptr
    BY <1>2 DEF CloseOutput, IInv, Control
  <2>2. failed \in BOOLEAN /\ eptr \in BOOLEAN
    BY DEF IInv, TypeOK
  <2>3. CASE failed' = TRUE /\ Leave("error", open')
    <3>1. open' \subseteq open
      BY <2>1
    <3>. QED BY <2>1, <2>3, <3>1, LeavesFiles DEF Leave
  <2>4. CASE Leave(IF eptr THEN "error" ELSE "success", open') /\ UNCHANGED failed
    <3>1. CASE eptr
      <4>1. open' \subseteq open
        BY <2>1
      <4>. QED BY <2>1, <2>2, <2>4, <3>1, <4>1, LeavesFiles DEF Leave
    <3>2. CASE ~eptr
      <4>1. /\ at' = "out" /\ exit' = "success" /\ failed' = FALSE
            /\ Source' = Source /\ Result' = Result
        BY <2>1, <2>2, <2>4, <3>2 DEF Leave, Source, Result
      <4>2. TypeOK'
        BY <2>1, <4>1 DEF IInv, TypeOK
      <4>3. Control' /\ Emptied' /\ TroubleHasACause'
        BY <2>1, <4>1 DEF Control, Emptied, TroubleHasACause
      <4>4. Copied'
        BY <2>1, <4>1 DEF IInv, Copied
      <4>5. SuccessIsComplete'
        <5>1. SUFFICES ASSUME ~short, target # "input" PROVE Result = Source
          BY <2>1, <4>1 DEF SuccessIsComplete, Source, Result
        <5>2. target = "output"
          BY <5>1 DEF IInv, TypeOK, Files
        <5>3. Len(Result) = Len(Source) /\ \A i \in 1 .. Len(Result) : Result[i] = Source[i]
          BY <2>1, <2>2, <3>2, <5>1, <5>2 DEF IInv, Copied
        <5>4. Source \in Seq(0 .. MaxSize) /\ Result \in Seq(0 .. MaxSize)
          BY Types DEF IInv
        <5>. QED BY <5>3, <5>4, SeqEqual
      <4>. QED BY <4>2, <4>3, <4>4, <4>5 DEF IInv
    <3>. QED BY <2>2, <3>1, <3>2
  <2>. QED BY <1>2, <2>3, <2>4 DEF CloseOutput
<1>. QED BY <1>1, <1>2

LEMMA WriteSteps ==
  ASSUME IInv, Write PROVE IInv'
<1>. DEFINE Put(n) == Written(content[target], cursor, SubSeq(buffer, 1, n))
<1>1. /\ Source \in Seq(1 .. MaxSize) /\ Len(Source) \in Nat /\ Len(Source) <= MaxSize
      /\ Result \in Seq(0 .. MaxSize)
      /\ buffer \in Seq(1 .. MaxSize) /\ Len(buffer) \in Nat /\ Len(buffer) <= Buf
      /\ cursor \in Nat /\ Buf \in Nat /\ Buf > 0 /\ MaxSize \in Nat
  <2>1. Source \in Seq(1 .. MaxSize) /\ Len(Source) <= MaxSize
    BY DEF IInv, Copied
  <2>2. buffer \in Seq(1 .. MaxSize) /\ Len(buffer) <= Buf
    BY DEF IInv, TypeOK
  <2>. QED BY <2>1, <2>2, Types DEF IInv
<1>2. /\ at = "write" /\ open = Files /\ ~failed /\ ~eptr /\ exit = "none"
      /\ "output" \in open
  BY DEF Write, IInv, Control, Files
<1>3. target = "output" =>
        /\ Len(Result) = cursor /\ cursor + Len(buffer) <= Len(Source)
        /\ \A i \in 1 .. Len(Result) : Result[i] = Source[i]
        /\ \A i \in 1 .. Len(buffer) : buffer[i] = Source[cursor + i]
        /\ short \/ Len(buffer) = Buf \/ cursor + Len(buffer) = Len(Source)
  BY <1>2 DEF IInv, Copied
<1>4. target = "input" => Source = <<>> /\ cursor = 0 /\ buffer = <<>>
  BY <1>2 DEF IInv, Emptied
<1>5. target \in {"input", "output"} /\ content \in [Files -> Seq(0 .. MaxSize)]
  BY DEF IInv, TypeOK, Copied, Files
<1>6. CASE Catch /\ UNCHANGED <<exit, content, cursor>>
  BY <1>2, <1>6, Catches DEF Write
<1>7. ASSUME NEW n \in Min({1, Len(buffer)}) .. Len(buffer),
             content' = [content EXCEPT ![target] = Put(n)],
             \/ n < Len(buffer) /\ failed' = TRUE /\ Leave("error", open) /\ UNCHANGED cursor
             \/ /\ n = Len(buffer)
                /\ IF n < Buf THEN at' = "close_input" /\ UNCHANGED cursor
                              ELSE at' = "read" /\ cursor' = cursor + n
                /\ UNCHANGED <<exit, failed>>,
             UNCHANGED eptr
      PROVE  IInv'
  <2>1. UNCHANGED <<target, open, buffer, eptr, short>>
    BY <1>7 DEF Write
  <2>2. n \in Nat /\ n <= Len(buffer)
    <3>1. Min({1, Len(buffer)}) = IF 1 <= Len(buffer) THEN 1 ELSE Len(buffer)
      <4>. DEFINE len == Len(buffer)
      <4>1. len \in Int /\ 1 \in Int
        BY <1>1
      <4>. HIDE DEF len
      <4>2. Min({1, len}) = IF 1 <= len THEN 1 ELSE len
        BY <4>1, MinMax
      <4>. QED BY <4>2 DEF len
    <3>. QED BY <1>1, <1>7, <3>1
  <2>. DEFINE bytes == SubSeq(buffer, 1, n)
  <2>3. /\ bytes \in Seq(1 .. MaxSize) /\ Len(bytes) = n
        /\ \A i \in 1 .. n : bytes[i] = buffer[i]
    <3>1. \A i \in 1 .. n : buffer[i] \in 1 .. MaxSize
      BY <1>1, <2>2, ElementOfSeq
    <3>2. /\ SubSeq(buffer, 1, n) \in Seq(1 .. MaxSize)
          /\ Len(SubSeq(buffer, 1, n)) = IF 1 <= n THEN n - 1 + 1 ELSE 0
          /\ \A i \in 1 .. n - 1 + 1 : SubSeq(buffer, 1, n)[i] = buffer[1 + i - 1]
      BY <2>2, <3>1, SubSeqProperties
    <3>3. \A i \in 1 .. n : i \in 1 .. n - 1 + 1 /\ 1 + i - 1 = i
      BY <2>2
    <3>. HIDE DEF bytes
    <3>. QED BY <2>2, <3>2, <3>3 DEF bytes
  <2>4. bytes \in Seq(0 .. MaxSize)
    <3>1. 1 .. MaxSize \subseteq 0 .. MaxSize
      BY <1>1
    <3>. QED BY <2>3, <3>1, SeqMonotonic
  <2>. HIDE DEF bytes
  <2>5. /\ Source' = Source
        /\ target = "input" => Result' = Result /\ n = 0
        /\ target = "output" => Result' = Written(Result, Len(Result), bytes)
    <3>1. CASE target = "input"
      <4>1. n = 0 /\ Len(buffer) = 0
        BY <1>4, <2>2, <3>1, EmptySeq
      <4>2. bytes = <<>>
        BY <2>3, <4>1, EmptySeq
      <4>3. Put(n) = content[target]
        BY <4>2 DEF Written, bytes
      <4>4. content' = content
        BY <1>5, <1>7, <4>3 DEF Files
      <4>. QED BY <3>1, <4>1, <4>4 DEF Source, Result
    <3>2. CASE target = "output"
      <4>1. Put(n) = Written(Result, Len(Result), bytes)
        BY <1>3, <3>2 DEF Result, bytes
      <4>. HIDE DEF Put
      <4>. QED BY <1>5, <1>7, <3>2, <4>1 DEF Source, Result, Files
    <3>. QED BY <1>5, <3>1, <3>2
  <2>6. /\ Result' \in Seq(0 .. MaxSize)
        /\ target = "output" =>
             /\ Len(Result') = cursor + n
             /\ \A i \in 1 .. cursor : Result'[i] = Result[i]
             /\ \A i \in 1 .. n : Result'[cursor + i] = bytes[i]
    <3>1. CASE target = "input"
      BY <1>1, <2>5, <3>1
    <3>2. CASE target = "output"
      <4>1. /\ Result' \in Seq(0 .. MaxSize) /\ Len(Result') = Len(Result) + Len(bytes)
            /\ \A i \in 1 .. Len(Result) : Result'[i] = Result[i]
            /\ \A i \in 1 .. Len(bytes) : Result'[Len(Result) + i] = bytes[i]
        <5>. DEFINE Byte == 0 .. MaxSize
                    old  == Result
                    new  == Result'
        <5>1. old \in Seq(Byte) /\ bytes \in Seq(Byte)
          BY <1>1, <2>4
        <5>2. new = Written(old, Len(old), bytes)
          BY <2>5, <3>2
        <5>. HIDE DEF Byte, old, new
        <5>3. new \in Seq(Byte) /\ Appends(new, old, bytes)
          BY <5>1, <5>2, WrittenAtTheEnd
        <5>. QED BY <5>3 DEF Appends, Byte, old, new
      <4>2. Len(Result) = cursor /\ Len(bytes) = n
        BY <1>3, <2>3, <2>5, <3>2
      <4>. QED BY <4>1, <4>2
    <3>. QED BY <1>5, <3>1, <3>2
  <2>7. target = "output" => \A i \in 1 .. Len(Result') : Result'[i] = Source[i]
    <3>1. SUFFICES ASSUME target = "output", NEW i \in 1 .. Len(Result')
                   PROVE  Result'[i] = Source[i]
      OBVIOUS
    <3>2. CASE i <= cursor
      <4>1. i \in 1 .. cursor
        BY <1>1, <2>2, <2>6, <3>1, <3>2
      <4>. QED BY <1>3, <2>6, <3>1, <4>1
    <3>3. CASE i > cursor
      <4>. DEFINE k == i - cursor
      <4>1. k \in 1 .. n /\ k \in 1 .. Len(buffer) /\ cursor + k = i
        BY <1>1, <2>2, <2>6, <3>1, <3>3
      <4>. HIDE DEF k
      <4>. QED BY <1>3, <2>3, <2>6, <3>1, <4>1
    <3>. QED BY <1>1, <2>2, <2>6, <3>1, <3>2, <3>3
  <2>8. content' \in [Files -> Seq(0 .. MaxSize)]
    <3>1. Put(n) \in Seq(0 .. MaxSize)
      <4>1. CASE target = "input"
        <5>1. content'["input"] = Put(n)
          BY <1>5, <1>7, <4>1 DEF Files
        <5>2. Source' \in Seq(0 .. MaxSize)
          BY <2>5, Types DEF IInv
        <5>. QED BY <5>1, <5>2 DEF Source
      <4>2. CASE target = "output"
        <5>1. content'["output"] = Put(n)
          BY <1>5, <1>7, <4>2 DEF Files
        <5>. QED BY <2>6, <5>1 DEF Result
      <4>. QED BY <1>5, <4>1, <4>2
    <3>. HIDE DEF Put
    <3>. QED BY <1>5, <1>7, <3>1
  <2>9. CASE n < Len(buffer) /\ failed' = TRUE /\ Leave("error", open) /\ UNCHANGED cursor
    <3>1. /\ at' = "out" /\ exit' \in {"error", "panic", "usage"}
          /\ open' \subseteq open /\ failed' \in BOOLEAN
      BY <2>1, <2>9 DEF Leave
    <3>2. target = "output" => Len(Result') <= Len(Source')
      BY <1>1, <1>3, <2>2, <2>5, <2>6
    <3>3. Source' \in Seq(1 .. MaxSize) /\ Len(Source)' <= MaxSize
      BY <1>1, <2>5
    <3>4. target = "output" => \A i \in 1 .. Len(Result)' : Result'[i] = Source'[i]
      BY <2>5, <2>7
    <3>. QED BY <2>1, <2>8, <2>9, <3>1, <3>2, <3>3, <3>4, Leaves
  <2>10. CASE /\ n = Len(buffer)
              /\ IF n < Buf THEN at' = "close_input" /\ UNCHANGED cursor
                            ELSE at' = "read" /\ cursor' = cursor + n
              /\ UNCHANGED <<exit, failed>>
    <3>1. /\ n < Buf => at' = "close_input" /\ cursor' = cursor
          /\ ~(n < Buf) => at' = "read" /\ cursor' = cursor + n
          /\ exit' = "none" /\ failed' = failed /\ eptr' = eptr
          /\ at' \in {"close_input", "read"}
      BY <1>2, <2>1, <2>10
    <3>2. target = "input" => n < Buf
      BY <1>1, <2>5
    <3>3. cursor' \in 0 .. MaxSize
      <4>1. cursor \in 0 .. MaxSize
        BY DEF IInv, TypeOK
      <4>2. target = "output" => cursor + n \in 0 .. MaxSize
        BY <1>1, <1>3, <2>2, <2>10
      <4>. QED BY <1>5, <3>1, <3>2, <4>1, <4>2
    <3>4. TypeOK'
      BY <2>1, <2>8, <3>1, <3>3 DEF IInv, TypeOK
    <3>5. Control' /\ SuccessIsComplete' /\ TroubleHasACause'
      BY <1>2, <2>1, <3>1 DEF Control, SuccessIsComplete, TroubleHasACause
    <3>6. Emptied'
      BY <1>4, <2>1, <3>1, <3>2 DEF Emptied
    <3>7. Copied'
      <4>1. target = "output" => Len(Result') <= Len(Source')
        BY <1>1, <1>3, <2>2, <2>5, <2>6
      <4>2. Source' \in Seq(1 .. MaxSize) /\ Len(Source') <= MaxSize
        BY <1>1, <2>5
      <4>3. target = "output" => \A i \in 1 .. Len(Result') : Result'[i] = Source'[i]
        BY <2>5, <2>7
      <4>4. at' = "read" /\ target = "output" => Len(Result') = cursor'
        BY <2>6, <3>1
      <4>5. at' = "close_input" /\ target = "output" => short' \/ Len(Result') = Len(Source')
        BY <1>1, <1>3, <2>1, <2>2, <2>5, <2>6, <2>10, <3>1
      <4>. QED BY <2>1, <2>8, <3>1, <4>1, <4>2, <4>3, <4>4, <4>5 DEF Copied
    <3>. QED BY <3>4, <3>5, <3>6, <3>7 DEF IInv
  <2>. QED BY <1>7, <2>9, <2>10
<1>8. \/ Catch /\ UNCHANGED <<exit, content, cursor>>
      \/ /\ \E n \in Min({1, Len(buffer)}) .. Len(buffer) :
              /\ content' = [content EXCEPT ![target] = Put(n)]
              /\ \/ n < Len(buffer) /\ failed' = TRUE /\ Leave("error", open) /\ UNCHANGED cursor
                 \/ /\ n = Len(buffer)
                    /\ IF n < Buf THEN at' = "close_input" /\ UNCHANGED cursor
                                  ELSE at' = "read" /\ cursor' = cursor + n
                    /\ UNCHANGED <<exit, failed>>
         /\ UNCHANGED eptr
  BY DEF Write
<1>. HIDE DEF Put
<1>. QED BY <1>6, <1>7, <1>8

-----------------------------------------------------------------------------
LEMMA StepInv == IInv /\ [Next]_vars => IInv'
<1>1. CASE UNCHANGED vars
  BY <1>1 DEF vars, IInv, TypeOK, Control, Copied, Emptied, SuccessIsComplete, TroubleHasACause,
               Source, Result
<1>. QED BY <1>1, OpenSteps, ReadSteps, WriteSteps, CloseSteps DEF Next

LEMMA Invariance == Spec => []IInv
BY InitInv, StepInv, PTL DEF Spec

(***************************************************************************)
(* The loop's state stays within its types: what was read fits the buffer  *)
(* and the cursor never passes the end of the source (src/demo-cp.cc).     *)
(***************************************************************************)
THEOREM TypeCorrectness == Spec => []TypeOK
<1>1. IInv => TypeOK
  BY DEF IInv
<1>. QED BY <1>1, Invariance, PTL

(***************************************************************************)
(* Whatever the requests answer, the output is a prefix of the input from  *)
(* the moment it was truncated to the moment it is closed: short reads and *)
(* short writes neither lose nor double nor misplace a byte.               *)
(***************************************************************************)
THEOREM OutputIsAlwaysAPrefix == Spec => []OutputIsPrefix
<1>1. ASSUME IInv PROVE OutputIsPrefix
  <2>1. SUFFICES ASSUME "output" \in open, target # "input" PROVE IsPrefix(Result, Source)
    BY DEF OutputIsPrefix, Source, Result
  <2>2. target = "output"
    BY <1>1, <2>1 DEF IInv, TypeOK, Files
  <2>3. Len(Result) <= Len(Source) /\ \A i \in 1 .. Len(Result) : Result[i] = Source[i]
    BY <1>1, <2>1, <2>2 DEF IInv, Copied
  <2>4. /\ Source \in Seq(0 .. MaxSize) /\ Result \in Seq(0 .. MaxSize)
        /\ Len(Source) \in Nat /\ Len(Result) \in Nat
    BY <1>1, Types DEF IInv
  <2>5. /\ SubSeq(Source, 1, Len(Result)) \in Seq(0 .. MaxSize)
        /\ Len(SubSeq(Source, 1, Len(Result))) = Len(Result)
        /\ \A i \in 1 .. Len(Result) : SubSeq(Source, 1, Len(Result))[i] = Source[i]
    <3>. DEFINE n == Len(Result)
                part == SubSeq(Source, 1, n)
    <3>1. n \in Nat /\ n \in Int /\ \A i \in 1 .. n : Source[i] \in 0 .. MaxSize
      <4>1. n \in Nat /\ n <= Len(Source)
        BY <2>3, <2>4
      <4>. HIDE DEF n
      <4>2. ASSUME NEW i \in 1 .. n PROVE Source[i] \in 0 .. MaxSize
        <5>1. i \in 1 .. Len(Source)
          BY <2>4, <4>1
        <5>. QED BY <2>4, <5>1, ElementOfSeq
      <4>. QED BY <4>1, <4>2
    <3>. HIDE DEF n
    <3>2. /\ part \in Seq(0 .. MaxSize) /\ Len(part) = IF 1 <= n THEN n - 1 + 1 ELSE 0
          /\ \A i \in 1 .. n - 1 + 1 : part[i] = Source[1 + i - 1]
      BY <3>1, SubSeqProperties
    <3>3. \A i \in 1 .. n : i \in 1 .. n - 1 + 1 /\ 1 + i - 1 = i
      BY <3>1
    <3>. HIDE DEF part
    <3>4. part \in Seq(0 .. MaxSize) /\ Len(part) = n /\ \A i \in 1 .. n : part[i] = Source[i]
      BY <3>1, <3>2, <3>3
    <3>. QED BY <3>4 DEF n, part
  <2>6. SubSeq(Source, 1, Len(Result)) = Result
    BY <2>3, <2>4, <2>5, SeqEqual
  <2>. QED BY <2>3, <2>4, <2>6 DEF IsPrefix
<1>. QED BY <1>1, Invariance, PTL

(***************************************************************************)
(* Success means that every byte was copied, but for the short read that   *)
(* the loop takes for the end of the file and for a copy onto itself.      *)
(***************************************************************************)
THEOREM CopiesAreComplete == Spec => []SuccessIsComplete
<1>1. IInv => SuccessIsComplete
  BY DEF IInv
<1>. QED BY <1>1, Invariance, PTL

(***************************************************************************)
(* Neither an exception nor a panic comes from nothing: on the paths where *)
(* every request is carried out both files are closed at the end.          *)
(***************************************************************************)
THEOREM TroubleIsCaused == Spec => []TroubleHasACause
<1>1. IInv => TroubleHasACause
  BY DEF IInv
<1>. QED BY <1>1, Invariance, PTL

=============================================================================
