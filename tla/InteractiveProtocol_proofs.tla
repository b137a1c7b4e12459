---------------------- MODULE InteractiveProtocol_proofs ----------------------
(***************************************************************************)
(* Proofs about the interactive protocol, for any number of cycles: no     *)
(* answer is taken for another request's, the wrapper predicts with every  *)
(* line read, and the words that nobody asked for do not pile up.          *)
(***************************************************************************)
EXTENDS InteractiveProtocol, TLAPS

AllWhatever == \A i \in DOMAIN words : words[i] = Other
Busy        == py \in {"answer", "finish"}

(* A request goes through three states: its line has not been read, the    *)
(* wrapper writes the answer, the answer is on its way; or the wrapper     *)
(* closes instead of answering.  Otherwise the pipes hold nothing that     *)
(* belongs to a request.                                                   *)
Idle ==
  /\ AllWhatever /\ partial = Nothing /\ asked = requests /\ ~Busy
  /\ \A i \in DOMAIN lines : lines[i] # "Predict"

Unread ==
  /\ AllWhatever /\ partial = Nothing /\ asked + 1 = requests /\ ~Busy
  /\ lines # <<>>
  /\ \A i \in DOMAIN lines : lines[i] = "Predict" <=> i = Len(lines)

Answering ==
  /\ AllWhatever /\ asked = requests /\ requests # 0 /\ lines = <<>>
  /\ \/ py = "answer" /\ partial = Nothing
     \/ py = "finish" /\ partial = <<Answer(asked)>>

Answered ==
  /\ partial = Nothing /\ asked = requests /\ requests # 0 /\ lines = <<>> /\ ~Busy
  /\ \E k \in DOMAIN words :
       /\ words[k] = requests
       /\ \A i \in DOMAIN words : i # k => words[i] = Other

\* The user has closed instead of predicting.
Abandoned ==
  /\ AllWhatever /\ partial = Nothing /\ asked = requests /\ lines = <<>>
  /\ py \in {"closing", "closed"}

Exchange ==
  /\ sim = "answer" => Unread \/ Answering \/ Answered \/ Abandoned
  /\ sim # "answer" /\ ~Gone => Idle
  /\ Gone => Idle \/ (py \in {"closing", "closed"} /\ (AllWhatever \/ Answered))
  /\ closed => py \in {"closing", "closed"}

Taken == sim = "end" /\ decoded => prediction = requests

IInv == TypeOK /\ Exchange /\ Taken
-----------------------------------------------------------------------------
(* Sequences: what is in a pipe after a write or a read. *)

\* A pipe without anything in it.
LEMMA Empty ==
  ASSUME NEW S
  PROVE  <<>> \in Seq(S) /\ DOMAIN <<>> = {}
OBVIOUS

\* Writing x behind s.
LEMMA Written ==
  ASSUME NEW S, NEW s \in Seq(S), NEW x \in S
  PROVE  /\ Append(s, x) \in Seq(S)
         /\ DOMAIN Append(s, x) = 1 .. Len(s) + 1
         /\ DOMAIN s = 1 .. Len(s) /\ Len(s) \in Nat
         /\ Len(Append(s, x)) = Len(s) + 1
         /\ \A i \in 1 .. Len(s) : Append(s, x)[i] = s[i]
         /\ Append(s, x)[Len(s) + 1] = x
OBVIOUS

\* Reading the first element of s.
LEMMA Read ==
  ASSUME NEW S, NEW s \in Seq(S), s # <<>>
  PROVE  /\ Tail(s) \in Seq(S)
         /\ Head(s) = s[1] /\ Head(s) \in S
         /\ Len(s) \in Nat \ {0}
         /\ DOMAIN s = 1 .. Len(s)
         /\ DOMAIN Tail(s) = 1 .. Len(s) - 1
         /\ Len(Tail(s)) = Len(s) - 1
         /\ \A i \in 1 .. Len(s) - 1 : Tail(s)[i] = s[i + 1]
OBVIOUS

\* What SendRest adds: the word that was partial, and another.
LEMMA WrittenTwo ==
  ASSUME NEW S, NEW s \in Seq(S), NEW x \in S, NEW z \in S
  PROVE  LET t == s \o Append(<<x>>, z)
         IN /\ t \in Seq(S)
            /\ DOMAIN t = 1 .. Len(s) + 2
            /\ DOMAIN s = 1 .. Len(s) /\ Len(s) \in Nat
            /\ \A i \in 1 .. Len(s) : t[i] = s[i]
            /\ t[Len(s) + 1] = x /\ t[Len(s) + 2] = z
OBVIOUS

-----------------------------------------------------------------------------
(* A step keeps the types: what is read from a pipe was written to it. *)
LEMMA TypeStep == TypeOK /\ [Next]_vars => TypeOK'
<1> DEFINE Lines == {"PipelineStates", "Learn", "Predict"}
<1> SUFFICES ASSUME TypeOK, [Next]_vars PROVE TypeOK'
  OBVIOUS
<1>0. /\ words \in Seq(Nat) /\ lines \in Seq(Lines)
      /\ "Learn" \in Lines /\ "PipelineStates" \in Lines /\ 0 \in Nat
  BY DEF TypeOK
<1>100. Append(words, 0) \in Seq(Nat) /\ (words # <<>> => Tail(words) \in Seq(Nat))
  BY <1>0, Written, Read
<1>101. /\ Append(lines, "Learn") \in Seq(Lines)
      /\ Append(lines, "PipelineStates") \in Seq(Lines)
  <2> HIDE DEF Lines
  <2> QED
    BY <1>0, Written
<1> USE CycleAssumption DEF TypeOK, SimStates, PyStates, simVars, pyVars
<1>1. CASE execStage
  <2>1. lines' \in Seq(Lines)
    BY <1>0, <1>1, <1>101 DEF execStage, WriteLine
  <2>2. cycles' \in 0 .. MaxCycles /\ UNCHANGED <<words, partial>>
    BY <1>1 DEF execStage
  <2> QED
    BY <1>1, <2>1, <2>2 DEF execStage
<1>2. CASE Predict
  BY <1>2 DEF Predict, WriteLine
<1>3. CASE NoBranch
  BY <1>3 DEF NoBranch
<1>4. CASE Skip
  BY <1>4 DEF Skip
<1>5. CASE TakeAnswer
  BY <1>5 DEF TakeAnswer
<1>6. CASE NoAnswer
  BY <1>6 DEF NoAnswer
<1>7. CASE EndCycle
  BY <1>7 DEF EndCycle
<1>8. CASE TakeWord
  <2>1. words' \in Seq(Nat)
    BY <1>0, <1>8, <1>100 DEF TakeWord
  <2>2. lines' \in Seq(Lines)
    BY <1>0, <1>8, <1>101 DEF TakeWord, WriteLine
  <2> QED
    BY <1>8, <2>1, <2>2 DEF TakeWord
<1>9. CASE PrintLast
  BY <1>9 DEF PrintLast, WriteLine
<1>10. CASE SendWhatever
  <2>1. words' \in Seq(Nat) /\ py' \in {"broken", "read"}
    BY <1>0, <1>10, <1>100 DEF SendWhatever, Other
  <2> QED
    BY <1>10, <2>1 DEF SendWhatever
<1>11. CASE ReadLine
  BY <1>11 DEF ReadLine
<1>12. CASE ReadNothing
  BY <1>12 DEF ReadNothing
<1>13. CASE SendAnswer
  BY <1>13 DEF SendAnswer, Answer
<1>14. CASE SendRest
  BY <1>14 DEF SendRest, Answer, Other, Nothing
<1>15. CASE Close
  BY <1>15 DEF Close
<1>16. CASE Terminate
  BY <1>16 DEF Terminate
<1>17. CASE Finished
  BY <1>17 DEF Finished, vars
<1>18. CASE UNCHANGED vars
  BY <1>18 DEF vars
<1>19. CASE Exit
  BY <1>19 DEF Exit
<1> QED
  BY <1>1, <1>2, <1>3, <1>4, <1>5, <1>6, <1>7, <1>8, <1>9, <1>10, <1>11, <1>12, <1>13,
     <1>14, <1>15, <1>16, <1>17, <1>18, <1>19 DEF Next, Simulator, Wrapper
-----------------------------------------------------------------------------
(* A step takes a request from one of its states to the next, or leaves   *)
(* it: the other process has nothing to read then that it could mistake.   *)
LEMMA ExchangeStep == IInv /\ [Next]_vars => Exchange' /\ Taken'
<1> DEFINE Lines == {"PipelineStates", "Learn", "Predict"}
<1> SUFFICES ASSUME IInv, [Next]_vars PROVE Exchange' /\ Taken'
  OBVIOUS
<1>0. /\ TypeOK /\ Exchange /\ Taken
      /\ words \in Seq(Nat) /\ lines \in Seq(Lines) /\ partial \in Seq(Nat)
      /\ requests \in Nat /\ asked \in Nat
  BY DEF IInv, TypeOK
<1> USE DEF Gone, Busy, Other, Answer, Nothing
<1>1. CASE execStage
  <2>1. \E kind \in Lines \ {"Predict"} : lines' = lines \/ lines' = Append(lines, kind)
    BY <1>1 DEF execStage, WriteLine
  <2>2. Idle
    BY <1>0, <1>1 DEF execStage, Exchange
  <2>3. \A i \in DOMAIN lines' : lines'[i] # "Predict"
    BY <1>0, <2>1, <2>2, Written DEF Idle
  <2> QED
    BY <1>0, <1>1, <2>2, <2>3
       DEF execStage, Exchange, Taken, Idle, AllWhatever, pyVars
<1>2. CASE Predict
  <2>1. Idle /\ lines' = Append(lines, "Predict")
    BY <1>0, <1>2 DEF Predict, WriteLine, Exchange
  <2>2. /\ lines' # <<>>
        /\ \A i \in DOMAIN lines' : lines'[i] = "Predict" <=> i = Len(lines')
    BY <1>0, <2>1, Written DEF Idle
  <2> QED
    BY <1>0, <1>2, <2>1, <2>2
       DEF Predict, Exchange, Taken, Idle, Unread, AllWhatever, pyVars
<1>3. CASE NoBranch
  BY <1>0, <1>3 DEF NoBranch, Exchange, Taken, Idle, AllWhatever, pyVars
<1>4. CASE Skip
  <2>0. /\ words # <<>> /\ words' = Tail(words) /\ Head(words) = Other
        /\ Len(words) \in Nat \ {0} /\ Head(words) = words[1]
        /\ DOMAIN words = 1 .. Len(words) /\ DOMAIN words' = 1 .. Len(words) - 1
        /\ \A i \in 1 .. Len(words) - 1 : words'[i] = words[i + 1]
    BY <1>0, <1>4, Read DEF Skip
  <2>1. /\ Unread => Unread'
        /\ Answering => Answering'
        /\ Abandoned => Abandoned'
    <3>1. AllWhatever => AllWhatever'
      BY <2>0 DEF AllWhatever
    <3> QED
      BY <1>4, <3>1 DEF Skip, Unread, Answering, Abandoned, simVars, pyVars
  <2>2. Answered => Answered'
    <3> SUFFICES ASSUME Answered PROVE Answered'
      OBVIOUS
    <3>1. PICK k \in DOMAIN words :
            words[k] = requests /\ \A i \in DOMAIN words : i # k => words[i] = Other
      BY DEF Answered
    <3>2. k # 1 /\ words[1] = Other
      BY <2>0, <3>1 DEF Answered
    <3>3. /\ k - 1 \in DOMAIN words' /\ words'[k - 1] = requests
          /\ \A i \in DOMAIN words' : i # k - 1 => words'[i] = Other
      BY <2>0, <3>1, <3>2
    <3> QED
      BY <1>4, <3>3 DEF Skip, Answered, simVars, pyVars
  <2> QED
    BY <1>0, <1>4, <2>1, <2>2 DEF Skip, Exchange, Taken, simVars, pyVars
<1>5. CASE TakeAnswer
  <2>1. /\ words # <<>> /\ words' = Tail(words) /\ Head(words) # Other
        /\ Len(words) \in Nat \ {0} /\ Head(words) = words[1]
        /\ DOMAIN words = 1 .. Len(words) /\ DOMAIN words' = 1 .. Len(words) - 1
        /\ \A i \in 1 .. Len(words) - 1 : words'[i] = words[i + 1]
    BY <1>0, <1>5, Read DEF TakeAnswer
  <2>2. Answered
    BY <1>0, <1>5, <2>1 DEF TakeAnswer, Exchange, Unread, Answering, Abandoned, AllWhatever
  <2>3. Head(words) = requests /\ \A i \in DOMAIN words' : words'[i] = Other
    <3>1. PICK k \in DOMAIN words :
            words[k] = requests /\ \A i \in DOMAIN words : i # k => words[i] = Other
      BY <2>2 DEF Answered
    <3>2. k = 1 /\ Head(words) = words[1]
      BY <2>1, <3>1
    <3> QED
      BY <2>1, <3>1, <3>2
  <2> QED
    BY <1>0, <1>5, <2>2, <2>3
       DEF TakeAnswer, Exchange, Taken, Idle, Answered, AllWhatever, pyVars
<1>6. CASE NoAnswer
  BY <1>0, <1>6
     DEF NoAnswer, Exchange, Taken, Unread, Answering, Answered, Abandoned, AllWhatever, pyVars
<1>7. CASE EndCycle
  BY <1>0, <1>7 DEF EndCycle, Exchange, Taken, Idle, AllWhatever, pyVars
<1>8. CASE TakeWord
  <2>1. Idle
    BY <1>0, <1>8 DEF TakeWord, Exchange
  <2>2. \A i \in DOMAIN words' : words'[i] = Other
    BY <1>0, <1>8, <2>1, Read DEF TakeWord, Idle, AllWhatever
  <2>3. \A i \in DOMAIN lines' : lines'[i] # "Predict"
    BY <1>0, <1>8, <2>1, Written DEF TakeWord, WriteLine, Idle
  <2> QED
    BY <1>0, <1>8, <2>1, <2>2, <2>3
       DEF TakeWord, Exchange, Taken, Idle, AllWhatever, pyVars
<1>9. CASE PrintLast
  <2>1. Idle /\ lines' = Append(lines, "PipelineStates")
    BY <1>0, <1>9 DEF PrintLast, WriteLine, Exchange
  <2>2. \A i \in DOMAIN lines' : lines'[i] # "Predict"
    BY <1>0, <2>1, Written DEF Idle
  <2> QED
    BY <1>0, <1>9, <2>1, <2>2 DEF PrintLast, Exchange, Taken, Idle, AllWhatever, pyVars
<1>10. CASE SendWhatever
  <2>1. /\ DOMAIN words = 1 .. Len(words) /\ Len(words) \in Nat
        /\ \/ words' = words
           \/ /\ DOMAIN words' = 1 .. Len(words) + 1
              /\ words'[Len(words) + 1] = Other
              /\ \A i \in 1 .. Len(words) : words'[i] = words[i]
    <3>1. words' = words \/ words' = Append(words, 0)
      BY <1>10 DEF SendWhatever
    <3>2. /\ DOMAIN words = 1 .. Len(words) /\ Len(words) \in Nat
          /\ DOMAIN Append(words, 0) = 1 .. Len(words) + 1
          /\ Append(words, 0)[Len(words) + 1] = 0
          /\ \A i \in 1 .. Len(words) : Append(words, 0)[i] = words[i]
      BY <1>0, Written
    <3> QED
      BY <3>1, <3>2
  <2>2. AllWhatever => AllWhatever'
    BY <2>1 DEF AllWhatever
  <2>3. Answered => Answered'
    <3> SUFFICES ASSUME Answered PROVE Answered'
      OBVIOUS
    <3>1. PICK k \in DOMAIN words :
            words[k] = requests /\ \A i \in DOMAIN words : i # k => words[i] = Other
      BY DEF Answered
    <3>2. /\ k \in DOMAIN words' /\ words'[k] = requests
          /\ \A i \in DOMAIN words' : i # k => words'[i] = Other
      BY <2>1, <3>1
    <3> QED
      BY <1>10, <3>2 DEF SendWhatever, Answered, simVars
  <2>4. (Idle => Idle') /\ (Unread => Unread') /\ ~Answering /\ ~Abandoned
    BY <1>10, <2>2 DEF SendWhatever, Idle, Unread, Answering, Abandoned, simVars
  <2> QED
    BY <1>0, <1>10, <2>3, <2>4 DEF SendWhatever, Exchange, Taken, simVars
<1>11. CASE ReadLine
  <2>1. /\ lines # <<>> /\ lines' = Tail(lines) /\ py = "read"
        /\ ~Answering /\ ~Answered /\ ~Abandoned
    BY <1>11 DEF ReadLine, Answering, Answered, Abandoned
  <2>5. /\ Len(lines) \in Nat \ {0} /\ Len(lines') = Len(lines) - 1
        /\ Head(lines) = lines[1] /\ lines' \in Seq(Lines)
        /\ DOMAIN lines = 1 .. Len(lines) /\ DOMAIN lines' = 1 .. Len(lines) - 1
        /\ \A i \in 1 .. Len(lines) - 1 : lines'[i] = lines[i + 1]
    BY <1>0, <2>1, Read
  <2>2. Idle => Idle'
    BY <1>11, <2>5 DEF ReadLine, Idle, AllWhatever, simVars
  <2>3. Unread => Unread' \/ Answering'
    <3> SUFFICES ASSUME Unread PROVE Unread' \/ Answering'
      OBVIOUS
    <3>1. CASE Len(lines) = 1
      <4>1. Head(lines) = "Predict" /\ lines' = <<>>
        BY <2>5, <3>1 DEF Unread
      <4> QED
        BY <1>0, <1>11, <4>1 DEF ReadLine, Unread, Answering, AllWhatever, simVars
    <3>2. CASE Len(lines) # 1
      <4>1. /\ Head(lines) # "Predict" /\ lines' # <<>>
            /\ \A i \in DOMAIN lines' : lines'[i] = "Predict" <=> i = Len(lines')
        BY <2>5, <3>2 DEF Unread
      <4> QED
        BY <1>0, <1>11, <4>1 DEF ReadLine, Unread, AllWhatever, simVars
    <3> QED
      BY <3>1, <3>2
  <2> QED
    BY <1>0, <1>11, <2>1, <2>2, <2>3 DEF ReadLine, Exchange, Taken, simVars
<1>12. CASE ReadNothing
  BY <1>0, <1>12 DEF ReadNothing, Exchange, Taken, Idle, AllWhatever, simVars
<1>13. CASE SendAnswer
  BY <1>0, <1>13
     DEF SendAnswer, Exchange, Taken, Idle, Unread, Answering, Answered, Abandoned,
         AllWhatever, simVars
<1>14. CASE SendRest
  <2>1. Answering /\ sim = "answer" /\ partial = <<requests>>
    BY <1>0, <1>14 DEF SendRest, Exchange, Idle, Unread, Answering, Answered, Abandoned
  <2>2. words' = words \o Append(<<requests>>, Other)
    BY <1>14, <2>1 DEF SendRest
  <2>3. /\ Len(words) + 1 \in DOMAIN words' /\ words'[Len(words) + 1] = requests
        /\ \A i \in DOMAIN words' : i # Len(words) + 1 => words'[i] = Other
    BY <1>0, <2>1, <2>2, WrittenTwo DEF Answering, AllWhatever
  <2> QED
    BY <1>0, <1>14, <2>1, <2>3
       DEF SendRest, Exchange, Taken, Answering, Answered, simVars
<1>15. CASE Close
  BY <1>0, <1>15
     DEF Close, Exchange, Taken, Idle, Unread, Answering, Answered, Abandoned,
         AllWhatever, simVars
<1>16. CASE Terminate
  BY <1>0, <1>16
     DEF Terminate, Exchange, Taken, Idle, Unread, Answering, Answered, Abandoned, AllWhatever
<1>17. CASE UNCHANGED vars
  BY <1>0, <1>17
     DEF vars, Exchange, Taken, Idle, Unread, Answering, Answered, Abandoned, AllWhatever,
         simVars, pyVars
<1>18. CASE Exit
  BY <1>0, <1>18 DEF Exit, Exchange, Taken, Idle, AllWhatever, pyVars
<1> QED
  BY <1>1, <1>2, <1>3, <1>4, <1>5, <1>6, <1>7, <1>8, <1>9, <1>10, <1>11, <1>12, <1>13,
     <1>14, <1>15, <1>16, <1>17, <1>18 DEF Next, Simulator, Wrapper, Finished

(* The invariant holds from the start of both processes. *)
LEMMA Inductive == Spec => []IInv
<1>1. Init => IInv
  <2> SUFFICES ASSUME Init PROVE IInv
    OBVIOUS
  <2>1. /\ words \in Seq(Nat) /\ partial \in Seq(Nat)
        /\ lines \in Seq({"PipelineStates", "Learn", "Predict"})
        /\ DOMAIN words = {} /\ DOMAIN lines = {}
    BY Empty DEF Init, Nothing
  <2>2. TypeOK
    <3>1. /\ sim \in SimStates /\ py \in PyStates
          /\ decoded \in BOOLEAN /\ closed \in BOOLEAN
      BY DEF Init, SimStates, PyStates
    <3>2. /\ cycles \in 0 .. MaxCycles
          /\ prediction \in Nat /\ requests \in Nat /\ asked \in Nat
      BY CycleAssumption DEF Init
    <3> QED
      BY <2>1, <3>1, <3>2 DEF TypeOK
  <2>3. Exchange /\ Taken
    BY <2>1 DEF Init, Exchange, Taken, Idle, AllWhatever, Busy, Gone, Nothing
  <2> QED
    BY <2>2, <2>3 DEF IInv
<1>2. IInv /\ [Next]_vars => IInv'
  BY TypeStep, ExchangeStep DEF IInv
<1> QED
  BY <1>1, <1>2, PTL DEF Spec

-----------------------------------------------------------------------------
(* How far the wrapper's words are ahead of the cycles. *)

(* A word is written for a line that will be read, except when the line is *)
(* there already.  Lead counts the words and the lines on their way, but   *)
(* for the word whose line is being waited for: writing a word, reading a  *)
(* line and taking a word for the line of a cycle leave it as it is.  A    *)
(* lesson, a request and the last line put it up by one, the blanks around *)
(* an answer by two; taking the answer sets it to one.                     *)
Waiting == IF py = "read" THEN 1 ELSE 0
Lead    == Len(words) + Len(lines) - Waiting

Surplus ==
  /\ BacklogBounded
  /\ ~closed /\ ~Gone =>
       /\ sim \in {"exec", "end", "word"} /\ decoded => Lead <= 1
       /\ sim \in {"exec", "decode", "end", "word", "last"} => Lead <= 2
       /\ sim = "ending" => Lead <= 3
       /\ sim = "answer" /\ AllWhatever => Lead <= 3
       /\ sim = "answer" => Lead <= 5
       /\ sim = "answer" => \A k \in DOMAIN words :
                              words[k] # Other => Len(words) - k = 1 + Waiting

(* A step keeps the lead within its bounds: what puts it up is followed by *)
(* an answer, or by the end, before it can happen again.                   *)
LEMMA SurplusStep == IInv /\ Surplus /\ [Next]_vars => Surplus'
<1> DEFINE Lines == {"PipelineStates", "Learn", "Predict"}
<1> SUFFICES ASSUME IInv, Surplus, [Next]_vars PROVE Surplus'
  OBVIOUS
<1>0. /\ words \in Seq(Nat) /\ lines \in Seq(Lines)
      /\ Len(words) \in Nat /\ Len(lines) \in Nat
      /\ DOMAIN words = 1 .. Len(words)
      /\ decoded \in BOOLEAN /\ closed \in BOOLEAN
      /\ Len(words) <= 6
  BY DEF IInv, TypeOK, Surplus, BacklogBounded, BacklogLimit
<1>100. \A kind \in Lines : Len(Append(lines, kind)) = Len(lines) + 1
  <2> HIDE DEF Lines
  <2> QED
    BY <1>0, Written
<1>101. words # <<>> =>
          /\ Len(words) # 0 /\ Head(words) = words[1]
          /\ Len(Tail(words)) = Len(words) - 1
          /\ DOMAIN Tail(words) = 1 .. Len(words) - 1
          /\ \A i \in 1 .. Len(words) - 1 : Tail(words)[i] = words[i + 1]
  BY <1>0, Read
<1> USE DEF Gone, Waiting, Lead, BacklogBounded, BacklogLimit, Other
<1>1. CASE execStage
  <2>1. UNCHANGED <<words, py, closed, decoded>> /\ sim = "exec" /\ sim' = "decode"
    BY <1>1 DEF execStage, pyVars
  <2>2. lines' = lines \/ (decoded /\ Len(lines') = Len(lines) + 1)
    BY <1>1, <1>100 DEF execStage, WriteLine
  <2> QED
    BY <1>0, <2>1, <2>2 DEF Surplus
<1>2. CASE Predict
  <2>1. UNCHANGED <<words, py, closed>> /\ sim = "decode" /\ sim' = "answer"
    BY <1>2 DEF Predict, pyVars
  <2>2. Len(lines') = Len(lines) + 1
    BY <1>2, <1>100 DEF Predict, WriteLine
  <2>3. AllWhatever
    BY <2>1 DEF IInv, Exchange, Idle
  <2> QED
    BY <1>0, <2>1, <2>2, <2>3 DEF Surplus, AllWhatever
<1>3. CASE NoBranch
  BY <1>0, <1>3 DEF NoBranch, Surplus, pyVars
<1>4. CASE Skip
  <2>1. /\ words # <<>> /\ words' = Tail(words) /\ words[1] = Other
        /\ UNCHANGED <<sim, py, closed, lines, decoded>> /\ sim = "answer"
    BY <1>4, <1>101 DEF Skip, simVars, pyVars
  <2>2. AllWhatever' => AllWhatever
    <3>1. \A i \in DOMAIN words : i # 1 => i - 1 \in DOMAIN words' /\ words[i] = words'[i - 1]
      BY <1>0, <1>101, <2>1
    <3> QED
      BY <2>1, <3>1 DEF AllWhatever
  <2>3. /\ ~closed => \A k \in DOMAIN words' :
                        words'[k] # Other => Len(words') - k = 1 + Waiting'
    <3> SUFFICES ASSUME ~closed, NEW k \in DOMAIN words', words'[k] # Other
                 PROVE  Len(words') - k = 1 + Waiting
      BY <2>1
    <3>1. k + 1 \in DOMAIN words /\ words[k + 1] = words'[k] /\ k \in Nat
      BY <1>0, <1>101, <2>1
    <3>2. Len(words) - (k + 1) = 1 + Waiting
      BY <2>1, <3>1 DEF Surplus
    <3> QED
      BY <1>0, <1>101, <2>1, <3>1, <3>2
  <2> QED
    BY <1>0, <1>101, <2>1, <2>2, <2>3 DEF Surplus
<1>5. CASE TakeAnswer
  <2>1. /\ words # <<>> /\ words' = Tail(words) /\ words[1] # Other
        /\ UNCHANGED <<py, closed, lines, decoded>> /\ sim = "answer" /\ sim' = "end"
    BY <1>5, <1>101 DEF TakeAnswer, pyVars
  <2>2. lines = <<>>
    BY <1>0, <1>101, <2>1
       DEF IInv, Exchange, Unread, Answering, Answered, Abandoned, AllWhatever
  <2>3. ~closed => Len(words) - 1 = 1 + Waiting
    <3>1. 1 \in DOMAIN words
      BY <1>0, <1>101, <2>1
    <3> HIDE DEF Waiting
    <3>2. ~closed => \A k \in DOMAIN words : words[k] # Other => Len(words) - k = 1 + Waiting
      BY <2>1 DEF Surplus
    <3> QED
      BY <2>1, <3>1, <3>2
  <2>4. Len(lines) = 0
    BY <2>2
  <2> QED
    BY <1>0, <1>101, <2>1, <2>3, <2>4 DEF Surplus
<1>6. CASE NoAnswer
  BY <1>0, <1>6 DEF NoAnswer, Surplus, pyVars
<1>7. CASE EndCycle
  BY <1>0, <1>7 DEF EndCycle, Surplus, pyVars
<1>8. CASE TakeWord
  <2>1. /\ UNCHANGED <<py, closed, decoded>> /\ sim = "word"
        /\ closed \/ (words # <<>> /\ words' = Tail(words))
        /\ words' = words \/ (words # <<>> /\ words' = Tail(words))
    BY <1>8 DEF TakeWord, pyVars
  <2>2. \/ sim' = "exec" /\ Len(lines') = Len(lines) + 1
        \/ sim' = "last" /\ lines' = lines
    BY <1>8, <1>100 DEF TakeWord, WriteLine
  <2> QED
    BY <1>0, <1>101, <2>1, <2>2 DEF Surplus
<1>9. CASE PrintLast
  <2>1. UNCHANGED <<words, py, closed>> /\ sim = "last" /\ sim' = "ending"
    BY <1>9 DEF PrintLast, pyVars
  <2>2. Len(lines') = Len(lines) + 1
    BY <1>9, <1>100 DEF PrintLast, WriteLine
  <2> QED
    BY <1>0, <2>1, <2>2 DEF Surplus
<1>10. CASE SendWhatever
  <2>1. CASE Gone
    BY <1>0, <1>10, <2>1 DEF SendWhatever, Surplus, simVars
  <2>2. CASE ~Gone
    <3>1. /\ UNCHANGED <<sim, decoded, closed, lines>> /\ py = "send" /\ py' = "read"
          /\ words' = Append(words, 0)
      BY <1>10, <2>2 DEF SendWhatever, simVars
    <3>2. /\ Len(words') = Len(words) + 1 /\ DOMAIN words' = 1 .. Len(words) + 1
          /\ words'[Len(words) + 1] = Other
          /\ \A i \in 1 .. Len(words) : words'[i] = words[i]
      BY <1>0, <3>1, Written
    <3>3. ~closed /\ (AllWhatever' => AllWhatever)
      BY <1>0, <3>1, <3>2 DEF IInv, Exchange, AllWhatever
    <3>4. Lead' = Lead /\ Lead <= 5
      BY <1>0, <2>2, <3>1, <3>2, <3>3 DEF Surplus, IInv, TypeOK, SimStates
    <3>5. sim = "answer" => \A k \in DOMAIN words' :
            words'[k] # Other => Len(words') - k = 1 + Waiting'
      BY <1>0, <2>2, <3>1, <3>2, <3>3 DEF Surplus
    <3> QED
      BY <1>0, <2>2, <3>1, <3>2, <3>3, <3>4, <3>5 DEF Surplus
  <2> QED
    BY <2>1, <2>2
<1>11. CASE ReadLine
  <2>1. /\ UNCHANGED <<sim, decoded, closed, words>>
        /\ lines # <<>> /\ py = "read" /\ py' \in {"answer", "send"}
    BY <1>11 DEF ReadLine, simVars
  <2>2. Len(lines) # 0 /\ Len(lines') = Len(lines) - 1
    BY <1>0, <1>11, <2>1, Read DEF ReadLine
  <2>3. sim = "answer" => AllWhatever
    BY <2>1 DEF IInv, Exchange, Answered, Answering, Unread, Abandoned
  <2> QED
    BY <1>0, <2>1, <2>2, <2>3 DEF Surplus, AllWhatever
<1>12. CASE ReadNothing
  BY <1>0, <1>12 DEF ReadNothing, Surplus, simVars
<1>13. CASE SendAnswer
  BY <1>0, <1>13 DEF SendAnswer, Surplus, simVars, AllWhatever
<1>14. CASE SendRest
  <2>1. /\ sim = "answer" /\ partial = <<requests>> /\ AllWhatever /\ lines = <<>>
        /\ requests \in Nat /\ ~closed /\ requests # 0
    BY <1>14 DEF IInv, TypeOK, Exchange, SendRest, Idle, Unread, Answering, Answered,
                 Abandoned, Busy, Answer, Nothing
  <2>2. /\ UNCHANGED <<sim, decoded, closed, lines>> /\ py = "finish" /\ py' = "send"
        /\ words' = words \o Append(<<requests>>, Other)
    BY <1>14, <2>1 DEF SendRest, simVars
  <2>3. /\ words' \in Seq(Nat) /\ DOMAIN words' = 1 .. Len(words) + 2
        /\ \A i \in 1 .. Len(words) : words'[i] = words[i]
        /\ words'[Len(words) + 1] = requests /\ words'[Len(words) + 2] = Other
    BY <1>0, <2>1, <2>2, WrittenTwo
  <2>4. Len(words') = Len(words) + 2
    BY <1>0, <2>3
  <2>5. \A k \in DOMAIN words' : words'[k] # Other => k = Len(words) + 1
    <3>1. \A k \in 1 .. Len(words) : words[k] = Other
      BY <1>0, <2>1 DEF AllWhatever
    <3>2. \A k \in 1 .. Len(words) + 2 :
            k \in 1 .. Len(words) \/ k = Len(words) + 1 \/ k = Len(words) + 2
      BY <1>0
    <3> QED
      BY <2>3, <3>1, <3>2
  <2>6. ~AllWhatever'
    <3>1. Len(words) + 1 \in DOMAIN words' /\ words'[Len(words) + 1] # Other
      BY <1>0, <2>1, <2>3
    <3> QED
      BY <3>1 DEF AllWhatever
  <2> QED
    BY <1>0, <2>1, <2>2, <2>4, <2>5, <2>6 DEF Surplus
<1>15. CASE Close
  BY <1>0, <1>15 DEF Close, Surplus
<1>16. CASE Terminate
  BY <1>0, <1>16 DEF Terminate, Surplus, AllWhatever
<1>17. CASE UNCHANGED vars
  BY <1>0, <1>17 DEF vars, Surplus, simVars, pyVars, AllWhatever
<1>18. CASE Exit
  BY <1>0, <1>18 DEF Exit, Surplus, pyVars
<1> QED
  BY <1>1, <1>2, <1>3, <1>4, <1>5, <1>6, <1>7, <1>8, <1>9, <1>10, <1>11, <1>12, <1>13,
     <1>14, <1>15, <1>16, <1>17, <1>18 DEF Next, Simulator, Wrapper, Finished

-----------------------------------------------------------------------------
(* Both ends keep to their states, and the pipes to their kinds of words   *)
(* and lines (BranchPredictor.h and rip_simulator.py), for every number *)
(* of cycles.                                                              *)
THEOREM ProtocolTypeCorrect == Spec => []TypeOK
<1>1. IInv => TypeOK
  BY DEF IInv
<1> QED
  BY <1>1, Inductive, PTL

(* An answer is taken for the request it was given to, and never for the   *)
(* word of a cycle (Predict, BranchPredictor.h:315-323; runInteractively,  *)
(* RIPSimulator.cpp:737), for every number of cycles.                      *)
THEOREM NoAnswerMixedUp == Spec => []AnswerMatchesRequest
<1>1. IInv => AnswerMatchesRequest
  <2> SUFFICES ASSUME IInv, NEW i \in DOMAIN words, words[i] # Other
               PROVE  words[i] = requests /\ (sim = "answer" \/ Gone)
    BY DEF AnswerMatchesRequest, IInv, Taken
  <2> QED
    BY DEF IInv, Exchange, Idle, Unread, Answering, Answered, Abandoned, AllWhatever
<1> QED
  BY <1>1, Inductive, PTL

(* The wrapper's user predicts with every line of the simulator read, the  *)
(* lesson of the branch before included (proceed and predict,              *)
(* rip_simulator.py:48-65), for every number of cycles.                    *)
THEOREM PredictionsUpToDate == Spec => []PredictsUpToDate
<1>1. IInv => PredictsUpToDate
  BY DEF IInv, Exchange, Idle, Unread, Answering, Answered, Abandoned, Busy, Gone,
         PredictsUpToDate
<1> QED
  BY <1>1, Inductive, PTL

(* The words that lessons leave over do not pile up: a request skips them, *)
(* and the pipe from the wrapper never holds more than six, however long   *)
(* the program runs (InteractiveBranchPredictor, BranchPredictor.h:315-327;*)
(* proceed, rip_simulator.py:48-65).                                       *)
THEOREM BacklogStaysBounded == Spec => []BacklogBounded
<1>1. Init => Surplus
  <2>1. Init => Len(words) = 0 /\ Len(lines) = 0 /\ sim = "exec" /\ py = "send"
    BY DEF Init
  <2> QED
    BY <2>1 DEF Surplus, BacklogBounded, BacklogLimit, Lead, Waiting
<1>2. IInv /\ Surplus /\ [Next]_vars => Surplus'
  BY SurplusStep
<1>3. Surplus => BacklogBounded
  BY DEF Surplus
<1> QED
  BY <1>1, <1>2, <1>3, Inductive, PTL DEF Spec
=============================================================================
