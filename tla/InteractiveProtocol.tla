------------------------- MODULE InteractiveProtocol -------------------------
(***************************************************************************)
(* rip-sim in interactive mode and the Python process that drives it: the  *)
(* main loop runInteractively and InteractiveBranchPredictor on one side,  *)
(* class RIPSimulator of rip_simulator.py and the proceed loop of its      *)
(* users on the other, with a pipe in each direction.                      *)
(*                                                                         *)
(* The simulator writes a line for each cycle, each lesson and each        *)
(* request for a prediction.  The wrapper writes a word for each line it   *)
(* wants to read; the simulator takes a word for each cycle and waits for  *)
(* a particular one when it has asked for a prediction.                    *)
(***************************************************************************)
EXTENDS Integers, Sequences

CONSTANT MaxCycles   \* Cycles the simulated program may take.

ASSUME CycleAssumption == MaxCycles \in Nat

VARIABLES
  sim,        \* Where the simulator is.
  cycles,     \* Cycles begun.
  decoded,    \* A branch has been decoded and may reach exec in this cycle.
  prediction, \* Answer the simulator took last: number of the request it belongs to.
  requests,   \* Requests for a prediction so far.
  py,         \* Where the wrapper is.
  asked,      \* Number of the request the wrapper is answering.
  words,      \* Words on their way to the simulator.
  partial,    \* A word the pipe does not yet show the end of.
  closed,     \* The wrapper has closed the simulator's input.
  lines       \* Lines on their way to the wrapper.

simVars == <<sim, cycles, decoded, prediction, requests>>
pyVars  == <<py, asked, closed>>
vars    == <<simVars, pyVars, words, partial, lines>>

SimStates == {"exec", "decode", "answer", "end", "word", "last", "ending",
              "exited", "aborted"}
PyStates  == {"send", "read", "answer", "finish", "done", "broken", "closing", "closed"}

\* Words are "whatever", "FIXME!!" and answers, numbered by their request.
Other     == 0
Answer(n) == n

Nothing == <<>>         \* no partial word

Init ==
  /\ sim = "exec" /\ cycles = 0 /\ decoded = FALSE
  /\ prediction = 0 /\ requests = 0
  /\ py = "send" /\ asked = 0
  /\ words = <<>> /\ partial = Nothing /\ closed = FALSE
  /\ lines = <<>>

Gone == sim \in {"exited", "aborted"}

-----------------------------------------------------------------------------
(* The simulator. *)

\* Mutant: lessons have no name.
WriteUnknown(kind) ==
  lines' = Append(lines, IF kind = "Learn" THEN "Unknown" ELSE kind)

WriteLine(kind) == lines' = Append(lines, kind)

\* The stages up to exec; a branch that was decoded and not flushed is taught.
execStage ==
  /\ sim = "exec" /\ cycles < MaxCycles
  /\ \/ decoded /\ WriteLine("Learn")
     \/ UNCHANGED lines
  /\ cycles' = cycles + 1
  /\ sim' = "decode"
  /\ UNCHANGED <<decoded, prediction, requests, pyVars, words, partial>>

\* Decode, with or without a branch to predict.
Predict ==
  /\ sim = "decode"
  /\ WriteLine("Predict")
  /\ requests' = requests + 1
  /\ decoded' = TRUE
  /\ sim' = "answer"
  /\ UNCHANGED <<cycles, prediction, pyVars, words, partial>>

NoBranch ==
  /\ sim = "decode"
  /\ decoded' = FALSE
  /\ sim' = "end"
  /\ UNCHANGED <<cycles, prediction, requests, pyVars, words, partial, lines>>

\* Mutant: the word is looked at and not taken.
SkipPeeking ==
  /\ sim = "answer" /\ words # <<>> /\ Head(words) = Other
  /\ UNCHANGED vars

\* while (is >> ResStr && no "PredRes" in it) {}
Skip ==
  /\ sim = "answer" /\ words # <<>> /\ Head(words) = Other
  /\ words' = Tail(words)
  /\ UNCHANGED <<simVars, pyVars, partial, lines>>

\* Mutant: the first word is taken for the answer.
TakeAnyAnswer ==
  /\ sim = "answer" /\ words # <<>>
  /\ prediction' = Head(words)
  /\ words' = Tail(words)
  /\ sim' = "end"
  /\ UNCHANGED <<cycles, decoded, requests, pyVars, partial, lines>>

\* Mutant: words in front of the answer stay.
TakeAnswerOnly ==
  /\ sim = "answer"
  /\ \E i \in DOMAIN words :
       /\ words[i] # Other
       /\ prediction' = words[i]
       /\ words' = SubSeq(words, 1, i - 1) \o SubSeq(words, i + 1, Len(words))
  /\ sim' = "end"
  /\ UNCHANGED <<cycles, decoded, requests, pyVars, partial, lines>>

TakeAnswer ==
  /\ sim = "answer" /\ words # <<>> /\ Head(words) # Other
  /\ prediction' = Head(words)
  /\ words' = Tail(words)
  /\ sim' = "end"
  /\ UNCHANGED <<cycles, decoded, requests, pyVars, partial, lines>>

\* The input ends; what was read last, or nothing, does not parse.
NoAnswer ==
  /\ sim = "answer" /\ words = <<>> /\ closed
  /\ sim' = "aborted"
  /\ UNCHANGED <<cycles, decoded, prediction, requests, pyVars, words, partial, lines>>

\* The end of proceedNStage: an empty pipeline or a break ends the loop.
EndCycle ==
  /\ sim = "end"
  /\ sim' \in (IF cycles = MaxCycles THEN {"last"} ELSE {"word", "last"})
  /\ UNCHANGED <<cycles, decoded, prediction, requests, pyVars, words, partial, lines>>

\* std::cin >> buf, then EndAddress or the next cycle.
TakeWord ==
  /\ sim = "word"
  /\ IF words # <<>> THEN words' = Tail(words) ELSE closed /\ UNCHANGED words
  /\ \/ sim' = "exec" /\ WriteLine("PipelineStates")
     \/ sim' = "last" /\ UNCHANGED lines
  /\ UNCHANGED <<cycles, decoded, prediction, requests, pyVars, partial>>

PrintLast ==
  /\ sim = "last"
  /\ WriteLine("PipelineStates")
  /\ sim' = "ending"
  /\ UNCHANGED <<cycles, decoded, prediction, requests, pyVars, words, partial>>

\* The process goes some time after its last line.
Exit ==
  /\ sim = "ending"
  /\ sim' = "exited"
  /\ UNCHANGED <<cycles, decoded, prediction, requests, pyVars, words, partial, lines>>

Simulator == execStage \/ Predict \/ NoBranch \/ Skip \/ TakeAnswer \/ NoAnswer
               \/ EndCycle \/ TakeWord \/ PrintLast \/ Exit

-----------------------------------------------------------------------------
(* The wrapper. *)

\* proceed: a word, and a line.  Writing to a process that is gone fails.
SendWhatever ==
  /\ py = "send"
  /\ IF Gone THEN py' = "broken" /\ UNCHANGED words
             ELSE py' = "read" /\ words' = Append(words, Other)
  /\ UNCHANGED <<simVars, asked, closed, partial, lines>>

\* Mutant: a lesson is answered, too.
ReadLineAnswering ==
  /\ py = "read" /\ lines # <<>>
  /\ lines' = Tail(lines)
  /\ IF Head(lines) = "PipelineStates" THEN py' = "send" /\ UNCHANGED asked
                                       ELSE py' = "answer" /\ asked' = asked + 1
  /\ UNCHANGED <<simVars, closed, words, partial>>

ReadLine ==
  /\ py = "read" /\ lines # <<>>
  /\ lines' = Tail(lines)
  /\ IF Head(lines) = "Predict" THEN py' = "answer" /\ asked' = asked + 1
                                ELSE py' = "send" /\ UNCHANGED asked
  /\ UNCHANGED <<simVars, closed, words, partial>>

\* readline returns nothing at the end of the simulator's output.
ReadNothing ==
  /\ py = "read" /\ lines = <<>> /\ Gone
  /\ py' = "done"
  /\ UNCHANGED <<simVars, asked, closed, words, partial, lines>>

\* predict: {"PredRes":..} has no blank behind it, " FIXME!! " has one on
\* either side, and a word ends at a blank.
SendAnswer ==
  /\ py = "answer"
  /\ partial' = <<Answer(asked)>>
  /\ py' = "finish"
  /\ UNCHANGED <<simVars, asked, closed, words, lines>>

SendRest ==
  /\ py = "finish"
  /\ words' = words \o Append(partial, Other)
  /\ partial' = Nothing
  /\ py' = "send"
  /\ UNCHANGED <<simVars, asked, closed, lines>>

\* close, between two calls of the user, instead of a prediction as well: the
\* input ends, then the process.
Close ==
  /\ py \in {"send", "answer", "done", "broken"} /\ ~closed
  /\ closed' = TRUE
  /\ py' = "closing"
  /\ UNCHANGED <<simVars, asked, words, partial, lines>>

Terminate ==
  /\ py = "closing"
  /\ sim' = IF Gone THEN sim ELSE "exited"
  /\ py' = "closed"
  /\ UNCHANGED <<cycles, decoded, prediction, requests, asked, closed, words,
                 partial, lines>>

Wrapper == SendWhatever \/ ReadLine \/ ReadNothing \/ SendAnswer \/ SendRest
             \/ Close \/ Terminate

Finished == py = "closed" /\ UNCHANGED vars

Next == Simulator \/ Wrapper \/ Finished

Spec == Init /\ [][Next]_vars

\* Two processes that the system schedules; the wrapper calls close in the end.
FairSpec == Spec /\ WF_vars(Simulator) /\ WF_vars(Wrapper)

-----------------------------------------------------------------------------
TypeOK ==
  /\ sim \in SimStates /\ py \in PyStates
  /\ cycles \in 0 .. MaxCycles
  /\ decoded \in BOOLEAN /\ closed \in BOOLEAN
  /\ prediction \in Nat /\ requests \in Nat /\ asked \in Nat
  /\ words \in Seq(Nat) /\ partial \in Seq(Nat)
  /\ lines \in Seq({"PipelineStates", "Learn", "Predict"})

(* A prediction is the answer to the request it is taken for: none is left *)
(* over from an earlier one or swallowed as the word of a cycle, although  *)
(* both kinds of word come through one pipe (Predict, lines 315-323 of     *)
(* BranchPredictor.h, and runInteractively, line 738).                     *)
AnswerMatchesRequest ==
  /\ sim = "end" /\ decoded => prediction = requests
  /\ \A i \in DOMAIN words : words[i] # Other =>
       words[i] = requests /\ (sim = "answer" \/ Gone)

(* The wrapper predicts with everything the simulator has printed read,    *)
(* the lesson of the branch before included.                               *)
PredictsUpToDate == py \in {"answer", "finish"} => lines = <<>> /\ asked = requests

(* Lessons are lines without a word of their own: the wrapper sends more   *)
(* words than there are cycles.  The words wait for the next request to    *)
(* skip them, and there are never more than BacklogLimit however long the  *)
(* program: the pipe does not fill up, with the wrapper stuck in a write.  *)
BacklogLimit == 6
BacklogBounded == Len(words) <= BacklogLimit

(* Neither process waits for ever: a simulator that asks is answered or    *)
(* stopped, and the wrapper's user sees the end of the simulation.         *)
RequestsEnd == sim = "answer" ~> sim # "answer"
UserEnds    == <>(py \in {"done", "broken", "closing"})
=============================================================================
