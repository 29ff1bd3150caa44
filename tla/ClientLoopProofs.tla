-------------------------- MODULE ClientLoopProofs --------------------------
(***************************************************************************)
(* Safety of the client's two threads, for a pipe of any size, a terminal  *)
(* of any sizes and any number of keys.                                    *)
(***************************************************************************)
EXTENDS ClientLoop, SequenceTheorems, TLAPS

LEMMA Distinct == "WINCH" # "INT" /\ None \notin Signals
BY DEF Signals, None

(* What the pipe's operations do to the signals in it. *)
LEMMA PipeAppend ==
  ASSUME NEW p \in Seq(Signals), NEW s \in Signals
  PROVE  /\ Append(p, s) \in Seq(Signals)
         /\ \E i \in 1..Len(Append(p, s)) : Append(p, s)[i] = s
         /\ \A i \in 1..Len(p) : i \in 1..Len(Append(p, s)) /\ Append(p, s)[i] = p[i]
OBVIOUS

LEMMA PipeTail ==
  ASSUME NEW p \in Seq(Signals), p # << >>
  PROVE  /\ Tail(p) \in Seq(Signals) /\ Head(p) \in Signals
         /\ \A i \in 1..Len(p) :
              p[i] # Head(p) => i - 1 \in 1..Len(Tail(p)) /\ Tail(p)[i - 1] = p[i]
OBVIOUS

(* A signal on its way stays on its way until it is read, in every step. *)
LEMMA StaysQueued ==
  ASSUME TypeOK, [Next]_vars, NEW s \in Signals, Queued(s)
  PROVE  Queued(s)' \/ (HandleSignal /\ Head(sig_pipe) = s)
<1> USE DEF Queued
<1>1. CASE UNCHANGED <<thread, sig_pipe>>
  BY <1>1 DEF thread
<1>2. CASE Resize \/ Interrupt
  BY <1>2 DEF Resize, Interrupt
<1>3. ASSUME NEW t \in Signals, SigWait(t) PROVE Queued(s)'
  BY <1>3, Distinct DEF SigWait
<1>4. CASE SigWrite
  <2>1. hand \in Signals /\ sig_pipe' = Append(sig_pipe, hand) /\ pending' = pending
    BY <1>4 DEF SigWrite, TypeOK
  <2> QED
    BY <2>1, PipeAppend DEF TypeOK
<1>5. CASE HandleSignal
  <2>1. /\ sig_pipe # << >> /\ sig_pipe' = Tail(sig_pipe)
        /\ pending' = pending /\ hand' = hand
    BY <1>5 DEF HandleSignal, thread
  <2> QED
    BY <1>5, <2>1, PipeTail DEF TypeOK
<1> QED
  BY <1>1, <1>2, <1>3, <1>4, <1>5
     DEF Next, Outside, MainStep, Type, ServerStarts, ServerFinishes, ServerReads, ServerGoes,
         Select, SelectFails, SignalsHandled, HandleServer, HandleInput, SendCommand, Render,
         Measured, Quit, Leave, vars

-----------------------------------------------------------------------------
LEMMA TypeInit == Init => TypeOK
<1> SUFFICES ASSUME Init PROVE TypeOK
  OBVIOUS
<1>1. sig_pipe \in Seq(Signals) /\ pending \subseteq Signals /\ hand \in Signals \cup {None}
  BY DEF Init
<1>2. keys \in Nat /\ fds \subseteq {"sig", "server", "stdin"}
  BY DEF Init
<1>3. 0 \in 0..UpCap
  BY UpCapAssumption
<1> QED
  BY <1>1, <1>2, <1>3 DEF Init, TypeOK

LEMMA TypeStep == TypeOK /\ [Next]_vars => TypeOK'
<1> SUFFICES ASSUME TypeOK, [Next]_vars PROVE TypeOK'
  OBVIOUS
<1> USE DEF TypeOK, thread, net, input, main
<1>1. CASE Resize \/ Interrupt
  <2>1. pending' \subseteq Signals /\ term' \in Sizes /\ asked' \in BOOLEAN
    <3>1. CASE Resize
      BY <3>1, Zenon DEF Resize, Signals
    <3>2. CASE Interrupt
      BY <3>2, Zenon DEF Interrupt, Signals
    <3> QED
      BY <1>1, <3>1, <3>2, Zenon
  <2>2. UNCHANGED <<hand, sig_pipe, server, stream, up, keys, eof, fds, running, screen_resized,
                    screen, pc>>
    BY <1>1, Zenon DEF Resize, Interrupt
  <2> QED
    BY <2>1, <2>2, Zenon
<1>a. CASE Type
  <2>1. keys + 1 \in Nat
    OBVIOUS
  <2>2. keys' \in Nat
    BY <1>a, <2>1, Zenon DEF Type
  <2>3. eof' \in BOOLEAN
    BY <1>a, Zenon DEF Type
  <2> QED
    BY <1>a, <2>2, <2>3, Zenon DEF Type
<1>b. CASE ServerStarts \/ ServerFinishes \/ ServerGoes
  <2>1. server' \in {server, "gone"} /\ stream' \in {stream, "half", "whole"}
    BY <1>b DEF ServerStarts, ServerFinishes, ServerGoes
  <2>2. UNCHANGED <<term, pending, hand, sig_pipe, up, keys, eof, fds, running, screen_resized,
                    screen, pc, asked>>
    BY <1>b DEF ServerStarts, ServerFinishes, ServerGoes
  <2> QED
    BY <2>1, <2>2
<1>c. CASE ServerReads
  <2>1. up > 0 => up - 1 \in 0..UpCap
    BY UpCapAssumption
  <2> QED
    BY <1>c, <2>1, Zenon DEF ServerReads
<1>d. CASE SendCommand \/ Leave
  <2>1. up < UpCap => up + 1 \in 0..UpCap
    BY UpCapAssumption
  <2>2. up' \in 0..UpCap
    BY <1>d, <2>1, Zenon DEF SendCommand, Leave
  <2>3. running' \in BOOLEAN
    BY <1>d, Zenon DEF SendCommand, Leave
  <2>4. pc' \in {"render", "done", "killed"}
    BY <1>d, Zenon DEF SendCommand, Leave
  <2>5. UNCHANGED <<term, pending, hand, sig_pipe, server, stream, keys, eof, fds, screen_resized,
                    screen, asked>>
    BY <1>d, Zenon DEF SendCommand, Leave
  <2> QED
    BY <2>2, <2>3, <2>4, <2>5
<1>2. ASSUME NEW s \in Signals, SigWait(s) PROVE TypeOK'
  BY <1>2 DEF SigWait
<1>3. CASE SigWrite
  <2>1. hand \in Signals
    BY <1>3 DEF SigWrite
  <2> QED
    BY <1>3, <2>1, PipeAppend DEF SigWrite
<1>4. CASE HandleSignal
  BY <1>4, PipeTail DEF HandleSignal
<1>5. CASE Select \/ SelectFails \/ SignalsHandled \/ HandleServer
  <2>1. fds' \subseteq {"sig", "server", "stdin"}
    BY <1>5, Zenon DEF Select, SelectFails, Ready, SignalsHandled, HandleServer
  <2>2. running' \in BOOLEAN /\ stream' \in {"empty", "half", "whole"}
    BY <1>5, Zenon DEF Select, SelectFails, SignalsHandled, HandleServer
  <2>3. pc' \in {"sig", "leaving", "server", "input"}
    BY <1>5, Zenon DEF Select, SelectFails, SignalsHandled, HandleServer
  <2>4. UNCHANGED <<term, pending, hand, sig_pipe, server, up, keys, eof, screen_resized, screen,
                    asked>>
    BY <1>5, Zenon DEF Select, SelectFails, SignalsHandled, HandleServer
  <2> QED
    BY <2>1, <2>2, <2>3, <2>4
<1>6. CASE HandleInput
  <2>1. (IF keys > 0 THEN keys - 1 ELSE 0) \in Nat
    OBVIOUS
  <2>2. keys' \in Nat
    BY <1>6, <2>1, Zenon DEF HandleInput
  <2>3. running' \in BOOLEAN
    BY <1>6, Zenon DEF HandleInput
  <2>4. pc' \in {"render", "sending"} /\ fds' = {}
    BY <1>6, Zenon DEF HandleInput
  <2>5. UNCHANGED <<term, pending, hand, sig_pipe, server, stream, up, eof, screen_resized,
                    screen, asked>>
    BY <1>6, Zenon DEF HandleInput
  <2> QED
    BY <2>2, <2>3, <2>4, <2>5
<1>7. CASE Render \/ Measured \/ Quit
  BY <1>7 DEF Render, Measured, Quit
<1>8. CASE UNCHANGED vars
  BY <1>8 DEF vars
<1> QED
  BY <1>1, <1>a, <1>b, <1>c, <1>d, <1>2, <1>3, <1>4, <1>5, <1>6, <1>7, <1>8
     DEF Next, Outside, MainStep

(* The state of both threads keeps to its types. *)
THEOREM TypeCorrect == Spec => []TypeOK
BY TypeInit, TypeStep, PTL DEF Spec

-----------------------------------------------------------------------------
LEMMA ResizeStep == TypeOK /\ NoLostResize /\ [Next]_vars => NoLostResize'
<1> SUFFICES ASSUME TypeOK, NoLostResize, [Next]_vars, screen' # term'
             PROVE  Queued("WINCH")' \/ (screen_resized' /\ pc' # "measured")
  BY DEF NoLostResize
<1>0. "WINCH" \in Signals
  BY DEF Signals
<1>1. CASE Resize
  BY <1>1 DEF Resize, Queued
<1>2. CASE Render
  BY <1>0, <1>2, StaysQueued DEF Render, Measured, HandleSignal, NoLostResize, thread, Queued
<1>3. CASE HandleSignal
  <2>1. CASE Head(sig_pipe) = "WINCH"
    BY <1>3, <2>1 DEF HandleSignal
  <2>2. CASE Head(sig_pipe) # "WINCH"
    <3>1. screen = screen' /\ term = term' /\ pc = "sig" /\ pc' = pc
          /\ (screen_resized => screen_resized')
      BY <1>3 DEF HandleSignal
    <3> QED
      BY <1>0, <2>2, <3>1, StaysQueued DEF NoLostResize
  <2> QED
    BY <2>1, <2>2
<1>4. CASE Measured
  <2>1. pc = "measured" /\ screen' = screen /\ term' = term /\ pending' = pending
        /\ hand' = hand /\ sig_pipe' = sig_pipe
    BY <1>4 DEF Measured, thread
  <2> QED
    BY <2>1 DEF NoLostResize, Queued
<1>5. CASE ~(Resize \/ Render \/ HandleSignal \/ Measured)
  <2>1. /\ screen' = screen /\ term' = term /\ screen_resized' = screen_resized
        /\ pc' = "measured" => pc = "measured"
    BY <1>5 DEF Next, Outside, MainStep, Interrupt, Type, ServerStarts, ServerFinishes, ServerReads,
                ServerGoes, SigWait, SigWrite, Select, SelectFails, SignalsHandled, HandleServer,
                HandleInput, SendCommand, Quit, Leave, vars, main
  <2> QED
    BY <1>0, <1>5, <2>1, StaysQueued DEF NoLostResize
<1> QED
  BY <1>1, <1>2, <1>3, <1>4, <1>5

(* While the client draws for a size the terminal no longer has, news of   *)
(* the change is on its way or the flag is up and not yet acted on.        *)
THEOREM NoLostResizeHolds == Spec => []NoLostResize
<1>1. Init => TypeOK /\ NoLostResize
  BY TypeInit DEF Init, NoLostResize
<1> QED
  BY <1>1, TypeStep, ResizeStep, PTL DEF Spec

LEMMA InterruptStep == TypeOK /\ NoLostInterrupt /\ [Next]_vars => NoLostInterrupt'
<1> SUFFICES ASSUME TypeOK, NoLostInterrupt, [Next]_vars, asked', running'
             PROVE  Queued("INT")'
  BY DEF NoLostInterrupt
<1>0. "INT" \in Signals
  BY DEF Signals
<1>1. CASE Interrupt
  BY <1>1 DEF Interrupt, Queued
<1>2. CASE HandleSignal
  <2>1. asked /\ running /\ Head(sig_pipe) # "INT"
    BY <1>2 DEF HandleSignal
  <2> QED
    BY <1>0, <2>1, StaysQueued DEF NoLostInterrupt
<1>3. CASE ~(Interrupt \/ HandleSignal)
  <2>1. asked' = asked /\ (running' => running)
    BY <1>3 DEF Next, Outside, MainStep, Resize, Type, ServerStarts, ServerFinishes, ServerReads,
                ServerGoes, SigWait, SigWrite, Select, SelectFails, SignalsHandled, HandleServer,
                HandleInput, SendCommand, Render, Measured, Quit, Leave, vars, main, TypeOK
  <2> QED
    BY <1>0, <1>3, <2>1, StaysQueued DEF NoLostInterrupt
<1> QED
  BY <1>1, <1>2, <1>3

(* A ^C is on its way until the loop has been told to end. *)
THEOREM NoLostInterruptHolds == Spec => []NoLostInterrupt
<1>1. Init => TypeOK /\ NoLostInterrupt
  BY TypeInit DEF Init, NoLostInterrupt
<1> QED
  BY <1>1, TypeStep, InterruptStep, PTL DEF Spec
=============================================================================
