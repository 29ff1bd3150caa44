----------------------------- MODULE ClientLoop -----------------------------
(***************************************************************************)
(* The two threads of the client (client/client.c, client/sigthread.c) and *)
(* the flag by which the screen learns of a new size (client/ui.c).  The   *)
(* signal thread waits for SIGWINCH and SIGINT, which are blocked, and     *)
(* writes each to a pipe; the main thread selects on the pipe, the server  *)
(* and the keyboard, and serves in that order what was ready.  It waits    *)
(* for the server at three places, with no timeout and deaf to signals:    *)
(* for the rest of a message, and with a command or a LEAVE that the       *)
(* buffers do not take (sock_recv_all and sock_send_all of                 *)
(* common/src/socket_io.c).  The PONG of client/client_comms.c is left     *)
(* out: the server sends no PING.                                          *)
(***************************************************************************)
EXTENDS Naturals, Sequences

CONSTANTS Sizes,             \* what the terminal may measure
          PipeCap,           \* signals the pipe holds
          UpCap,             \* messages the buffers hold towards the server
          MaxKeys            \* bound: keys typed and not read

ASSUME PipeCapAssumption == PipeCap \in Nat \ {0}
ASSUME UpCapAssumption   == UpCap \in Nat \ {0}

VARIABLES term,              \* the terminal's size
          pending,           \* signals the kernel holds: of each kind at most one
          hand,              \* what sigwait returned and is not written yet
          sig_pipe,
          fds,               \* readfds after select
          server,            \* "up", or "gone" with its end of the connection
          stream,            \* what it has sent: nothing, half a message, or a whole one
          up,                \* messages it has not read
          keys, eof,         \* standard input
          running,           \* ctx.running
          screen_resized, screen,       \* the flag, and screen_rows and screen_cols
          pc,                \* the main thread
          asked              \* history: the user has pressed ^C
net    == <<server, stream, up>>
input  == <<keys, eof>>
thread == <<pending, hand>>
main   == <<fds, running, screen_resized, screen, pc>>
vars   == <<term, thread, sig_pipe, net, input, main, asked>>

Signals == {"WINCH", "INT"}
None    == "none"

Init ==
  /\ term \in Sizes /\ screen = term                \* client_ui_init
  /\ pending = {} /\ hand = None /\ sig_pipe = << >>
  /\ server = "up" /\ stream = "empty" /\ up = 0
  /\ fds = {} /\ keys = 0 /\ eof = FALSE
  /\ running = TRUE /\ screen_resized = FALSE /\ pc = "select" /\ asked = FALSE
-----------------------------------------------------------------------------
(* Outside: the terminal, the keyboard and the server. *)
Resize ==
  /\ term' \in Sizes \ {term} /\ pending' = pending \cup {"WINCH"}
  /\ UNCHANGED <<hand, sig_pipe, net, input, main, asked>>

Interrupt ==
  /\ ~asked /\ asked' = TRUE /\ pending' = pending \cup {"INT"}
  /\ UNCHANGED <<term, hand, sig_pipe, net, input, main>>

Type ==
  /\ ~eof
  /\ \/ keys < MaxKeys /\ keys' = keys + 1 /\ UNCHANGED eof
     \/ eof' = TRUE /\ UNCHANGED keys
  /\ UNCHANGED <<term, thread, sig_pipe, net, main, asked>>

ServerStarts ==
  /\ server = "up" /\ stream = "empty" /\ stream' = "half"
  /\ UNCHANGED <<term, thread, sig_pipe, server, up, input, main, asked>>

ServerFinishes ==
  /\ server = "up" /\ stream = "half" /\ stream' = "whole"
  /\ UNCHANGED <<term, thread, sig_pipe, server, up, input, main, asked>>

ServerReads ==
  /\ server = "up" /\ up > 0 /\ up' = up - 1
  /\ UNCHANGED <<term, thread, sig_pipe, server, stream, input, main, asked>>

ServerGoes ==
  /\ server = "up" /\ server' = "gone"
  /\ UNCHANGED <<term, thread, sig_pipe, stream, up, input, main, asked>>
-----------------------------------------------------------------------------
(* signal_thread *)
SigWait(s) ==
  /\ hand = None /\ s \in pending
  /\ hand' = s /\ pending' = pending \ {s}
  /\ UNCHANGED <<term, sig_pipe, net, input, main, asked>>

BadSigWrite ==                            \* the signal thread raises the flag itself
  /\ hand # None /\ hand' = None
  /\ screen_resized' = (screen_resized \/ hand = "WINCH")
  /\ sig_pipe' = IF hand = "INT" THEN Append(sig_pipe, hand) ELSE sig_pipe
  /\ UNCHANGED <<term, pending, net, input, fds, running, screen, pc, asked>>
SigWrite ==
  /\ hand # None /\ Len(sig_pipe) < PipeCap
  /\ sig_pipe' = Append(sig_pipe, hand) /\ hand' = None
  /\ UNCHANGED <<term, pending, net, input, main, asked>>
-----------------------------------------------------------------------------
(* The main thread. *)
Ready == {f \in {"sig", "server", "stdin"} :
            \/ f = "sig" /\ sig_pipe # << >>
            \/ f = "server" /\ (stream # "empty" \/ server = "gone")
            \/ f = "stdin" /\ (keys > 0 \/ eof)}

Select ==
  /\ pc = "select" /\ Ready # {}
  /\ fds' = Ready /\ pc' = "sig"
  /\ UNCHANGED <<term, thread, sig_pipe, net, input, running, screen_resized, screen, asked>>

(* A select that fails, for whatever reason, ends the loop. *)
SelectFails ==
  /\ pc = "select" /\ pc' = "leaving"
  /\ UNCHANGED <<term, thread, sig_pipe, net, input, fds, running, screen_resized, screen, asked>>

(* One turn of the loop of handle_fd_sigthread, which ends on EAGAIN. *)
BadHandleSignal ==                        \* the first of the signals read at once counts
  /\ pc = "sig" /\ "sig" \in fds /\ sig_pipe # << >>
  /\ screen_resized' = (screen_resized \/ Head(sig_pipe) = "WINCH")
  /\ running' = (running /\ Head(sig_pipe) # "INT")
  /\ sig_pipe' = << >>
  /\ UNCHANGED <<term, thread, net, input, fds, screen, pc, asked>>
HandleSignal ==
  /\ pc = "sig" /\ "sig" \in fds /\ sig_pipe # << >>
  /\ screen_resized' = (screen_resized \/ Head(sig_pipe) = "WINCH")
  /\ running' = (running /\ Head(sig_pipe) # "INT")
  /\ sig_pipe' = Tail(sig_pipe)
  /\ UNCHANGED <<term, thread, net, input, fds, screen, pc, asked>>

SignalsHandled ==
  /\ pc = "sig" /\ ("sig" \notin fds \/ sig_pipe = << >>)
  /\ pc' = "server"
  /\ UNCHANGED <<term, thread, sig_pipe, net, input, fds, running, screen_resized, screen, asked>>

(* handle_fd_server waits for the whole of a message, whatever happens     *)
(* meanwhile; the end of the stream, a DISCONNECT and a message it cannot  *)
(* read end the loop.                                                      *)
HandleServer ==
  /\ pc = "server"
  /\ \/ "server" \notin fds /\ UNCHANGED <<stream, running>>
     \/ "server" \in fds /\ stream = "whole" /\ stream' = "empty" /\ running' \in {running, FALSE}
     \/ /\ "server" \in fds /\ stream # "whole" /\ server = "gone"
        /\ running' = FALSE /\ UNCHANGED stream
  /\ pc' = "input"
  /\ UNCHANGED <<term, thread, sig_pipe, server, up, input, fds, screen_resized, screen, asked>>

(* handle_fd_input: q quits, and so does a command that cannot be built.   *)
(* At the end of the input read gives nothing and c is whatever it was.    *)
(* readfds is not looked at again.                                         *)
BadHandleInput ==                         \* running = !should_quit
  /\ pc = "input"
  /\ \/ UNCHANGED <<keys, running>> /\ pc' = "render"
     \/ /\ "stdin" \in fds /\ keys' = IF keys > 0 THEN keys - 1 ELSE 0
        /\ running' \in BOOLEAN /\ pc' \in {"render", "sending"}
  /\ fds' = {}
  /\ UNCHANGED <<term, thread, sig_pipe, net, eof, screen_resized, screen, asked>>
HandleInput ==
  /\ pc = "input"
  /\ \/ UNCHANGED <<keys, running>> /\ pc' = "render"     \* not ready, or read fails
     \/ /\ "stdin" \in fds /\ keys' = IF keys > 0 THEN keys - 1 ELSE 0
        /\ \/ running' \in {running, FALSE} /\ pc' = "render"
           \/ pc' = "sending" /\ UNCHANGED running
  /\ fds' = {}
  /\ UNCHANGED <<term, thread, sig_pipe, net, eof, screen_resized, screen, asked>>

(* sock_send_message waits until the buffers take the command.  Once the   *)
(* server has gone it may still take it, or fails, or SIGPIPE kills.       *)
SendCommand ==
  /\ pc = "sending"
  /\ \/ server = "up" /\ up < UpCap /\ up' = up + 1 /\ pc' = "render" /\ UNCHANGED running
     \/ server = "gone" /\ pc' = "render" /\ running' \in {running, FALSE} /\ UNCHANGED up
     \/ server = "gone" /\ pc' = "killed" /\ UNCHANGED <<up, running>>
  /\ UNCHANGED <<term, thread, sig_pipe, server, stream, input, fds, screen_resized, screen, asked>>

(* client_ui_render measures the terminal first and then lowers the flag. *)
Render ==
  /\ pc = "render" /\ running
  /\ \/ screen_resized /\ screen' = term /\ pc' = "measured"
     \/ ~screen_resized /\ pc' = "select" /\ UNCHANGED screen
  /\ UNCHANGED <<term, thread, sig_pipe, net, input, fds, running, screen_resized, asked>>

Measured ==
  /\ pc = "measured" /\ screen_resized' = FALSE /\ pc' = "select"
  /\ UNCHANGED <<term, thread, sig_pipe, net, input, fds, running, screen, asked>>

Quit ==
  /\ pc = "render" /\ ~running /\ pc' = "leaving"
  /\ UNCHANGED <<term, thread, sig_pipe, net, input, fds, running, screen_resized, screen, asked>>

(* send_leave waits like a command; then the terminal is restored. *)
Leave ==
  /\ pc = "leaving"
  /\ \/ server = "up" /\ up < UpCap /\ up' = up + 1 /\ pc' = "done"
     \/ server = "gone" /\ pc' \in {"done", "killed"} /\ UNCHANGED up
  /\ UNCHANGED <<term, thread, sig_pipe, server, stream, input, fds, running, screen_resized,
                 screen, asked>>

Outside  == \/ Resize \/ Interrupt \/ Type
            \/ ServerStarts \/ ServerFinishes \/ ServerReads \/ ServerGoes
MainStep == \/ Select \/ HandleSignal \/ SignalsHandled \/ HandleServer \/ HandleInput
            \/ SendCommand \/ Render \/ Measured \/ Quit \/ Leave
Next == \/ Outside \/ SelectFails
        \/ \E s \in Signals : SigWait(s)
        \/ SigWrite \/ MainStep
Spec == Init /\ [][Next]_vars

(* Both threads run, the terminal takes what is drawn, and sigwait takes   *)
(* the lowest signal first, so neither is passed over for ever.  Nothing   *)
(* is assumed of the server: it need not read, finish a message or go.     *)
FairSpec == /\ Spec /\ WF_vars(MainStep) /\ WF_vars(SigWrite)
            /\ \A s \in Signals : SF_vars(SigWait(s))
-----------------------------------------------------------------------------
Queued(s) == s \in pending \/ hand = s \/ \E i \in 1..Len(sig_pipe) : sig_pipe[i] = s

TypeOK ==
  /\ term \in Sizes /\ screen \in Sizes
  /\ pending \subseteq Signals /\ hand \in Signals \cup {None} /\ sig_pipe \in Seq(Signals)
  /\ fds \subseteq {"sig", "server", "stdin"}
  /\ server \in {"up", "gone"} /\ stream \in {"empty", "half", "whole"} /\ up \in 0..UpCap
  /\ keys \in Nat /\ eof \in BOOLEAN
  /\ running \in BOOLEAN /\ screen_resized \in BOOLEAN /\ asked \in BOOLEAN
  /\ pc \in {"select", "sig", "server", "input", "sending", "render", "measured",
           "leaving", "done", "killed"}

(* While the client draws for a size the terminal no longer has, news of   *)
(* the change is still on its way or the flag is up to be acted on: no     *)
(* order of a resize, the two threads and the measurement loses it, though *)
(* equal signals merge in the kernel.                                      *)
NoLostResize ==
  screen # term => Queued("WINCH") \/ (screen_resized /\ pc # "measured")

(* A ^C is not forgotten: it is on its way until the loop has been told,   *)
(* and nothing later in the same pass, no message and no key, undoes that. *)
NoLostInterrupt == asked /\ running => Queued("INT")

(* The main thread cannot go on before the server does something. *)
HeldByServer ==
  /\ server = "up"
  /\ \/ pc \in {"sending", "leaving"} /\ up = UpCap
     \/ pc = "server" /\ "server" \in fds /\ stream = "half"

Drawing == running /\ pc \notin {"leaving", "done", "killed"}

(* A terminal that is no longer resized is drawn at its size in the end,   *)
(* unless the client stops or the server holds it for ever: in the send of *)
(* a command it does not read, or after half a message of its own.         *)
ResizeIsShown ==
  []<>~HeldByServer => \A t \in Sizes : <>[](term = t) => <>[](screen = t \/ ~Drawing)

(* A ^C ends the client, if the window is not dragged about for ever (each *)
(* new signal keeps handle_fd_sigthread in its loop) and the server does   *)
(* not hold it for ever: the LEAVE, too, may wait.                         *)
InterruptEnds ==
  []<>~HeldByServer /\ (\E t \in Sizes : <>[](term = t)) => (asked ~> pc \in {"done", "killed"})
=============================================================================
