# Bomberman, in TLA+

Specifications, model-checking runs and machine-checked proofs for the networked
Bomberman game in `src/`: a single-threaded server (`src/server`), a terminal client
(`src/client`), and the data structures and wire format they share (`src/common`).
The repository has no design document, so the reference for every definition is the
code; `PROJECT.json` gives the lines each definition stands for.

## 1. The system

| Component | State it keeps | Operations | Talks to |
|---|---|---|---|
| Server connections and loop (`server.c`, `server.h`) | client table, spawns, initial board, explosion pool | accept, refuse, disconnect, broadcast, reset of a round, the poll/accept/serve/tick pass | handlers and clock by call, clients by TCP |
| Message handlers (`client_handler.c`) | none of its own; changes the server's | HELLO, SET_READY, MOVE_ATTEMPT, BOMB_ATTEMPT, SET_STATUS, SYNC_REQUEST, PING, LEAVE | called by the loop; answer and broadcast |
| Game clock (`game_loop.c`) | tick counter (written, never read) | age flames, burn fuses, set off due bombs, finish the round | calls explosions |
| Explosions (`bomb_logic.c`) | none of its own | spread of a blast, burning blocks, bonuses, deaths, chain reactions, the explosion pool | board, players, broadcasts |
| Game state (`game_state.c`, `config.h`) | board, players, bombs | cell access, the bomb pool, index arithmetic | used by both programs |
| Map loader (`map_loader.c`) | fills board, spawns and defaults | one pass over the file | runs once before the loop |
| Client communication (`client_comms.c`, `client.h`) | the client's copy of the game | one handler per message of the server | reads the connection |
| Client main loop (`client.c`, `sigthread.c`) | `running`, the log ring | select over a pipe, the socket and the keyboard; a second thread that waits for signals | all parts of the client |
| Client input (`input_handler.c`) | time of the last move | keys to messages, refused by status, slot and speed | reads the client's copy |
| Client screen (`ui.c`) | screen size, its flag, the screen buffer | measure, draw, show the log | reads the client's copy |
| Transport (`socket_io.c`, `protocol.c`, `serialization.c`) | none | frame, send, receive, encode, decode | used by both programs |

A pass of `server_run_loop` is `select` (at most one tick's time), at most one
`accept`, at most one message of each readable client in slot order, then
`server_tick`. There is no other thread in the server and no lock; the concurrency is
between the server, its clock and the clients, whose messages may come in any order. The
client has two threads, joined by a pipe. Between the programs are TCP connections, on
which both sides block in `send`, and a reader waits for the whole of a message: for a
second a chunk in the server, for ever in the client.

### What is hard here

- **Interleaving and protocol order.** Any client may send any message in any status,
  join in the middle of a round, leave between two steps, rename itself. `status`,
  `alive`, `lives` and `ready` are written by six handlers and by the clock.
- **Two representations of a bomb.** A cell of the board and an entry of the pool, plus
  the owner's count of bombs in hand, updated at different places.
- **Chain reactions.** A blast sets the timers of bombs in entries the scan has passed;
  a `do ... while` must find them within the same tick and must end.
- **Limits.** Full pools, `uint8_t` loop counters against `uint8_t` radii, fields that
  wrap, numbers tested as `int` and stored in 8 or 16 bits.
- **Staleness.** Readiness reported by `select` before the connection table changed;
  a board read by a loop that changes it; a client copy built from states and changes.
- **Liveness.** Bombs, flames and decided rounds must end whatever the clients do; a
  resize and a ^C must reach the loop through a thread, a pipe and a pass that may block.
- **Streams.** `send` and `recv` cut messages anywhere, a peer dies in the middle of one, and
  the length of a payload is written down in four places.
- **Blocking and failing sends.** The server's only thread sends to everybody; nobody looks
  at the result of a send, and nobody ignores SIGPIPE.
- **Arithmetic at its edges.** Pairs of seconds and nanoseconds, a ring with one empty place,
  screen positions in `size_t`.

### What makes each component correct

- Server and handlers: a round starts only from the lobby with all who are seated,
  nobody joins or revives in it, it ends exactly when it is decided; names are unique.
- Board, pool and hands: they always agree; live players stand apart, outside walls.
- Clock and explosions: every due bomb goes off within its tick; the blast is the one
  the board prescribes; ticks, bombs, flames and rounds end.
- Map loader: a file is loaded as its tokens say, or refused, and what it hands over is
  a configuration the server can run.
- Client: whenever it has read all it was sent, it shows the server's state; from its
  WELCOME on it can apply whatever it is sent.
- Transport: what is sent arrives whole, in order and once, until the connection breaks;
  what a reader refuses was not written by this program.
- Threads and signals: no resize and no ^C is lost. Input: moves are no closer than the
  speed allows, and no key but q ends a client that has been welcomed.
- Screen: the latest log lines in their order; every span of a frame inside the buffer.
- Sends: only a client that does not run holds the server, and only one whose departure
  has gone unnoticed can end it.

## 2. The modules

```
GameState ── constants, assumptions, board and blast operators (no variables)
 ├── Server ── the whole server ──refines──► Round (abstract)
 │    ├── MCArena, MCFuse
 │    ├── Session (with Client) ── server + connection + one client's copy
 │    │    └── MCSession, MCCrowd
 │    └── ServerProofs ── of Server, then of Session
 ├── Client ── one operator per message of the server
 └── BlastLoop ── the loops of one explosion, against BlastCells
      └── BlastProofs ; MCBlast
Levels ── what a map file means ; MapLoader ── the loop that reads it
 └── MapLoaderProofs ; MCMapLoader
Codec ── encoders, decoders ; Framing ── how many bytes a reader takes
 ├── Payload ── what the two promise each other ; MCPayload
 └── Wire ── one direction of a connection ──refines──► Channel (abstract)
      └── WireProofs ── of the codec, then of the stream ; MCWire
Flow ── who waits for whom, and what a broken connection does ; FlowProofs
ClientLoop ── the client's two threads ; ClientLoopProofs
Console ── keys, and the limit on moves ; ConsoleProofs ; MCConsole
QLog ── the log ring
 └── Screen ── where a frame is drawn, the log box included ; ScreenProofs ; MCScreen
```

**`GameState`** holds the limits of `config.h`, the kinds of cells, kits, bombs and
flames, and the geometry of a blast. `ConfigOK`, its assumption on the constants, is
what `server_load_map` delivers; `MapLoader` checks that it does (`LoadedIsPlayable`).

**`Server`** has one action per operation of the loop: `Accept`, `Refuse`, one action per
message (`Hello`, `SetReady`, `MoveAttempt`, `BombAttempt`, `ReturnToLobby`, `Leave`, and
`NoEffect` for everything that is refused or only answered), `Tick`, `Explode`, `FinishTick`.
`phase`, `unserved` and `scan` are the program counter of the pass: the actions occur in
the orders the loop allows and in no other. A tick with due bombs is a sequence of
`Explode` steps that nothing else interrupts (`phase = "explode"`), in the order of the
`do ... while` scan, and `FinishTick`. The clients' messages are chosen freely.

**`Round`** is what the server promises the players, without board, clock or network.

**`BlastLoop`** is the inside of an explosion, an iteration a step, with the `uint8_t`
counter and a board that burns under the loop. It justifies the single action `Explode`.

**`Levels`** says what a map file means; **`MapLoader`** is the loop of `server_load_map`.

**`Client`** is what `client_handle_server_message` does for every message; **`Session`**
conjoins to every action of `Server` the messages it sends to one watched client, in the
order of the code, and lets that client read them.

**`Codec`** has a layout per payload, as its encoder writes it and as its decoder reads it,
and what both accept. **`Framing`** has the reading side's own numbers: `protocol.c`'s table
of fixed sizes and the arithmetic of `sock_recv_payload_by_type`. **`Payload`** says what
a message struct may hold (`Filled`) and what it means that they agree on one. **`Wire`** is
one direction of a connection, byte by byte: `send_all` on one side, a byte stream in the middle that takes and gives any number of bytes, `recv_all` with
header, base and rest on the other; its sender may be another program, stop or die
anywhere. `side` tells which program reads, and with it what is sent and whether the reader
has a timeout. **`Channel`**, the abstract specification, delivers whole messages in order;
it is what `Session` takes a connection to be.

**`Flow`** abstracts messages to their number and keeps everything that blocks or fails:
buffers in both directions, a broadcast that goes from client to client, the end of a
client in the middle of it, and the states a connection then goes through, up to SIGPIPE.

**`ClientLoop`** is the signal thread, the pipe and a pass of the main loop with its
readiness set, up to the two steps in which a frame measures the terminal and lowers the
flag, and the three places where that thread waits for the server: the rest of a message,
a command, the LEAVE. **`Console`** is `client_build_command`; **`QLog`** and **`Screen`** are the log and the
places of a frame's characters.

Definitions named `Bad...` are faulty variants of the definition after them. No
specification uses them; each property fails when the faulty variant is put in place
of the right one, which shows that the property speaks about that code.

### How state corresponds to the code

| Model | Code |
|---|---|
| `status`, `cells`, `bombs` | `state.status`, `state.map.cells`, `state.bombs` (an entry with owner 0 is free) |
| `explosions` | the pool of `explosion_t`; an entry is active exactly while `remaining_ticks > 0`, and the stale index of an inactive one is normalised |
| `active`, `name` | `clients[i].active`, `clients[i].name` |
| `pos`, `alive`, `ready`, `lives`, `kit` | the fields of `players[i]`; flags are sets of slots |
| `phase`, `unserved`, `scan` | where the thread is in `server_run_loop` and `server_tick` |
| `view`, `wire` (`Session`) | `client_ctx_t` of the watched client; what is on its way to it, as messages |
| `sending`, `pipe`, `got`, `stage` (`Wire`) | what `sock_send_all` still has; the kernels' buffers; what `sock_recv_all` has, and which of its calls it is in |
| `server`, `readfds`, `due`, `parts`, `sent` (`Flow`) | the loop's position, `select`'s set, and the progress of one `server_broadcast` |
| `link` (`Flow`) | the connection: open; closed by the client; poked by a send since; reset, which one send learns as an error; broken, where a send is a SIGPIPE |
| `pending`, `hand`, `sig_pipe`, `fds`, `pc` (`ClientLoop`) | signals in the kernel, in `signal_thread`, in the pipe; `readfds`; where `main` is |
| `server`, `stream`, `up` (`ClientLoop`) | the other end of the connection; what has come from it and is not read; the messages sent to it that it has not read |
| `ts_last_move`, `copy` (`Console`) | the field of that name in `client_ctx_t`, which only `client_build_command` uses; the other fields of `client_ctx_t` it reads |
| `qlog`, `qlog_beg`, `qlog_end` | the same fields of `client_ctx_t` |
| `screen_rows`, `screen_cols` | the statics of `ui.c` |

Left out because nothing reads them: `last_seen_tick`, `state.tick`, the player's copy of
its name. Positions are pairs; `make_cell_index` is injective on boards of side at most
255. `rand()` is a choice. An interrupted `send`, `recv` or `poll` is called again, a
failed `accept` changes nothing: stutters. A `select` of the client that fails ends its loop
(`SelectFails`); the signals it waits for are blocked, so it is not they that interrupt it. In `Session`, deaths and fires of one blast go
out in a fixed order rather than in that of the cells, and the BLOCK_DESTROYEDs of a blast
before its BONUS_AVAILABLEs: they change different parts of the client's copy. The
EXPLOSION_ENDs of one tick go out in any order. HELLO, WINNER, ERROR and PONG change only
names and the log there. A client that receives EXPLOSION_START without a map divides by zero (`client_comms.c:161`); in the
model it stops (`running = FALSE`). At the end of standard input `read` leaves `c` as it
was, uninitialised: in `ClientLoop` the key is then any key. A move before the WELCOME reads
the speed in front of the array of players: in `Console` it is any speed.

`Server` and `Session` take the server process to live on; that a broken connection may
end it is in `Flow`. What a break loses towards one client is in `Flow` and `Wire`; `Session`
follows clients whose connection holds.

## 3. The runs

| Run | Question | Instance and why it is enough |
|---|---|---|
| `arena` | safety of a full game and the refinement of `Round` | 2 players, 2 bombs, 2x3 board with a soft block and a bonus: players can hide, chain, draw, leave bombs behind, be replaced, walk over bonuses; the default speed is 65535, so a pick-up wraps it |
| `crowd` | pools at their limit, names, a lobby nobody starts, what a newcomer is told | 3 players, names with the empty one, one slot without a spawn, pools of one entry, flames longer than fuses, blasts of one cell so that a round survives them and a third client can join it; its copy of the board where bombs and flames overlap |
| `fuse` | liveness of the server | corridor of 3, fuses and flames of 2 ticks, under `FairSpec` |
| `blast` | the loops against `BlastCells`, the counter, termination | every 2x3 board of floor, walls and blocks with the bomb anywhere, radii 0, 1, 2, 255 |
| `map_file` | the loader against `Levels` | every file of up to 4 tokens under 8 headers at the limits of the fields |
| `session` | the client's copy | corridor of 4 with a bonus and a soft block; connections, late joins, rematches |
| `flames` | a comment of `client.h` (section 6) | the corridor; expected to fail |
| `wire` | the connection, from bytes to messages | either program reads two messages, every type of variable length among those of the server, over a pipe of 4 bytes, less than most of them; three kinds of foreign bytes. Sizes and round trips for every type at the limits of its fields, up to one item too many |
| `flow` | who holds the server, what ends it | 2 clients, buffers of 2 sends down and 1 up, up to 2 messages a step: every buffer fills, and a message of two sends is cut by a full one |
| `client_loop` | signals | two sizes, so that a resize can be undone, a pipe of 2, one key, buffers of one message towards the server: the kernel merges signals, the pipe and the buffers fill, a pass runs with an old readiness set, the server stops or goes |
| `console` | keys | a second of 4 units and a clock that crosses its boundary several times, speeds of 0, of 1 (an interval of a whole second), a divisor and others; before and after the WELCOME |
| `screen` | a frame and the log | the real 512 by 512 buffer, terminals from 0 x 0 to 600 x 600, maps up to 255 x 255; a ring of 4 lines that wraps |

`CHECK_DEADLOCK FALSE` appears where the program modelled really stops (an explosion's
loops, the loader, a closed connection, a client or a server that has ended) or at the
bounds of a history or a clock (`Console`, `QLog`). For `Server` and `Session` TLC also shows
that the system cannot stop.

Bounds: `MaxPlayers`, `MaxBombs`, board, timers and names as above. In `Session`, `Window`
is how many unread messages the server may leave behind when it begins a step. It is 0
in the runs, and that loses nothing: the server never reads the client's state, reading
touches only the client, and the properties speak of states in which the client has caught
up, which are the same whenever it reads. (`WelcomedFollows` says `running` of every state;
a client stops at the same message whenever it reads it.) `MaxSent` and `PipeCap` bound
`Wire`: a third message begins in the same reader state as the second. `MaxMessages` bounds
what one handler sends in `Flow`; `MaxKeys`, `Horizon` and `MaxLines` are keys typed ahead,
the last moment of the clock and the lines logged.

### Fairness

- `Server!FairSpec`: weak fairness of `Clock` (a tick's steps) and of nothing else. `select`
  has the tick interval as its timeout, each pass serves each client at most once, and
  `server_tick` follows unconditionally. Nothing is assumed of users.
- `BlastLoop!FairSpec`: the thread goes on running.
- `Wire!FairSpec`: the reader takes what it is offered and its poll expires; a server that is
  inside `send_all` goes on. Of a client that sends, nothing: it may stop in any byte.
- `Flow!FairSpec`: the server runs, and a client that runs reads what has come. A stopped
  client stays stopped, and a user need not type.
- `ClientLoop!FairSpec`: both threads run; `sigwait` takes the lowest of the pending signals
  first, so neither kind is passed over for ever (strong fairness, as each is taken away
  and raised again); the terminal takes what is drawn. A main thread that waits for the server
  is not enabled, and of the server nothing is assumed: it may hold its end of a message, or
  not read, for ever.

### Properties worth a word

- `RoundIsDecided` and `SettledAtPoll` exempt a round with fewer than two connections:
  the code leaves a lone player in a running round until somebody joins.
- `UnstartedOnlyByLeaving`: a lobby in which everybody is ready and no round starts does
  occur, when the one who was not ready leaves (`client_handler.c:143`). The property says it
  arises in no other way.
- `LiveStandApart` is for maps that name a spawn for every slot. On others the reset
  leaves players where they were, and the code does not keep them apart.
- `OneBombEach` covers the slot that changes hands while its former owner's bomb burns;
  that bomb returns to the newcomer, who is harmless because not alive.
- `MapAgrees` exempts cells with a burning flame and bombs that a flame's end wiped from
  the display (`client_comms.c:174`): both differences are the code's.
- `WelcomedFollows` is about welcomed clients only: one that connects during a round and has
  not said HELLO hears the round's broadcasts without a map, and an explosion ends it.
- `HeldOnlyByClients`: the server can be held for ever by a client that is stopped with ^Z,
  or by one that is itself blocked in a send to the server. The property says that
  otherwise the loop comes round, however busy the clients.
- `ResizeIsShown` and `InterruptEnds` exempt a client that the server holds for ever
  (`HeldByServer`): in the `send` of a command (`client.c:177`) or of the LEAVE
  (`client.c:298`) that the full buffers do not take, or in `recv` after half a message
  (`client.c:129`). Such a client draws no more, and ^C, which is blocked and only read by
  the signal thread, does not end it; `Flow` shows how the server gets into that state. The
  properties say that nothing else keeps a resize from the screen or a ^C from its effect.
  A client that has been told to stop is not asked to draw, and one that a SIGPIPE kills,
  because the server has gone, counts as ended.
- `DiesOnlyOfTheUnnoticed`: two sends to a client that has closed, before its end of stream
  is read, end the server by SIGPIPE. The property says that it takes just that.
- `DrawsInside` is an equivalence: a frame stays inside the buffer exactly on the sizes it
  names. On a terminal of 0 rows, or narrower than the text's column, and for maps of 254
  or 255 columns the code draws outside; nothing in the repository says that these are
  excluded, and no check in the code excludes them.

## 4. What is proved

Every safety invariant, action property and refinement that a run checks is also a
theorem, checked by TLAPS for every value of the constants that satisfies the modules'
assumptions: any number of players up to 253, any pool, any board up to 255 by 255, any
timers; messages of any content; any pipe, ring, buffer, clock, file and number of clients.

| Theorem | Says |
|---|---|
| `ServerProofs!TypeCorrect` | no field leaves its C type, and no slot is served without a connection |
| `LiveOnlyInRoundHolds` | nobody is alive without a connection or in the lobby |
| `ServerImplementsRound` | `Spec => RefinesRound`, the refinement |
| `BoardMatchesBombsHolds`, `OneBombEachHolds` | board and pool agree; a live player's bomb is in hand or on the board |
| `RoomForBombHolds` | with as many entries as players the pool is never full for a live player with a bomb (pigeonhole) |
| `RoundsAreSettled`, `AtMostOneSurvivorHolds` | no explosion is outstanding at a poll; a finished round has at most one survivor |
| `UnstartedOnlyByLeavingHolds` | a lobby that should have started is due to a departure |
| `LiveStandApartHolds`, `NamesUniqueHolds` | the remaining safety properties of the server |
| `SessionIsServer` | a server somebody watches is a server: all of the above holds of `Session` |
| `ReplicaAgreesHolds`, `MapAgreesHolds` | a client that has read what it was sent has the server's players, round and board |
| `WelcomedFollowsHolds` | no message of the server stops a welcomed client |
| `LoopsComputeBlast`, `CounterNeverWraps` | the loops hit exactly `BlastCells`; the `uint8_t` step never wraps |
| `LoadedIsPlayableHolds` | any file that is loaded meets the server's assumption |
| `LoadsTheFileHolds` | and it is loaded as its tokens say, each at its place; what can be loaded is |
| `RoundTripHolds` | decoding an encoded message gives it back, for every type and all contents |
| `SizesAgreeHolds` | the four places that know a payload's length agree (the size functions of `serialization.h`, which nothing calls, among them); no other length is taken |
| `RefusesOnlyForeignHolds` | a reader never closes on, nor rejects, what this program wrote |
| `WireImplementsChannel` | `Spec => RefinesChannel`: partial sends and receives deliver whole messages in order |
| `FlowProofs!TypeCorrect`, `DiesOnlyOfTheUnnoticedHolds` | sends go to connected clients only; what ends the server is an unnoticed departure |
| `ClientLoopProofs!TypeCorrect`, `NoLostResizeHolds`, `NoLostInterruptHolds` | no order of signals, threads and measurement loses a resize or a ^C |
| `ThrottleIsExactHolds`, `MovesAreSpacedHolds`, `KeysDoNotKillHolds` | the limit on moves is exact, for a second of any length; no key but q ends a welcomed client |
| `ShowsLatestHolds`, `ScreenShowsLatest` | the log box, for a ring and a box of any size, resized at any time |
| `DrawsInsideHolds` | a frame stays inside the buffer on exactly the sizes that are named |
| `BombsBurnDownHolds`, `FlamesBurnDownHolds` | every tick shortens fuses and flames; only an explosion or the reset takes a bomb away, and only age or the reset a flame |
| `ChainsShrinkHolds` | every step of the explosion pass that does not end it leaves fewer bombs |
| `LoopsCountDown` | the blast loops lower a number with every iteration, from 1280 and not below 0 |
| `RoomToReadHolds`, `ReadsAdvanceHolds` | every `recv` has room, stays inside the buffer and takes its message further |

### The server

A stack of invariants, each inductive relative to those below: `TypeOK`; `RoundInv`
(liveness flags, `ready` within `active`, explosions only in a running round); `LobbyInv`
(in the lobby the pool is empty, hands are full and the board is the map's). `LobbyInv` is
the strengthening that matters: at the start of a round players become alive, and
`BoardMatchesBombs` and `OneBombEach` hold then only because the reset has emptied the pool.
`EndInv` does the same for finished rounds, `Apart` for positions (dead players in the
lobby stand on their spawns). For the loops, `LoopInv` says that the cells hit so far are
those of the finished directions plus the part swept in this one, and that cells not hit are
as they were; blocks burnt earlier cannot open a way because a direction's cells meet
another's only in the centre.

### The session

`Following` is the invariant: once the client has read what is on its way (`Leads`: a
sequence of copies, one per message) its copy is `Faithful` to the server as it is *now*.
A step of the server appends messages, so what must be shown of each action is that its
messages `Tell` a client that knows the game before the step what is different after it;
a step of the client reads one and stays on the way. `FlameFloor` (under a burning flame
there is floor, or a bomb laid into it) is the fact about the server without which
EXPLOSION_END, which makes the client draw floor, would be wrong.

### Codec and connection

`Messages` is any set whose members are `Filled`: every field holds a value of its C type
and a string no longer than its buffer, and there are as many items as the head says. The
proof goes from fields to layouts to messages: one lemma says that a field is read as it was
written, `FieldsStart` and `GetIs` say where the fields of any layout lie in any sequence that begins
with them, one short lemma per layout says that encoder and decoder have the same fields, each
once, and that their widths add up to the number the decoder insists on. `ExtraIs` then
compares with the numbers of `Framing`. The concatenation of any number of parts is a
recursive function; what holds of it is proved by induction, in the form of `Least` (a set
of numbers has a least member, from the well-foundedness of `<`) and `Climb`.

On the connection `WireInv` says that `got`, `pipe` and `sending`, put together, are the
messages not yet delivered (`Stands`, with a table of where each begins; when the sender is
gone, they may end early) and that the reader is in the stage its bytes put it in
(`ReadingAt`): so it never asks for a byte beyond the message it is in, and what it decodes is
the frame that stands first. `RefusesOnlyForeign` and the refinement both follow, and rest
on the codec's theorems instead of on assumptions about it.

### What falls

The liveness properties are of one kind: something burns, loops or is read, and fairness says
that the thread goes on. What they rest on besides is that each step brings the end nearer and
that no other actor's step moves it away again, in whatever order they come. That is safety,
and is proved: `BombsBurnDown` and `FlamesBurnDown` for `EveryBombGoesOff` and `EveryFlameDies`
(`OthersLeaveFires` lists the only actions that touch either pool), `ChainsShrink` for
`TickEnds`, `CountsDown` for `Terminates`, `RoomToRead` and `ReadsAdvance` for `ReadsEnd`. These
formulas are stated in the proof modules, next to their proofs; no run lists them. `RoomToRead`
also says that the lengths that the first bytes of a payload announce are checked before they
are used: a `recv` of 0 bytes would return 0 and be taken for the end of the stream.

### The other components

One inductive invariant each. `LoaderInv`: the cells stored so far are legal, spawns lie
on the board, and the counters are within the header's; `FileInv`: each cell that the loop has
passed holds what its token says, the last digit wins a spawn, and a file is refused only if
it has no reading. `LinkInv`: a connection
that is not open belongs to a client that is gone, and a dead server died in a send over a
broken one, to a client still in its table. `RingInv`: `qlog_end` and `qlog_beg` are
remainders of the number of lines logged, and each place holds the line that was last written
there. `Times`: `ts_last_move` is the clock's reading of `moved`; that turns the comparison of pairs into one
of nanoseconds. `KnowsItself`: a welcomed client has its own player. For the signals, a lemma
per way in which a signal moves on (`StaysQueued`) shows that it is queued somewhere until the
main loop has read it. For the screen, `SizesFit` (the sizes last measured are within the
buffer) and one lemma per element of a frame: on the sizes that are exempted a subtraction
in `size_t` wraps, and the rectangle is then empty or the sum wraps back.

### Assumptions

`ConfigOK` (of a server's map: what `LoadedIsPlayable` proves of a loaded one), `LimitsAssumption`
(the lengths of `config.h` fit the readers' buffer of 65536 bytes), `FilledAssumption` and
`MessagesAssumption` (senders put no more into a struct than it holds), `ForeignAssumption` (the
foreign bytes of `Wire` are an unknown type or announce too much), and of each other
constant that it is of its kind. TLC evaluates each of them on the runs.

### Only model-checked

The properties under fairness: `RoundIsDecided`, `EveryBombGoesOff`, `EveryFlameDies`,
`TickEnds`, `Terminates`, `ReadsEnd`, `AllArrive`, `HeldOnlyByClients`, `ResizeIsShown`,
`InterruptEnds`. The prover has no rules for `ENABLED`, which weak and strong fairness are
defined by. Of `EveryBombGoesOff`, `EveryFlameDies`, `TickEnds`, `Terminates` and `ReadsEnd` the part
that is safety is proved (above); what remains to TLC is that the step which lowers the number
is enabled and taken.

## 5. What is not modelled

- Option parsing, opening sockets and files, connecting, terminal modes.
- Allocation failures; null arguments of the encoders, which no caller passes.
- Wording: log lines, `msg_type_name`, which characters a cell is drawn with, escape codes.
- `gs_count_alive_players` and `gs_has_alive_player_at`, which have no caller.
- Real time: ticks are counted, not timed. The loop ticks once a pass, so messages that
  arrive make the clock run faster; no property speaks of that.
- The tests and the build.

## 6. Finding

`DrawnFlamesBurn` (run `flames`): `server_reset_round` (`server.c:242`) forgets the flames
that still burn. No EXPLOSION_END follows and MAP does not clear the client's `explosions`,
so the client goes on drawing them, until another explosion at the same cell ends. The
comment at `client.h:22` says of that array "currently drawn explosion radiuses, 0 - no
explosion".

## 7. Plan

Done: the server with its rounds, blasts and map loader; the client's copy and the session;
the bytes, the framing and the channel; the client's threads, input and screen; blocking and
failing sends; proofs of all that the runs check of these, except under fairness. What would
add most next:

1. A queue from the client to the server, with the guards of `Console`: requests that are
   stale when they arrive (a bomb claimed on a cell already left, a ready after the round
   has begun) and what they do.
2. `Wire` over `Flow`: a broken connection that loses the end of a message, and the session
   that goes on without it until the disconnection is noticed.
3. The part of `AllArrive` and of the signals' liveness that is safety: the number of places
   a byte, or a signal, has still to go through.
4. `HeldOnlyByClients` split by cause, to state what a send timeout would give.
