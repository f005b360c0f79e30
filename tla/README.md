# TLA+ models of the AMIQ blog examples

The repository holds the programs that accompany the articles of the AMIQ
blog: some forty directories, each a small verification environment, a class,
a script or a snippet, in SystemVerilog, e, C++, Python and Groovy. Most of
them declare something or compute one value of another. Six of them have parts
that wait for one another, and these are what this project is about:

* the **non-blocking socket**: a SystemVerilog testbench talks to a Python
  server through a DPI-C layer that must never block the simulator;
* the **FIFO protection**: two classes that make producers wait until a FIFO
  has room, one with UVM objections and one with semaphores;
* the **register model bench**: a UVM register model, a sequencer, driver,
  monitor and predictor, and a component that turns what the monitor saw into
  responses, around a small register file in RTL;
* the **blocking socket** examples: a testbench (SystemVerilog, or e) that
  fetches its stimuli from a Python server and repeats a call that failed;
* the **code-quality pipelines**: four Jenkins pipelines whose builds share a lock
  and a few executors, and whose verdict goes to the review;
* the **grammar pages**: two HTML pages that show the grammars of SystemVerilog and
  VHDL, with a table of contents to fold, tooltips, and a box to search it. What
  runs in them is the repository's only JavaScript: `toc.js` and the handlers in the
  pages, and the copies of `select2.js` (4.0.0) and `bootstrap.js` (3.1.1) that the
  pages load. These two are third-party files and by far the largest programs here;
  they are modelled because the pages behave as they do.

`PROJECT.json` maps each definition to the lines it stands for and lists the
runs, the mutants, the hazards, the findings and the theorems. This file
explains them.


## 1. Inventory

| component | state | operations | what is hard |
|---|---|---|---|
| socket connector (`amiq_server_connector.svh`), DPI-C layer (`client.cc`), testbench (`amiq_top.sv`) | two mailboxes, the item being sent, `msgs_q`, `msg_saved`, an event, three forked threads, the socket | put and get items; send until the whole item is out; poll, receive and call back into SystemVerilog; split messages | TCP cuts the text anywhere; threads are cooperative, so whoever does not give way starves the others; an event nobody waits for is lost; partial and blocked sends |
| Python socket server (`server.py`) | the connection, the global `truncated_item` | accept, receive, answer, close, die by an exception | keeps text between two receives and perhaps between two clients; a client may go at any time |
| `fifo_protection_objection.sv` | an objection count, a limit and a flag for each FIFO; waiting threads | `lock`, `free`, `set_enable`, `wait_for_event`, `are_all_free` | one drop wakes every waiter; lost wakeups; two who both saw the slot |
| `fifo_protection_semaphore.sv` | a semaphore, a limit and a flag for each FIFO | `lock`, `try_lock`, `free`, `get_resource_count`, `are_all_free` | waiting in line and jumping it; counting keys by trial |
| register bench (`amiq_smmi`, `amiq_ral_req_rsp_handshake`, environment, test) | driver and monitor states, sequencer queue, response queues, mirrored values | start an access, grant, drive, clear, respond, collect, predict | request, item_done and response at different clock edges; who answers, how often, and to whom |
| register file RTL (`amiq_simple_reg_file.sv`) | four registers, a two-state protocol, pins | take a request, respond | a request that comes while it responds is not seen |
| blocking client (`client.cc`) and testbenches, in SystemVerilog and e | attempts, the connection, the values received | attempt, connect, write, read; interpret an error and try again | retries of a call the server may have answered; a server that dies; errors as ints and as strings |
| blocking Python server (`server.py`) | the one connection it serves | accept, respond, close | the next call connects while the last one is not closed yet |
| AMD loader at the head of `select2.js` | the modules that wait, are being defined, are defined; calls in progress | define, require, call the dependencies | circles, factories that throw, definitions after the fact |
| Select2 control | the options selected in the element, those shown, those marked in the list; open or not; handlers on `body` and window; text of the search box | open, close, pick, take back, clear, type, keys, values set by a script, rebuild | listeners trigger events that call listeners; each keeps a copy of something another owns |
| Select2 results from a server | last question, delay timer, request, list, loading | ask, load more, answer, fail, abort | answers late, out of order, or never |
| Bootstrap widgets | for each widget its classes, timers, flags and the callbacks that wait for a transition | show, hide, slide, toggle, scroll | what a callback finds when the transition has been overtaken |
| `toc.js`, handlers in the pages | the marks of the headings | mark a heading, open the control, show a tooltip | they act beside the plugin's own handlers |
| out-of-order comparators | two queues of unmatched items | compare, store, report what is left | duplicates, partial matches, an index used for an index |
| code-quality pipelines (Groovy) | for each build: its stages, executor, lock, vote; the workspaces the internship pipeline keeps | check out or pick, compile, lint, test, run a regression, retry, waive, skip, vote, clean up | failures of parallel stages; one lock and one pool of executors for all builds; what a build leaves for the next one |
| parameterizable agents | the fields of one transaction | drive and monitor | sampling against driving |
| coverage closure study | the delays chosen so far | choose the next one | what is chosen now must leave a solution for later |
| conversions, coverage snippets, gotchas, regression scripts, regular expressions, templates | none of their own | one call each | boundaries of ranges |

How the parts interact. The systems above are programs of their own and
share nothing with each other. Inside each of them:

* non-blocking socket: mailboxes and one event join the testbench to the
  connector; the connector calls C (`send_data`, `recv_thread`), C calls back
  (`recv_callback`, `consume_time`); C and Python share one TCP connection;
* FIFO protection: threads call the class and block in it; the class does not
  see the FIFOs, its users promise to lock before they push and to free after
  they pop;
* register bench: test threads and sequencer through UVM's item handshake,
  driver and monitor and RTL through pins sampled at the clock, monitor to
  predictor and handshake component through an analysis port, handshake
  component to sequencer by `put_response`;
* blocking socket: one connection per call;
* pipelines: builds meet at the lock `amun_agent` and at the executors of `amun`, and, in
  the internship pipeline, in the workspace one build leaves to the next;
* grammar pages: one thread of JavaScript; scripts and plugins call each other through
  jQuery's events, whose handlers run in the order in which they were bound, and the
  browser calls back at the end of a timer, a transition or a request.

What makes each part correct, in one sentence each:

* socket: whatever the threads, the cuts of the stream and the restarts, the
  testbench receives the reply to each of its items once, whole and in order,
  and the test ends;
* protection: a protected FIFO never holds more than its limit, and nobody
  sleeps while the slots he wants are there;
* registers: each access takes effect once, returns what the register held,
  returns at all, and the mirrored values are right;
* blocking call: each call returns, and what it returns answers its own
  request;
* pipelines: each build ends, and its vote says what its stages found, about its own
  change and no other;
* grammar pages: what the reader sees agrees with what the scripts believe, once
  nothing is awaited any more, whatever was clicked on the way.


## 2. Modules

    RequestReply              abstract: items are answered in order
        ^
    NonBlockingSocket   =  SocketClient + AmiqServer  over  TcpLink  over  Wire
        |
    NonBlockingSocketProofs

    SlotPool                  abstract: a bounded pool of slots
        ^              ^
    FifoObjection   FifoSemaphore      both over  ProtectedFifo
        |              |
    FifoObjectionProofs  FifoSemaphoreProofs

    AtomicRegisters           abstract: registers with atomic accesses
        ^
    RegisterBench  over  SimpleRegFile;   MCRegisterBench gives it its setups
        |
    RegisterBenchProofs

    Stimuli  =  BlockingCall,  OnTheFly,  TopDown
        |
    StimuliProofs

    Pipelines  --  PipelinesProofs

    InternshipWorkspace  --  PipelinesProofs;   MCInternshipWorkspace gives it its history

    FreshResults              abstract: the list answers the last question
        ^
    Select2Search  --  Select2Proofs;   MCSelect2Search gives it its server

    GrammarPage  =  AmdLoader, Select2, Placement, and
        |           Modal, Tooltip, Carousel, Collapse, Tab  over  Transitions,
        |           Dropdown, ScrollSpy, Button;   MCGrammarPage gives it its scripts
    GrammarPageProofs (loader and widgets),  Select2Proofs (the control)

An arrow is a refinement: the upper module is the specification, and the run
checks that the lower one implements it under a refinement mapping. A line leads
to the module with the proofs.

**Wire** is the text that travels, and the pure functions on it: framing,
`split`, what `send_response` truncates, works on and answers. A string is a
sequence of tokens, two for an item and one for its delimiter: a send or a
receive may then stop inside an item, and between an item and its delimiter,
which is all the code can tell apart. `split` and the search for the last delimiter
are one scan of the tokens (`Scan`, a fold of `Cut`): the items ended so far, and the
one that was begun. **TcpLink** is the connection: a bounded
stream of bytes in each direction, `poll` and what `send` accepts, and what
becomes of it when a process ends. **AmiqServer** has one action for each thing
`server()` does between two calls of the socket. **SocketClient** is the
simulator: `cpu` names the thread that runs; a thread gives way where the code
does (an empty mailbox, `@event`, the delay of `consume_time`), and a thread in
a delay runs again when no other can, since only then the simulator's time
advances. `Killed` and `Restart` end the process and start another with fresh
variables; the server notices only what TCP shows it. **NonBlockingSocket**
interleaves the two processes and states the properties.

**ProtectedFifo** is the user of the protection, code that is not in the
repository: who has locked may push, who has popped may free. **FifoObjection**
and **FifoSemaphore** are the two classes, one action per method and one per
step of UVM's or the language's that a method waits for (`AllDropped`, `Grant`).
The enable flag changes nothing but a warning, as in the code, so the model
allows every call with either value of it. `get_resource_count` of the
semaphore takes and puts back keys in a loop; no other thread can run between,
so it is an operator and the loop is modelled by the set of the counts it can
get.

**SimpleRegFile** is the RTL at one clock edge. Every process reads the pins as
they were before the edge and writes them after it, hence `req` and `req_next`.
**RegisterBench** has one action for each thing the processes do at an edge: the
edge wakes them and they run in any order (`woken`), and only then does the
sequencer grant, because UVM lets the NBA region pass first. A setup has the two
plusargs of the test, `send_response` and `handshake`, and the threads that
access registers. An access carries the thread and a number: they stand for the
sequence and transaction ids that UVM gives an item, so a response to the wrong
access can be told.

**BlockingCall** is `call_client` and `client` against `server`: an action for
each call that can fail or wait. `Twins` chooses the SystemVerilog or the e
example; they differ in the order of the requests and in what is thrown.

**Pipelines** gives each pipeline as the function from a stage to the stages that are
over before it starts, which is all that distinguishes the four files but for the
lock. A stage waits, runs, and ends well or not; the tools it calls decide. `Start`
waits for the lock, `Allocate` and `Start` of the regression for an executor, and
`Waive` looks at the `when` condition only once the stage has its executor, as Jenkins
does. `compile` catches every error, so that stage always ends well.

**InternshipWorkspace** is the first stage and the cleanup of the internship pipeline,
which `Pipelines` takes for a stage like the others. A workspace is the commits git has
there, with what a conflict leaves behind; the actions are the git commands of the script. A rebase
puts the commits that the branch does not have (`LocalAt`), in their order (`Local`), on
what was pulled.
`Clone` is what build number 1 does and no other, so that a workspace which that build has
not seen never has a repository. The server may be out of reach at each command
(`PrepareFails`, `PullFails`), an aborted build runs its cleanup (`Abort`), and a build
whose node goes down does not (`Die`). Two variables are history and decide nothing:
`pulled` and `lost`, how long the branch was at the last pull, and how many of its commits
the cleanup has taken away since.

**OnTheFly** and **TopDown** are the two sequences of the coverage closure study, with one
action for each packet. The first keeps the sum of the delays it has chosen, which is all
it reads of them; the second keeps the plan it drives. Both have the same state otherwise,
so that `TopDown` can be read as an implementation of `OnTheFly`.

**Stimuli** is a test, which takes its stimuli from one `source`: the server of the blocking
call, or one of the two sequences. The examples are programs of their own, so its state space
is the sum of theirs; it is what one run checks and one module proves.

**Transitions** is what the widgets of Bootstrap wait for: `pending` gives each element
the queue of the callbacks armed on it, all run in that order and forgotten when its
transition ends. When that is is left open, since `emulateTransitionEnd` plays the end by
a timer that may come before or after the browser's own. **Modal**, **Tooltip**,
**Carousel**, **Collapse**, **Tab**, **Dropdown**, **ScrollSpy** and **Button** have one
record each, with the fields of the plugin's instance and the classes it sets, and one
action for each click, key, timer and end of a transition; `Run` is what each callback
does. What is done to each of several elements and to each of them alone, as
`actives.collapse('hide')`, is one function of all the elements (`HideActives`). `hasty` is
history and decides nothing: the user acted while a transition he could disturb was
running. It is a variable of the dialog, the panels and the tabs and a field of the tip
(`overlapped` in the carousel); the widgets make no promise for that case, see section 3.

**Select2** keeps the calls still to be made in `agenda`, the next one first: an
event is replaced by the calls of its listeners in the order of registration, a call
may put others in front of those that wait, an exception empties it (`thrown` is the set of
those that have reached the engine), and the next input of the user is taken when it is
empty. This is how the order of listeners,
the calls of one event from within another (closing selects, selecting closes) and a
stack that overflows become visible. The adapters are wrapped according to the
options (`setup`), as `Defaults.apply` does it: `DataAdapter`, `ResultsAdapter`,
`DropdownAdapter` and `SelectionAdapter` are the sets of their decorators. A term is
a member of a small set with its length, the items that contain it and the item it
would be as a tag. **Placement** is `_positionDropdown`. **Select2Search** is the
ajax adapter and infinite scrolling: `timer`, `request` and `flying` are the question
the delay holds back, the request the adapter would abort, and those the server works
on. **AmdLoader** is almond; `stack` holds the calls of `main` in progress.

**GrammarPage** puts them on one page. They share nothing, so the state space is their
sum and not their product: a behaviour follows one of them (`onPage`).


## 3. Properties and runs

Each module has a type invariant, which holds in its runs and is not listed in them;
some of them are proved (section 5).

Deadlock is checked in every run but those of the grammar pages and of the internship
workspaces: `Stay` (a stutter) is allowed only in the states in which the modelled program
has really come to its end.

### Non-blocking socket

| run | result | properties | constants |
|---|---|---|---|
| `socket_exchange` | holds | `RequestsConserved`, `RepliesConserved`, `TestFinishes`, `ImplementsService` | 2 items and "end_test"; two simulators, each may be killed anywhere; room for 6 tokens to the server and 12 back; whole sends |
| `socket_half_send` | violated | `EntireMessageSent` | 3 items, one simulator that is not killed; room for 5, and `poll` reports the socket writable with 1 free: sends are cut |

`RequestsConserved` and `RepliesConserved` lay everything that is on its way end
to end (mailbox, remainder, connection, truncated text, queue, saved text) and
compare it with what was put in at one end: a byte lost, doubled or overtaken
anywhere violates it, one of a killed client that the server kept for the next as well.
`TestFinishes`: every test ends whose simulator and server live, one that follows a killed
simulator too. `ImplementsService` is the refinement of `RequestReply`, liveness included;
there a simulator or server that died (`Lost`) ends the promise to answer, and the next
simulation (`Again`) starts from nothing.

The two kinds of link follow the kernel: a real send buffer is far larger than
an item, and `poll` reports a socket writable only with much free room, so sends
are whole (`PollOutMin` at least the length of an item: `socket_exchange`). The comment
of `do_send` and the loop of `send_to_remote` nevertheless provide for partial sends;
`socket_half_send` takes them at their word.

What the violated run shows, and what another choice of constants would:

* `socket_half_send`: `send_to_remote` compares the result of the last send with
  the length of what *remains*. A send that takes exactly half ends the loop with
  the other half unsent ("exit loop when entire message was sent", line 136).
* with too little room for both directions (`ToServerRoom = 3`, `ToClientRoom = 2`,
  `PollOutMin = 3`, `ItemCount = 4`) `TestFinishes` fails: `send_data` calls `consume_time` for the error -1 and not
  for 1, "would block". When both directions are full it polls for ever in C, and
  the thread that could empty the other direction never runs.

SystemVerilog lets forked threads start in any order. Were the receive thread to
receive the last reply before `recv_from_remote` waits for its event, the event would
be lost and the test would not end (`InForkOrder = FALSE` shows it with
`TestFinishes`). Simulators commonly start them in the order of the fork, with which
it cannot happen, and all runs assume that (`InForkOrder = TRUE`).

Bounds. Two items and "end_test" give a second item behind the first, a message
of several items, one cut anywhere, and the end. A room of 6 holds two framed
items; a `BufferSize` of 5 is less than two, so that a receive may cut an item.
Two sessions are enough for text or replies of one client to reach another.
Commands are "div" and "nop", numbers 1 to 4: a "div" is answered with several
replies and a "nop" with none.

### FIFO protection

| run | result | properties | constants |
|---|---|---|---|
| `objection` | holds | `CountsExactly`, `NeverOverflows`, `NoLostWakeup`, `ServedWhenEnough`, `ImplementsPool` | 2 FIFOs, 2 threads, counts 1 and 2, limit 2 |
| `semaphore` | holds | `KeysConserved`, `AllFreeIsExact`, `EveryLockServed`, `ImplementsPool` | the same, limits 2 and 3 |

`CountsExactly` and `KeysConserved` join the class to the world: the count of the
objection, or limit minus keys, is what the users have locked, stored and not yet
freed. `NoLostWakeup`: a thread sleeps in `lock` only while its slots are missing.
`ServedWhenEnough` is as much liveness as the objections give: a woken thread gets
its slots unless another has taken them. With semaphores every lock is served
(`EveryLockServed`), unless `try_lock` overtakes it for ever; with objections a
thread that wants many slots may starve.

Two threads and two counts are enough for two waiters woken by one drop of which
one must sleep again, for a big request behind and before a small one, and for a
FIFO whose neighbour is busy. What these runs show for two threads is proved for
any number (section 5).

### Register model bench

| run | result | properties | constants |
|---|---|---|---|
| `register_access` | holds | `NoRequestLost`, `MirrorExact`, `ImplementsRegisters` | 2 threads, 2 registers, data 0 and 1, 3 accesses each; driver responds, with and without the handshake component, or one thread and the handshake component alone |
| `register_handshake` | violated | `AccessesReturn` | handshake component alone, 2 threads |

`ImplementsRegisters`: the whole bench is a set of atomic registers: each access
takes effect once between its call and its return, a read returns what the
register held then, and each access returns. An access is in effect when the
register file has sampled it; the history `effect` remembers what it did.
`NoRequestLost`: no request meets the register file while it answers another.
`MirrorExact`: the mirrored value of a register nobody accesses is its value.

`register_handshake`: the handshake component gives the item it was handed the id
of `seqr.last_req()`. `item_done` comes before the response, so the sequencer may
have sent another thread's request by then: it is answered with the wrong data,
and the first thread waits for ever. With a single thread the component is right.

Three accesses per thread let a late response of one access meet the next, and
the one after it. Two registers: accesses of one register exclude each other (the
register model locks it), those of two overlap.

### Stimuli: blocking call and coverage closure study

| run | result | properties | constants |
|---|---|---|---|
| `stimuli` | holds | `OwnAnswer`, `ServerCallsEnd`, `ServerFreed`, `RandomizeSucceeds`, `WindowFilled`, `ChosenOnTheFly` | both blocking examples, their six calls, the real limit of 5 attempts, host known or not, up to 2 deaths of the server; 6 packets, delays up to 3, a window of 8; either sequence, every choice and every plan |

`OwnAnswer`: a repeated call, or one made while the server still has the last
connection, never gets the answer to another. `ServerCallsEnd` (`CallsEnd` of
`BlockingCall`, for a test that calls the server): the testbench comes to its end whatever happens to the server; in the e example only if the host is known
and the errors come to an end. `ServerFreed`: the server does not stay
with a client that has left.

Why the e example needs more: in it the thrown codes are string literals, so
`catch(int)` never takes them and `catch(...)` leaves both the loop's condition
and the count of attempts alone. Without a server the call never ends, although the
comment there promises that it gives up.

`RandomizeSucceeds`: whatever delays have been chosen so far, the constraints for the next one
can be satisfied, which is what the assertion in the code tells only for one seed.
`WindowFilled`: after the last packet the window is used up. `ChosenOnTheFly` is the
refinement: no plan that could be made up-front is excluded by `min_delay` and
`available_window_delay`. The window leaves room on either side, so that each of the
constraints is the binding one somewhere. A sequence ends with its last packet
(`SequenceDone`); were no delay legal before that, the run would end in a deadlock.

### Pipelines

| run | result | properties | constants |
|---|---|---|---|
| `pipelines` | holds | `VerdictExact`, `BuildsEnd` | 2 builds of one job, any of the four pipelines, all executors on `amun`, 3 of them |

`VerdictExact`: verified means that every stage ended well or was waived, rejected that
one failed, whatever was skipped and in whatever order parallel stages ended; a build
that is "unstable" gets no vote.
`BuildsEnd`: every build ends. It needs one executor of `amun` more than there are
builds at a time: with two builds and two executors both hold one (`agent any`) and
wait for another one for their regression, for ever (`AmunExecutors = 2` ends in a
deadlock). Two builds are enough for the lock and the executors to be contended.

| run | result | properties | constants |
|---|---|---|---|
| `internship_workspace` | holds | `CheckedAlone`, `BaseKept` | 3 changes, 4 builds, 2 workspaces, a branch of 3 commits, up to 2 deaths |

Changes are exchangeable, and so are workspaces (symmetry); the run has no liveness.
`CheckedAlone`: a build checks its change on commits of the branch alone, whatever
failed, conflicted or was aborted before it; each build that died can leave one change
more under it, and does (with a bound of 0 in place of `deaths` the run fails). It speaks
of builds after the first, which votes on the branch without its change. `BaseKept`: `git
reset --hard HEAD^` takes away a commit of the branch when nothing was picked, which the
pull after it makes good; only if it fails is a later change checked on a branch older
than the one pulled last, by one commit for each such build. Four builds let two die, or
fail and not pull, before a third one checks. A build after the last commit of the branch
has been taken away finds no `HEAD^`: three commits are few enough for that. Deadlock is
not checked, since the job stops at `MaxBuilds`.

### Grammar pages

| run | result | properties | constants |
|---|---|---|---|
| `page_widgets` | holds | `ModalSettled`, `TipFollows`, `CarouselSettled`, `ControlsSettled`, `FactoryOnce`, `DepsFirst`, `SelectionShown`, `MarksCurrent`, `HandlersMatch`, `ListAnswersBox`, `AtMostMaximum` | below |
| `select_maximum` | violated | `OnlySelectMaximum` | below; one setting of the control: `closeOnSelect` = false, room for one choice |
| `select2_search` | holds | `PagesInOrder`, `LoadingEnds`, `ImplementsFresh` | 4 terms with 0, 2 or 3 pages, 7 questions, with and without a delay |

The widgets share one form of property: once no callback, timer or event is awaited,
what is on the screen agrees with what the plugin's flags say. `ModalSettled`: the
dialog, at most one backdrop, the class that stops the page from scrolling, and the
handlers of the dialog are all there or all gone. `TipFollows`: the tip is in the
document exactly if the last thing the mouse did was to enter, through both delays,
the fades and the page's own mouseover handler. `CarouselSettled`: one active item at
any time, no click on an indicator left unserved, the indicator of the active item
lit, and no clock under the mouse. `ControlsSettled` has the panels (the headings and
the marks of `toc.js` tell which are open, an accordion has one), the tabs (one pane,
that of the active heading), the menus (one open), the scrollspy (the section the page
is scrolled to), the buttons (disabled only while loading; pressed as checked) and the
side on which Select2 puts its dropdown.

What they leave out is what the code does not give, and the history in the model tells it:

* a dialog shown or hidden again before its transitions are over (`hasty`) may leave a
  backdrop behind, since each callback looks at `isShown` and `$backdrop` as they are
  then; two tabs, or two headings of an accordion, clicked within one fade may leave
  two panes shown; a panel's heading clicked during its transition is marked by
  `toc.js` although nothing folds;
* `Tooltip.show` sets `hoverState` to null, so that the end of an earlier fade detaches
  a tip that was shown again;
* a slide of the carousel that begins between the end of another and its slid event
  has its indicator cleared or doubled (`overlapped`); a click on the active indicator
  restarts the clock although the mouse is on the carousel (`restarted`);
* the scrollspy takes a section at offset 0, other than the first, for one that does
  not exist (`!offsets[i + 1]`), so `Layouts` has none; and it keeps stale offsets until
  `refresh` is called (`processed`).

The control of Select2, between two inputs: `SelectionShown`, it shows the options that
are selected in the element; `MarksCurrent`, in its open list the selected items and no
others are marked, which decides whether a pick selects or takes back; `HandlersMatch`,
its class, its dropdown and its handlers on the body and the window come and go
together, although an opening triggers "open" twice and a closing may come when nothing
is open; `ListAnswersBox`, the list answers the text of the box; `AtMostMaximum`, where a
choice closes the control, no more choices than `maximumSelectionLength`. Their premises
name what breaks them:

* the limit on the choices is looked at only when the list is asked for (line 3639), and
  `select` checks nothing. A list that stays open after a pick is not asked for again, so
  with `closeOnSelect` = false the reader may pick past the maximum, and so may one who
  holds the control key (`ctrl`). `AtMostMaximum` promises nothing there;
  `select_maximum` shows the first case against the list's own message, "You can only
  select ... item" (line 4254);

* with `selectOnClose` and `closeOnSelect` together each closing selects and each
  selection closes, until the stack overflows (`RangeError`), as `StackLimit` shows;
* a script that prevents opening or closing meets `args.prevented = true` with no
  `args` (`trigger`, line 5163): a `TypeError`, and the listeners after it never run;
* a choice taken back with backspace puts its text in the box without asking for it,
  and a key that closed the control swallows the input after it (`unasked`);
* a script that sets values while the control is open leaves the marks as they were
  (`SetValue` is for a closed one);
* a script that prevents `unselect` lets backspace open the list of a full control as it was
  before the last choice, when there was room; with `selectOnClose` the closing that follows
  a choice chooses the highlighted item as well. Both are premises of `AtMostMaximum`, and
  came out of its proof;
* a control built anew while it was open leaves handlers of the old one on the window
  (`stray`).

`FactoryOnce`: no factory returns twice, however often its module is defined, required
or reached by others. `DepsFirst`: a factory is handed undefined only within a circle, or
after some call of the loader has thrown: almond never takes a module out of
`defining`, so one whose factory threw once is undefined for ever.

`PagesInOrder`: at no time does the list mix terms, skip a page or show one twice.
`LoadingEnds`: what loads ends loading or fails; after a failure ("TODO: Handle AJAX
errors", line 3332) the list says that it loads until the next question.
`ImplementsFresh` refines `FreshResults`: the list puts up only answers to the last
question, and every question ends. It does not hold when the box is emptied while a
delay runs: the question for the empty term is sent at once and leaves the timer, whose
answer comes later and replaces it; `Ask` leaves that out and the hazards list it.

Bounds. Three backdrops let a dialog leak two; two callbacks awaited at the same element
are what a user can make by acting during a transition, a third repeats the second.
Three items, panels, tabs, menus and sections are a first, a middle and a last one; five
graphs of three modules have a chain, a shared module, circles of two and three, and a
module that needs itself. Two options, one tag and four terms (none, short, long, the
text of a choice) tell apart what the adapters do with a term; twelve setups have each
option of the control on at least once, and those that act on each other together. Five
handlers and forty calls are above what any of them piles up but the endless recursion.
Seven questions are enough for three pages of one term, a change of term in between,
and a second round with whatever the first one left under way.

`CHECK_DEADLOCK FALSE` in all three: a page at rest waits for its reader for ever, and the
bounds on what he does stop him.


## 4. Fairness

Weak fairness throughout, each on something that is really scheduled:

* the operating system runs both processes (`ServerStep`, and the simulator's
  steps); nobody is obliged to kill or to restart a process, so neither has
  fairness;
* the simulator runs each thread that can run. A thread that never gives way keeps
  the others from being able to, which is how the spin above shows;
* a thread woken in `lock` is run; a semaphore serves its queue; for
  `EveryLockServed` the environment goes on: what was locked is pushed, popped and
  freed. Without that, a producer that locks and never pushes starves the others,
  by the meaning of the lock;
* the clock of the register bench does not stop; test threads need not start
  anything;
* Jenkins goes on with some build as long as one can go on, and the tools end; no more
  is needed, since a build takes finitely many steps;
* in the search the browser fires its timers and reports the end of every request, as an
  answer or a failure; the reader need not ask, scroll or close. The other runs of the
  pages have no liveness: a transition that never ends leaves its widget waiting, and the
  properties speak of widgets at rest;
* in the blocking example the client and the server are run; a dead server need
  not be started again.


## 5. Proofs

Eight modules hold proofs. `FifoObjectionProofs` and `FifoSemaphoreProofs` prove, for any set of FIFOs and
threads and any counts and limits, with no assumption but `FifoAssumption` (there
is a FIFO, counts are positive, limits are naturals):

| theorem | `FifoObjection` | `FifoSemaphore` |
|---|---|---|
| `TypeCorrect` | `[]TypeOK` | `[]TypeOK` |
| `CountsCorrect` / `KeysCorrect` | `[]CountsExactly` | `[]KeysConserved` |
| `OverflowFree` | `[]NeverOverflows` | `[]NeverOverflows` |
| `WakeupsCorrect` | `[]NoLostWakeup` | |
| `AllFreeCorrect` | `[]AllFreeIsExact` | `[]AllFreeIsExact` |
| `PoolImplemented` | refines `SlotPool` | refines `SlotPool` |

The argument. `TypeOK` is inductive by itself. With it `CountsExactly` is
inductive: `lock` raises by what `Reserve` adds, and only after it has looked
at the count in the same step, which is where cooperative scheduling counts; a
recheck that did not look again would break it. `KeysConserved` is inductive in the
same way: each `get` and `put` is matched by `Reserve` and `GiveBack`. That a FIFO
does not overflow follows from these and is not inductive alone: `stored` is bounded
by the limit only because `reserved`, `stored` and `taken` together are.
`NoLostWakeup` is inductive with `TypeOK`: slots grow only in `Free`, which leaves no
thread of that FIFO in "wait". `AllFreeIsExact` for the semaphore needs a lemma on
the loop: it counts up to the limit exactly if all keys are there. The refinement
takes each step to `Acquire`, `Release` or a stutter; the invariants supply the guards.

`NonBlockingSocketProofs` is about any number of items and sessions, any room in the
kernel's buffers and any size of the receive buffer. `TypeCorrect` needs no more;
`RequestsArrive` (`[]RequestsConserved`), `RepliesArrive` (`[]RepliesConserved`) and
`ServiceImplemented` (each step of the two processes is a step of `RequestReply` or a
stutter: the safety half of `ImplementsService`) have the hypothesis `WholeSends`, that
`poll` reports a socket writable only with room for a whole item. `socket_half_send` shows
that without it text is lost; section 3 says why a kernel grants it.

* The invariant says what the stream holds. Between what the server works on and what the
  testbench still has there are always whole framed items, of which a beginning has already
  gone into `truncated_item` (`RequestsHeld`); between what the server has answered and what
  the testbench has got, whole framed replies, of which a beginning is in `msg_saved`
  (`RepliesHeld`). Wherever a receive cuts, what it took and what it leaves are again such a
  beginning and such a rest (`Cutting`). That nothing remains when the test ends needs that
  "end_test" is the last item and the last reply, and nothing like it comes before
  (`Ends`, `EndsLast`).
* The rest says which states go together (`Control`): a client is connected exactly while it
  runs its threads, a connection that was not accepted yet, or was taken down, carries
  nothing to the client, and the server has nothing of an earlier client when it accepts the
  next one. The last holds for two reasons: what a client that closed has sent is whole
  items, and the server receives all of it before it sees the end; and one that meets a
  reset, with text unread, dies. A server that went on would keep that text.
* `split`, framing and the answers are folds over sequences. One more token or text is one
  more step of the fold (`FoldOneMore`, `JoinedAppend`, `ScanAppend`), and what holds for
  every sequence is an induction without an operator parameter: the least length at which a
  fact fails would have a smaller one (`LeastOfSet`).

`RegisterBenchProofs` is about any threads, registers, data and number of accesses
(`RegAssumption`, `SetupAssumption`). `BenchTypeCorrect` and `RequestsTaken`
(`[]NoRequestLost`) hold in every setup, those the violated run is about as well. The
invariant `BenchInv` says which request each of the queue, the driver, the pins, the
register file and the monitor has, by the place it is at: `Pins` relates them at the clock
edge, while some processes have run and others not (`woken`); `Requests` makes the item of
the driver the access of the one thread in `finish_item`; `Collected` and `Predicted` say
that the monitor holds what the register file works on, and that no other mirrored value is
wrong. `MirrorCorrect` (`[]MirrorExact`) and `RegistersImplemented` (each step of the bench
is a step of `AtomicRegisters` or a stutter: the safety half of `ImplementsRegisters`) have a
hypothesis on the setups, `Served`: the driver responds, or no handshake component is there,
or one thread has the sequencer to itself. The run that expects a violation has none of
these, and there both would fail. Under it `Answers` is inductive: no response waits before
its thread does (`InTime`), the request that the register file answers has had its effect
and is the last one sent (`Effective`, `Current`), so that the id the component takes from
`seqr.last_req()` is the right one (`OwnResponse`).

`PipelinesProofs` proves, for any builds, pipelines and executors (`PipelineAssumption`),
`VerdictCorrect` (`[]VerdictExact`), the type, and two properties that no run lists since
they are part of the same invariant: `LockCorrect`, the lock is held by exactly the stage
that runs in its block, and `ExecutorsCorrect`, builds and regressions never take more
executors of `amun` than there are, which is counted by cardinalities. `VerdictExact`
needs to know why a stage was skipped: some stage of the build has failed (`Blamed`).

It also has the workspaces of the internship pipeline, for any changes, workspaces and
history of the branch, and any numbers of builds and deaths (`WorkspaceAssumption`):
`WorkspaceTypeCorrect`, `ChecksAlone` (`[]CheckedAlone`) and `BaseIsKept` (`[]BaseKept`).
Neither is inductive, since a verdict is about the log of one moment and the next build
starts from what the last one left. `WorkspaceInv` speaks of the base of each workspace: its
log, less the change while a build holds one on top (`Holding`, `InPlace`). The base has at
most one commit that is not of the branch for each death, and has the branch as it was at the
last pull, less what the cleanups have taken away since (`OnBranch`). Each git command keeps
this: the base gets shorter (`BaseShorter`), gets the change of a dead build on top
(`BaseLonger`), stays while the branch grows (`BaseStays`), or is rebased (`BaseRebased`).
For the rebase the local commits are listed in order, which is an induction on positions
(`Listed`).

`GrammarPageProofs` proves that each step of a page keeps `PageInv` (`PageKept`), and from it
all the invariants of `page_widgets` that are about the loader and the widgets: `FactoryRunsOnce`,
`DepsCorrect`, `ModalCorrect`, `TipCorrect`, `CarouselCorrect`, `ControlsCorrect`, for any
modules and dependencies (`DepGraphsAssumption`), any numbers of items, panels, tabs, menus,
sections and buttons, and any bounds on what is awaited (`PageAssumption`; that the panels
are finitely many is what `Awaited`, a sum over them, needs to be a number).

* The loader. `FactoryOnce` is not inductive: from a state in which a module that waits is
  defined as well, its factory would run again. The invariant adds that `ran` is 1 for the
  modules that are defined and 0 for the others (`Counted`), that none of them waits
  (`Apart`), that a module in progress is in `defining` and neither waits nor is defined
  (`InProgress`), and that no module is in progress twice (`OneCallEach`); the last is what
  makes `Return` count each one once, in circles too, where a module in progress is handed
  over as undefined and not entered. `DepsFirst` adds that a call in progress needs those
  above it on the stack (`Chain`), so that one who is handed over too soon needs the
  factory's own module, and that, while nothing has thrown, what was taken out of the
  waiting is in progress or done (`InFlight`). `Needs` is given by the sets closed under
  dependency, which makes it transitive without an induction.
* Dialog, tip, tabs and panels. The properties speak of a widget at rest; what is inductive
  tells what each callback awaited will make of it. A dialog that was not turned round is in
  one of six phases, `Off`, `On`, or one of the four transitions between them, and each of
  these awaits one callback, on the element and for the backdrop that it says. Tabs are
  steady or in one fade (`TabSteady`, `TabFading`). `PanelsAgree` takes each panel by
  itself, and says that at most one of an accordion is open or opening. A tip has the two
  delays beside its fades: `TipSound` says what a timer that runs knows of the last wish, and
  that without one the tip is as wished or a fade awaited will make it so. With at most two
  callbacks to a queue, what a transition's end does is unrolled. For a dialog, tabs or
  panels acted upon in haste the invariant claims nothing, their type neither, which TLC
  checks.
* The carousel. Between slides or in one there is one active item, and the one callback
  awaited moves it (`Poised`); while no slide has overtaken a slid event, the first of its
  handlers is the one that lights the indicator (`Lit`). The clicks that wait for the slid
  event are a queue of any length, folded by `Run`. What the fold makes is an induction over
  the queue, and the theorems of induction cannot be used (they have an operator for a
  parameter); but Nat is well-founded, so the shortest prefix of the queue whose handlers
  leave an unsound carousel would have a shorter one (`SlidFoldExists`, `SlidFold`,
  `SlidSound`).
* Menus, scrollspy, buttons, placement: the invariants are short (`MenuInv`, `SpyInv` with
  `Follows`, `ButtonInv`, `PlaceInv`) and say what the highlighted or disabled element is.

`Select2Proofs` has both halves of Select2. For the control on its page it proves
`SelectionCorrect`, `MarksCorrect`, `HandlersCorrect`, `ListCorrect` and `MaximumCorrect`, the
other five invariants of `page_widgets`, for any options and terms (`TermsAssumption`), any
settings (`SetupsAssumption`) and any bounds on the handlers and the stack. The properties
speak of a control at rest, but between two inputs any number of calls may wait on the agenda,
those of several listeners of several events. `ControlInv` tells what they can be and what
they still have to do, and each step keeps it (`SelectKept`):

* `CallsShaped`: the agenda is a few lists one after the other, each the listeners of one
  event in their order and without a gap (`Linked`); some calls are only made at once and
  some come last (`Before`).
* `Drawn`: what is shown is what is selected, but between a choice and its change event.
  `Handled`: how far the handlers are put on or taken off is told by the call that is next
  (`HalfOpen`, `Detached`). `Marked` and `Answering`: the marks and the list are right, or a
  call waits that sets them (`Fixing`), or the question itself waits. `Bounded`: an open list
  has items only where there is room for one more choice.
* There is one lemma for each call (`AttachKept` ... `ClearValueKept`), which takes the call
  from the top and puts its own before the rest (`Popped`, `Pushed`); one for each event and
  its listeners (`OpenTriggered` ...), for which the sequences the decorators put together
  are spelled out (`OpenList` ...); and one for each input, which finds no call waiting
  (`BegunKept`). What a filter keeps of a sequence is an induction on its length
  (`KeptFacts`); the crossing out of all choices builds a list as long as the selection
  (`ClearChoicesKept`).

For the search it proves, for any terms, any server and any number of questions
(`SearchAssumption`), `PagesAlwaysInOrder`, `ListFreshAtRest` (when nothing is awaited and
nothing failed, the list is all that was asked last) and `FreshStepsImplemented`, the safety
half of `ImplementsFresh`. The heart of the invariant is `OneUnderWay`: at most one question is
under way, by timer or by request, and it is the one asked last. It holds because `Fetch`
aborts the request and replaces the timer, and for a question that is sent at once (`delay`
unset, or the empty term) because there is no timer then; this is where the case left out
above would break it. `ListTold` gives that a list still loading asks for no further page, so
that the answer that comes is the page after those listed (`ListHolds`).

`StimuliProofs` has the two examples of stimuli from elsewhere and of delays. For
`BlockingCall` it proves `AnswersAreOwn`, `Spec => []OwnAnswer`, with the type, for any
limit of attempts and any number of deaths of the server (`CallAssumption`). The calls of
a testbench are six, as in the code. `OwnAnswer` is not inductive: it rests on what is on
its way to the client. `OwnConnection` says that every connection which is not closed is
the client's own and the last one, and that only in it a request waits, the one of this
call; `OwnReply`, that an answer to be read is the one to this request, or the end of a
connection that a crash has taken. They hold because an attempt that fails closes its
connection before the next one, and because `read` returns before anything else is asked;
`InService` is what the server's steps need, the connection they work on.

For `OnTheFly` it proves the type, `ChoiceSucceeds` (`[]RandomizeSucceeds`) and `WindowIsFilled`
(`[]WindowFilled`) for any number of packets, any greatest delay and any window that some
delays fill (`WindowAssumption`; without it neither sequence has a solution). The
invariant is `Fits`: what is left of the window is no more than the packets to come may
wait. `min_delay` is what keeps it, `available_window_delay` keeps what is left from
getting negative, and with both there is always a choice. When no packet is left there is
no room, so nothing of the window is. That plans are not excluded stays with TLC.

Only model-checked:

* liveness (`ServedWhenEnough`, `EveryLockServed`, `TestFinishes`, `ServerCallsEnd`,
  `ServerFreed`, `AccessesReturn`, `BuildsEnd`, `LoadingEnds`) and the liveness halves of the
  refinements (`ImplementsService`, `ImplementsRegisters`, `ImplementsFresh`): the prover
  has no rules for fairness;
* `ChosenOnTheFly`, which needs the sum of a plan.


## 6. What is left out, and why

* **Socket.** Errors of `poll` and connections that queue behind another one in the
  kernel. The server never times out, so it has no clock.
* **FIFO protection.** `init_protection` and the object's creation are the initial
  state. A `free` of more than was locked, a count of 0 or less, and a second
  `init_protection` are uses the class is not made for. `dump` only prints.
* **Register bench.** The initial reset (the model starts after it), a reset during
  an access, which the bench never makes, addresses without a register, and
  `amiq_smmi_seq_lib`, which no test starts. With neither response the first access
  waits for ever: this is what the example is there to show and needs no search.
* **Blocking call.** Messages are shorter than a segment and are read whole; the
  threads that drive the values received, and the race of the two `initial` blocks at time 0,
  are left out.
* **Grammar pages.** Of `bootstrap.js` the plugins affix, alert and popover, where a
  tooltip is put, and listeners that prevent an event of a modal or a carousel; of
  `select2.js` option groups and data arrays, the tokenizer, translations, the table of
  diacritics, the compat modules and the HTML that is built; of the loader plugins and
  the names `require`, `exports` and `module`; JSONP requests, which cannot be aborted.
  Of the control's keyboard: the keyup of a key that opened the control and reaches the
  search box, and that of a key the control does not use (Shift, Tab), may ask for the list
  again, and the keyup still comes after a `TypeError` in its keydown; each only repeats a
  question or comes in a state the properties exclude. `ClearChoices` is for a control with
  a placeholder: without one line 1721 throws.
  `jquery.js` is minified, and modelled only by what its events and element data do.
  The handler that goes to the chosen entry sets `window.location` and keeps no state.
* **Comparators.** As written, `search_q` is declared as a single transaction and
  used as a queue, so the two files have no meaning to a simulator.
* **Pipelines.** Which commit message a waiver is read from, and the mail. Files that git
  does not track.
* **The snippets** declare covergroups and constraints, or compute one value from
  another; their meaning is that of the language. Regression scripts format what a tool reports.


## 7. Plan

Done, in this order: the socket (its data and its two processes first), the FIFO
protection with its proofs, the register bench, the blocking call, the pipelines, the
grammar pages (loader with its proof, search with its proof, widgets, control), the proof
of the blocking call, the workspaces of the internship pipeline, the delays of the
coverage closure study with their proof, the proofs of the register bench, of the
pipelines, of the widgets, of the socket, of the workspaces and of the Select2 control.

What could follow:

1. `Comparator`: both comparators under the reading that `search_q` names the queue
   it is assigned, against an abstract comparison of two bags.
2. A `Pipelines` whose internship kind is `InternshipWorkspace` stage by stage.
3. `SmmiAgent`: the parameterizable agent, driver against monitor.
4. Select2 with option groups and the tokenizer; affix and alert of Bootstrap.
5. Proofs: `ChosenOnTheFly`, with the sum of a plan as a function. The two proof modules of
   the FIFO protection have the same argument and could be one.
