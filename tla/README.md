# A formal model of scpi-parser

TLA+ specifications of this repository: the SCPI parser library
`libscpi/`, the ESP32-S3 firmware `esp32s3_scpi_async/` that reads SCPI
commands over USB and Ethernet, and the TCP and VXI-11 servers of the
examples. TLC checks every property on small instances;
TLAPS proves the safety properties of the status and error reporting, of the
heap of error texts, of the input buffer, of the responses, of the VXI-11
server, of the firmware's tasks and of its network configuration for all values
of the constants. Paths below are relative to the repository's source (`src/`).

    tlc -config StatusReporting.cfg MCStatusReporting      # a run, see "Runs"
    tlapm FirmwareTasksProofs.tla                          # the proofs of a component

## The system

### The library

One `scpi_t` context serves one instrument. The transport calls `SCPI_Input`
with the bytes it received; the library calls back through `scpi_interface_t`
(`write`, `error`, `control`, `flush`, `reset`) and through the callbacks of
the command table. Nothing in the library is concurrent: hard are the long
sequences of legal calls, the copies of one fact in several places, the
buffers at their limits, and input cut at any byte.

| component | code | state | operations | correct when |
|---|---|---|---|---|
| error queue | `fifo.c`, `error.c` | ring buffer `error_queue` | push (with overflow), pop, clear | errors come out in order, a lost one leaves -350 in its place, the instrument's indicator agrees with the queue |
| status registers | `ieee488.c`, `minimal.c` | `registers[]` | `SCPI_RegSet` and its cascade; `*CLS`, `*ESE`, `*ESR?`, `*OPC`, `*SRE`, `STATus:` commands | summary bits, the SRQ bit and service requests follow from events and enables; no event is lost |
| error information heap | `utils.c` 765-904 | character ring, write index, free count | duplicate a text, read it, free the oldest or the newest | each error keeps its text, no cell is leaked or given twice |
| input buffer, framing | `parser.c` `SCPI_Input`, `lexer.c` | buffer and its position | pieces, overrun, timeout | every message is executed once and whole, however it is cut |
| compound headers | `utils.c` `composeCompoundCommand`, `parser.c` `SCPI_Parse` | the message buffer, edited in place; `cmd_prev` | one unit of a message | a relative header means what follows the previous command's path |
| command processing | `parser.c` | counters and flags of the context, output | parameters, results, blocks, errors, return of a callback | the response is well formed, failures are reported |
| lexer | `lexer.c` | position in the text | one recogniser per token | tokens end where IEEE 488.2 ends them |
| pattern matching | `utils.c` 347-669 | none | match a header with a pattern | a header matches when some reading of the pattern spells it, and the numbers behind its words come in the places of their keywords |
| expression lists | `expression.c` | none | the n-th entry of a numeric or channel list | asking for entry after entry reads the list in order, and stops at what is malformed |
| typed parameters, texts, blocks | `parser.c` 530-1742 | counters of the response | one function per type | what was written reads back; a failure leaves an error |
| units, special numbers | `units.c` | none | a number with a unit | a number reads back in the unit it was printed in; the text keeps to its buffer |
| number formatting | `utils.c` 72-420 | none | integers and floats to text | what is written as a result reads back as a parameter |

The error queue raises and lowers bit QMA of the status byte; an error sets
bits of ESR; the heap is called in the order the error queue fills and drains;
the framing hands messages to `SCPI_Parse`, whose units reach the command
table over the composed header and run as callbacks.

### The firmware

`main.cpp` does not use the library: it has its own line reader and commands.
FreeRTOS tasks `taskSerial`, `taskEthernet`, `taskEncoder` and `taskOled` run
on two cores and share the port expanders, the display, a console of past
commands, the last error, counters and the network configuration. Two mutexes
guard part of that; the rest, the whole network configuration included, is
shared with no lock. Hard are the interleavings, and a power failure between
any two writes to flash.

| component | code | state | correct when |
|---|---|---|---|
| tasks | `main.cpp` 120-275, 420-840, 1028-1135 | mutexes, console, `lastError`, `overflowCount`, expander registers | no update is lost, nothing is drawn half-changed, no task waits for ever |
| network configuration | `main.cpp` 277-360, 640-740, 810-1060 | `cfg*`, flash, what the W5500 uses, `netRestartRequest`, the menu | the three copies agree when the handlers have returned, after a power cycle too |
| line receiver, TCP client | `main.cpp` 367-395, 819-850, 1005-1059 | line buffers, client | overlong lines are dropped to their end, reconnects do not mix lines, what arrives is read |
| line parsing | `main.cpp` 156-340, 676-694, 786-796 | none | each command gets the words written for it |

### Examples

`test-tcp`, `test-tcp-srq`, `test-LwIP-netconn` and `test-vxi11` show how a
transport drives the library. Each has state of its own: sockets and the
loop around `select`, an event queue, one output buffer with the MAV bit that
tells of it. Hard are connections that are replaced in the middle of a
message, answers nobody fetched, and the input buffer of the library that
outlives a connection. The other examples are command tables.

## Modules

| module | models | state and actions |
|---|---|---|
| `ErrorQueue` | what the error queue promises: a bounded sequence whose last place becomes the overflow mark | `Push`, `Pop`, `Clear` |
| `Fifo` | `fifo.c` as operators on `[wr, rd, count, data]` | one operator per function |
| `StatusRegisters` | `SCPI_RegSet` as operators: what a write makes of the registers and which service requests it sends | `SetStatusByte` (STB, SRE), `SetEvent`, `SetCondition`, `RegSet` |
| `StatusReporting` | error queue + registers + the `error` and `control` callbacks; EXTENDS the two above | one action per library call or command that changes a register or the queue: `ErrorPush`, `ErrorClear`, `CoreCls`, `CoreEsrQ`, `StatusPreset`, ... |
| `StatusReportingProofs` | the proofs of `StatusReporting` | |
| `TextHeap` | the heap of `utils.c` in cells, and what it keeps true of the errors whose texts it holds | operators on `[data, wr, count]` |
| `ErrorInfoHeap` | the heap driven by the queue as `error.c` and `minimal.c` call it; EXTENDS `TextHeap` | `ErrorPush`, `ErrorPop`, `ErrorRead`, `ErrorClear` |
| `ErrorInfoHeapProofs` | the proofs of `ErrorInfoHeap` | |
| `InputBuffer` | `SCPI_Input`, its scan loop, `SCPI_Parse`'s loop, and the scanner of a program message unit | `Collect`, `Overrun`, `Timeout`, `ScanUnit`, `ParseUnit` |
| `InputBufferProofs` | the proofs of `InputBuffer` | |
| `CompoundCommand` | headers composed in the message buffer | `ParseUnit` |
| `ProgramMessage` | one `SCPI_Parse` call with arbitrary callbacks | `Parse`, `BeginCommand`, `BadUnit`, `Parameter`, `Complain`, `Result`, `BlockHeader`, `BlockData`, `Return`, `EndMessage` |
| `ResponseMessage` | what a response is to be: the answers, separated; `ProgramMessage` EXTENDS it | |
| `ProgramMessageProofs` | the proofs of `ProgramMessage` | |
| `RegisterGroups` | `SCPI_RegSet` as the loop over tables, with an instrument's own groups and their transition filters | `ConditionChanges`, `EnableWritten`, `FilterWritten`, `EventRead`, `CoreCls` |
| `Lexer` | the recognisers of `lexer.c`, and the grammar they are checked against | operators |
| `CommandMatch` | `matchCommand` and its helpers, and the readings of a pattern | operators |
| `Expressions` | entries of numeric and channel lists | operators |
| `Numerals` | integers to text and back, at a width | operators |
| `Texts` | `SCPI_ResultText`, `SCPI_ResultError`, `SCPI_ParamCopyText` | operators |
| `Blocks` | blocks and arrays of results, and the recogniser of blocks | operators |
| `Parameters` | the typed `SCPI_Param` functions on program data | operators |
| `Units` | the table of units, `SCPI_NumberToStr` | operators |
| `FirmwareTasks` | the reader tasks and `taskOled`; a handler is the sequence of its accesses to shared data | one action per kind of access, `Take`/`Give` for the mutexes |
| `FirmwareTasksProofs`, `NetConfigProofs` | the proofs of `FirmwareTasks` and `NetConfig` | |
| `ListProofs` | lemmas the other proof modules share: induction up to a number, recursive functions, lists of steps | |
| `NetConfig` | the network configuration under three tasks and power failures | one action per access, `SerialLine`, `EthernetPass`, `EncoderTurn`, `EncoderButton`, `PowerCycle` |
| `EthernetLines` | sockets, client and line buffer of `taskEthernet` | `Connect`, `Arrive`, `Disconnect`, `RequestRestart`; the task: `ServeRestart`, `AcceptClient`, `ServeClient`, `ReadChar`, `EndRead`, `HandleLine` |
| `CommandLine` | how the firmware takes a line apart into commands, words and pins | operators |
| `OutputBuffer` | the output buffer of the VXI-11 example and what its answers are to be | |
| `Vxi11Server` | the VXI-11 example; EXTENDS `OutputBuffer`, `StatusRegisters` | `DeviceWrite`, `DeviceRead` |
| `Vxi11ServerProofs` | the proofs of `Vxi11Server` | |
| `TcpServer` | the TCP example with service requests | `Connect`, `Arrive`, `End`; the loop: `WaitServer`, `Timeout`, `ProcessIoListen`, `ProcessIo` |

The `MC*` modules give the constants their values. `MCLibrary` and
`MCTransports` are sums: a behaviour is chosen at the start to be one input of
one algorithm, or a behaviour of one of the components they instantiate, and
everything else stays as it was initialised. What they claim of the heap, of
the responses and of the VXI-11 answers stands in modules they EXTEND
(`TextHeap`, `ResponseMessage`, `OutputBuffer`), so that the runs check and the
proofs prove one and the same definition. Definitions whose comment
calls them a mutant or a seeded fault belong to no specification: each states a plausible
bug with which a property of the module fails.

Correspondence, where it is not plain:

* A register is the set of its bits that are one. `StatusRegisters` has the
  groups built without `USE_CUSTOM_REGISTERS`, as an unrolled cascade without
  recursion, which the proofs need; `RegisterGroups` has the loop and the
  tables, and `LoopIsCascade` checks that the two agree on the built-in groups. `notified`
  and `control` are what the last step passed to the instrument; `indicator` and
  `staleSummary` are history variables that only properties read. A call runs to
  its end in its caller's thread and so is one step.
* `ErrorInfoHeap` abstracts the error queue to the sequence that `ErrorQueue`
  promises. `SYSTem:ERRor?` is two steps, `ErrorPop` and `ErrorRead`, because
  it writes in between and the write callback may push an error
  (`examples/test-vxi11`).
* In `InputBuffer` a byte is its place in what the controller sends, so that
  properties can tell bytes apart; `Text` gives the classes the scanner sees.
  The classes are those the framing tells apart: letter, blank, quote, comma,
  semicolon, the two terminators, the `#` that a block starts with and the
  digits, each for itself, as they count the digits of a block's length and
  the length counts its bytes. So a piece may end behind the `#`, between the
  digits, in front of the data and inside them, and a `#` may start no block
  at all. Expressions, other numbers than digits and single quotes are left to
  `Lexer`.
* In `ProgramMessage` a callback is any sequence of library calls; that covers
  every command table. Values are tokens. The ghosts `answers`, `answer`,
  `block` and `mishap` remember what the queries meant to answer.
* In `FirmwareTasks`, what a handler prints to its own stream is left out, a
  read or write of data nothing depends on is a `Touch`, and a command that
  only differs from another in such data is represented by it. `wanted`,
  `overlong`, `raised` and the serial numbers of console texts are ghosts.
  The pin read and the write-back of the expander library
  (a vendored dependency) are external.
* In `NetConfig`, `Preferences` is external: `begin` on an open object is
  refused and `put` on a closed one does nothing. The octets of an address
  and the outcome of DHCP are abstracted, and the clients and line buffers
  that `initW5500` resets are left out. The console texts of the handlers
  are in `FirmwareTasks`.
* The pure algorithms are operators with the function's name where it has
  one. A text is a sequence of characters with one character for each class
  the code tells apart; letters stand for either case. Below the line in each
  module is what the result is compared with: a grammar, all spellings of a
  pattern, or the value that was written.
* In `EthernetLines` and `TcpServer` a byte is its connection and its place
  there, so that properties can tell a lost, doubled or misplaced byte. The
  W5500's sockets are modelled as the Ethernet library drives them: a socket
  closes, listens again and may come up with another connection between two
  accesses of the task.
* In `Vxi11Server` a message is a sequence of units, each with what its
  callback writes and returns. The calls come from one thread.

## Runs

Every run checks the module's type invariant with the properties named. The
properties of `library` and `transports` are conjunctions of named parts, one part for
each promise, and each part has a seeded fault of its own that breaks it.

| run | shows | instance |
|---|---|---|
| `status_reporting` | SRQ, QMA and the summary bits agree with what they summarise; each new reason for service is announced, and only those; events stay latched; the queue implements `ErrorQueue` and no error is lost without the mark | queue of 2, one command error and -350 itself, two enable masks, three service masks, one OPERation bit |
| `input_buffer` | messages are executed once, whole and as sent over every cutting; a timeout or an overrun spoils no later message; both loops advance | buffer of 13, 325 scripts of two messages, one overrun, two timeouts |
| `library` | every algorithm that keeps no state, over all its inputs; the text heap: each text reads back as given, the free count is exact, texts lie back to back, free room is usable, a drained heap is as new; headers: composition overwrites nothing unread, and headers resolve after the last command found; callbacks: the response is the answers, delimited, with one new line, the result of `SCPI_Parse` tells whether it left an error, blocks do not overrun their header, unread parameters are reported; an instrument's own register group: events are the filtered transitions, summaries are current in every register, `*CLS` leaves no event | see below |
| `transports` | the firmware's lines: each is executed once or reported, what arrives is read; its command lines: handlers get the words that were written, none of them empty, and the pin that was meant; VXI-11: answers are whole, read or interrupted once, and announced by MAV and service requests; TCP: bytes stay in order, answers go to the connection that asked, half a message is executed after a silence | see below |
| `firmware_tasks` | the console is drawn whole, read-modify-writes under mutexes lose nothing, `SYST:ERR?` clears the error it read, mutexes are used as such, no line waits for ever | one line per reader out of 9 or an overlong one, 2 console lines, 2 pins of a port |
| `net_config` | configuration, flash and W5500 agree when handlers have returned; a configuration that stays takes effect | a field of two values and one of one value |
| `device_errors`, `torn_texts`, `number_text`, `compound_headers`, `unread_parameters`, `parser_mutex` | the findings below; each is a counterexample | as the run of the same module (`device_errors`: positive codes; `number_text`, `compound_headers` and `unread_parameters`: `library`) |

Why the bounds are enough:

* A queue of two has every relation of the two indices (equal and full, equal
  and empty, wrapped) and overflows. The rules for the QUEStionable group are
  the same table rows as for OPERation, so the run leaves its registers alone;
  the proofs cover all groups, sizes and values.
* Heap: 7 cells, a queue of 3, texts of 1 to 3 characters. Seven cells do not
  divide evenly by any size of a text with its zero, so texts end
  before, in and behind the last cell, and three of them overflow queue and heap
  separately.
* Every script has two messages, any one and one of a single command, so state
  one message leaves behind meets another. The buffer of 13 holds 12 bytes: every single message fits, with two
  units and a block or a text too (the longest has 12), so none is always lost to an
  overrun; most pairs that arrive in one piece do not fit. Blocks have no
  bytes, two, or three under a length of two digits, and their bytes are
  terminators, separators and quotes. A first message may start a block whose
  length is no number (`#0`, `#21a`); its execution is not judged, that of the
  next is. Two timeouts meet two halves of one message.
* Headers: all messages of up to 4 of 8 units. Callbacks: two units, two
  parameters, three calls and blocks of 2 bytes are the fewest with which
  every delimiter, block and leftover case occurs twice.
* Numbers, headers and lists: all texts of up to 6 characters over alphabets
  of one character per class; that has sign, point, exponent with and without
  digits, and blanks in every order. Patterns: all of up to 3 keywords, each
  optional or not and numbered or not, against all headers of up to 3 words.
  Integers: all values of 8 bits, in the 8-bit and the 16-bit function, in
  each base. Texts of up to 5 characters in buffers of 1 to 12; error texts
  in up to 3 parts, cut at 2 to 8. Blocks of 0 to 12 and of 99 to 101 bytes, where
  the length's length changes, whole and cut at every byte. The table of
  units is the code's.
* Registers: one group of two conditions with both filters, whose summary is a
  condition of OPERation beside one of the instrument's: two levels of cascade
  above it. The built-in loop is compared over 2048 register states.
* Transports: two sockets of the firmware, lines of two characters, three that
  fit or not, two connections and one restart; an output buffer of 5, answers
  that are empty, fit, are cut, or fail half-way, three messages; two TCP
  connections whose chunks hold several messages and end in half a one. Each
  has a first client whose leavings a second meets. Command lines: two words of up
  to two characters and a third that is one too many, or one word of up to
  four, bare and in either quotes, in four forms of a command; and any text
  behind a header, for the words it may yield.
* Of the firmware's handlers every pair that shares something meets; a second
  line per reader repeats the same meetings, because a task keeps no state
  of its own between lines. Two console lines are the fewest that tear.
* Saving and applying walk over the fields in order; two fields give each
  walk a middle, and one of them changing is enough for the walks to differ.

`CHECK_DEADLOCK FALSE` stands where the message or the script ends
(`MCLibrary`, `MCInputBuffer`) or the connections and messages of a behaviour are
used up (`MCTransports`).

### Fairness

Only the firmware and the TCP server have it. Each FreeRTOS task loops for ever with
a `vTaskDelay` in every pass, so a task that can move does
(`WF_vars(Step(t))`). A mutex wakes its waiter of the highest priority, the
longest waiting first, and its holder sleeps before it comes back, so a waiter
is not overtaken for ever (`SF_vars(Take(t))`). In `NetConfig`,
`taskEthernet` keeps passing its loop (`WF_vars(EthernetPass)`), and so it
does in `EthernetLines` (`WF_vars(TaskEthernet)`), where clients take what it
writes. The loop of `test-tcp-srq` waits in `select` for at most five seconds
(`WF_tcpVars(TcpLoop)`). Nothing is assumed of clients, lines, the encoder or the power.
The library's own progress is stated without fairness: `LoopsAdvance` says that each turn of its two loops
consumes input or is the last, which bounds the turns by the bytes received.

## Findings

* `device_errors`: the table of error classes gives the range 1..32767 as
  "Device designer provided specific error" (`libscpi/src/error.c:164`), but
  the comparison at `error.c:188` expects a range to run downwards. No
  positive error sets an ESR bit.
* `torn_texts`: a quoted text that holds a line feed is executed early and in
  two parts when a piece of input ends behind the line feed
  (`parser.c:345`, `lexer.c:693`).
* `number_text`: `SCPI_NumberToStr` into a buffer of `len` bytes writes
  `len + 1` when the name of the unit is cut (`units.c:505`): the second
  `strncat` does not count the blank written before. The comment at
  `units.c:473` gives `len` as the length "including null-character
  termination".
* `compound_headers`: composing a header that turns out to be undefined can
  overwrite the previous command's header, on which the next relative header
  is then based (`utils.c:710`).
* `unread_parameters`: parameters followed by a stray comma or by a block cut
  short are dropped whole (`parser.c:1418`), and a command that reads none of
  them succeeds, against the comment at `parser.c:160`.
* `parser_mutex`: the firmware's README (line 103) says that a mutex protects
  the SCPI parser; `main.cpp` has none around `handleOneCommand`.

Behaviour that the models reproduce, that surprises, and that no line of the
repository speaks against; where a property has to leave it out, its comment
says so:

* Status: a group without a parent register never gets an event, as the loop
  of `SCPI_RegSet` ends before it (`TablesAssumption`). Clearing a child group
  is a falling condition of its parent: were the parent's group to precede it
  in the table with a negative filter, `*CLS` would leave an event.
* Responses: a query that fails after it has written leaves its text in front
  of the next answer. A swapped array of no items, of an item size above one,
  is not counted as a result, so the next one is not delimited. An array
  parameter read after an element that failed still returns TRUE.
* Parameters: `SCPI_ParamInt32` and its kin take the integer prefix of `1.5`
  or `1E3` and fail with no error on `.1`; `SCPI_ParamNumber` fails with no
  error on a string, a block or an expression (`Silent` in `Parameters`; `FailuresTold`
  says that these are silent and no other). A number with
  a blank before its exponent is converted up to the blank.
  `SCPI_ParamCopyText` compares its place in the source with the size of the
  target, so a text with doubled quotes is cut earlier than it has to be.
  The ratios PCT and PPM are printed without a unit.
* Patterns: an optional numbered keyword that the header leaves out at its end
  leaves its place in the array of numbers unset; in the middle it gets the
  default (`NumbersAsWritten`).
* Lists: `(1,)` ends without an error as a numeric list, with one as a
  channel list.
* VXI-11: a query whose first write interrupts an answer is itself counted as
  failed, is not terminated and stays in front of the next answer
  (`AnswerIntact`).
* TCP: the connection that a new one replaces is not closed, and half a
  message of it is completed by the first bytes of the new one
  (`SeamsOnlyAtReplacement`).
* Firmware: a client that comes up on the socket of the one before, before
  `connected` is asked, is taken for it (`EveryLineOnce`). A semicolon ends a
  command in quotes too, empty words are not counted, brackets and `\n` at the
  end of a word are taken off it in quotes too, and words beyond
  `MAX_SCPI_PARAMS` are dropped (`WordsRead`). `parseIntStrict` takes an empty
  text for 0 (`main.cpp:193`), so `parseMcpPinRef` would address pin 0; no
  handler can pass one, as `parseParams` counts no empty word, which
  `OnlyWordsRead` checks of every line.

## Proofs

`StatusReportingProofs` proves, for every `Size \in Nat \ {0}`, every set of
non-zero error codes and all sets of register values
(`SizeAssumption`, `ErrorCodesAssumption`, `MasksAssumption`):

* `TypeCorrect`, `SrqTellsReason`, `QmaTellsErrors`, `IndicatorTellsErrors`:
  `TypeOK`, `SrqIffReason`, `QmaIffErrors`, `IndicatorMatchesQueue` hold in
  every reachable state;
* `QueueRefinement`: the specification implements `ErrorQueue`, with the
  contents of the ring buffer as the abstract queue.

The inductive invariant `IInv` is the conjunction of the four. Each needs the
others: whether a step sets QMA depends on the ring buffer's count, which
`TypeOK` ties to its indices (`IndicesAgree`); QMA is one of the reasons for
service that the SRQ bit must tell; and the indicator and QMA both stand for
the emptiness of the queue. The argument has three layers.

1. The ring buffer: each operation on the ring buffer keeps its indices in
   agreement and makes of `Contents` what the sequence operation says
   (append, tail, front, empty). The arithmetic of the indices modulo `Size`
   rests on one lemma, `ModWrap`.
2. One lemma per level of `SCPI_RegSet`'s cascade (`SetStatusByteStep`,
   `SetEventStep`, `SetConditionStep`, `RegSetStep`): whatever is written, the
   registers keep their type, the SRQ bit ends in agreement with the enabled
   reasons, and QMA is left alone unless STB itself is written.
   `AndThenStep` carries this over a sequence of calls.
3. One lemma per kind of action on top, put together in `StepIInv`.

`QueueStep` reuses layer 1 for the refinement: every action is a `Push`,
`Pop`, `Clear` or a stutter of the abstract queue.

The second half of the module goes on from there:

* `SummaryTellsEvents`: `SummaryCurrent`, by induction together with `IInv`;
* `RequestsTellReasons`, `LatchesHold`, `PushLeavesTrace`: the action
  properties `ServiceRequestedForReasons`, `EventsLatched`, `NoSilentLoss`.

Its lemmas follow the cascade a second time. For each level they say which
summary bits are up to date afterwards, which events were added, that the last
request carries the status byte the call leaves with an enabled reason in it
(`Truthful`), and that a call which adds a reason makes a request
(`Announced`). A sequence of calls keeps this only if the
calls behind the first take bits away or add them (`AndThenQuiet`,
`AndThenAdd`), which is what `SCPI_ErrorPushEx`, `SCPI_ErrorEmitEmpty` and
`*CLS` do.

### The heap of error texts

`ErrorInfoHeapProofs` proves, for every `HeapSize`, `QueueSize` and set of
non-empty texts without a NUL (`HeapAssumption`): `TypeCorrect`, and
`HeapStaysSound` (`HeapSound`: `TextsIntact`, `CountExact`, `BackToBack`, `RoomIsUsable`,
`DrainedIsFresh`).

The heap has no table of its blocks, so what makes it sound is a relation
between its cells and the queue. `Layout(h, s, b, p)` states it for the errors
`s`: with cell `b` as the origin, entry `i` takes the places from `p[i - 1]` up
to `p[i]`, where its text and the zero behind it stand; `wr` and `count` are at
place `p[Len(s)]`; every place from there on is zero; and `b` is 0 when nothing
is used. `Inv` says that a layout exists for the error being reported followed
by those in the queue. None of the five parts of `HeapSound` is inductive
without it: that a text survives `scpiheap_free` of another needs that they
take different cells, and that `scpiheap_get_parts` stops at the right zero
needs that the text stands there unbroken.

1. `RingFacts`, `SpanFacts`: cells and places, once around the ring.
2. One text: `PartsOf` (what `scpiheap_get_parts` finds, in one part or two),
   `ReadsBack`, `Clears` and `Writes` (which places `scpiheap_free` and
   `scpiheap_strndup` change).
3. The operations on a layout: `Stores` and `AddsNothing` add an entry,
   `FreesOldest` moves the origin past the first, `FreesYoungest` takes back
   the last. Freeing any other would break the layout, and the order in which
   `error.c` calls them is what the steps rest on: on overflow it rolls back the
   text just copied and then that of the entry it gives up (`PushStep`).
4. One lemma per action; `ClearStep` goes through the queue one free at a time.

Walking through a sequence is an induction, and the library's induction
theorems take an operator as a parameter. In `ListProofs`, `Least` gets the least element of a
set of numbers from `WFMin`, which does not, and `UpTo` is induction up to a
number for a set instead of a predicate, and `Recursion` says that a function
defined by recursion up to a number exists. With them `FreesInTurn` and
`AddsInTurn` say what the two uses of `FoldLeft` compute.

### The input buffer

`InputBufferProofs` proves, for every size of the buffer, every set of scripts, and any number of overruns and timeouts (`InputAssumption`,
`StreamsAssumption`: a stream is a sequence of characters, any sequence):
`TypeCorrect`, `UnitsOnce` (`ExecutedOnce`) and `TurnsConsume` (`LoopsAdvance`).

1. The scanner. One lemma for each recogniser says that it ends inside the text
   and not before it began (`SkipFacts`, `MnemonicEndFacts`, `NumberEndFacts`,
   `TextEndFacts`, `ValueFacts` of a block's length, `BlockEndFacts`,
   `ProgramDataFacts`); `UnitFacts` puts them together: a unit that is recorded
   is not empty and lies before its end, and every unit of a text that is not
   empty has an end behind the text's beginning.
   `AllProgramData` follows commas by recursion to places further on;
   `AllFromExists` builds the function it chooses from the end of the text
   backwards, one place at a time.
2. The bytes. `ExecutedOnce` is not inductive: a unit is taken from `message`,
   a copy of part of `buffer`, and nothing in the property says that the two
   hold later bytes than what was executed. `Framed` does: the buffer is the
   stretch of the stream received last, and the message is the rest of what
   `SCPI_Input` has scanned of it, or of all of it after a timeout. `Behind`
   says that executed units end before what is still to be parsed, and that
   lost bytes lie before the buffer.
3. One lemma per action. `OverrunStep` is where dropping the buffer and the new
   data together matters, `ParseUnitStep` where the parser's place in the
   message and the place where `SCPI_Input` goes on must meet.

`TurnsConsume` needs no more than the first layer and the types.

### Responses

`ProgramMessageProofs` proves, for messages of any number of units and
parameters, callbacks that make any number of calls, and blocks of any length
(`BoundsAssumption`):
`TypeCorrect`, `AnswersOnly` (`ResponseIsAnswers`: `ResponseWellFormed`,
`OneNewLine`, `BlockFits`), `ErrorsAreTold` (`ResultTellsErrors`) and the
action property `LeftoversTold` (`LeftoverReported`).

`ResponseWellFormed` speaks of the output between callbacks. What makes it
inductive is `Answered`, which says what the output is while one runs
(`Running`: the delimiter, and the values written so far joined by commas), and
ties the flags the library decides by to what they stand for: `output_count`
is positive exactly if the answer holds a value, a whole one
(`DelimiterDue`), and `first_output` is set exactly if no query has answered.
`BlockKept` says that what was announced of a block is what was written and what
remains, which bounds it; `ErrorsTold` that every error of the message is in
`result`, but for those of the running command, which are in `cmd_error` until
it returns.

`JoinedBy` is a recursive function. `JoinsInTurn` unfolds it, `FormattedMore`
says what one more answer adds to the response, and each of the library's calls
adds just what it is to add to the answer in work.

### The VXI-11 server

`Vxi11ServerProofs` proves, for output buffers of any size above one, messages
of any units that write any number of characters, and reads of any size
(`Vxi11Assumption`): `TypeCorrect`, `AnswersAreWhole` (`AnswersWhole`) and the
action property `AnswersAreAnnounced` (`AnswersAnnounced`).

The invariant adds `Kept` to the parts of `AnswersWhole`: unless a failed query
left text (`stray`), the buffer is the answer of one message cut at the buffer's
end if MAV is set, and is empty if it is not. Without the second half the
answer of the next message would begin behind something.

A message is one step of the model and any number of units, so most of the
proof is about what is true between two units:

* `Sound`: MAV is set exactly while the answer that waited has not been
  interrupted, and until then the buffer and the place of the reader are as they
  were;
* `Wrote`: without a mishap the buffer holds what was there, if it was not
  interrupted, followed by the part of the answer written so far, cut
  (`CutTwice`: what was left out stays left out when more is written);
* `Reached`: both, and `first_output` is set exactly while no query was answered.

`UnitDone` is one unit, from `BeginCommand` to `CheckSurplus`; `UnitsInTurn`
takes it through the message with `UpTo`, unfolding `Parse` and `AnswerTo` side
by side (both are recursive functions, whose values `Recursion` provides).
`StatusByteWritten` and `EventWritten` say what the cascade of `SCPI_RegSet` does to
MAV: writing STB sets it to what is written, and nothing else touches it.

### The firmware

In `FirmwareTasks` and `NetConfig` a task has a list of steps before it, and
another task may come between any two. What a task will do is therefore part
of the state, and the invariants speak of it: `Later(s, i, x)` says that `x`
comes behind place `i` of the list `s`, `Comes(s, i, A, B)` that a step of `A`
comes before any of `B`. `ListProofs` has what becomes of these when the
first step is taken and when two lists are joined, for lists of any length.

`FirmwareTasksProofs` proves, for every number of pins, console lines and lines
to read (`ConsoleLinesAssumption`, `MaxLinesAssumption`), and for all lines
whose commands are handlers on pins of the expander (`LinesAssumption`):
`TypeCorrect`, `NoUpdateLost` (`UpdatesKept`), `DrawnWhole`
(`ConsoleDrawnWhole`) and `FetchClearsItsOwn` (`FetchRemovesWhatItRead`). The
inductive invariant has seven parts:

| part | says | needed because |
|---|---|---|
| `Types` | types, and `chip = wanted`, `overflowCount = overlong` even while a mutex is held | |
| `Shapes` | every list is one the handlers can leave: mutexes are taken and given in pairs, what is read under a mutex is written before it is given back, pushes and clears go through the lines in order | the other parts speak of the next step of a list, and must hold of the step after it |
| `Holding` | a task holds a mutex exactly if its list gives it before it takes it | so two tasks are never inside at once |
| `PinKnown` | who will touch a pin has a command with a pin | the pin is looked up when the step is taken |
| `UpdatesSound` | what a task has read and is going to write back is still what is there | a stale copy would undo an update of the other task |
| `ConsoleSound` | the console holds consecutive texts, but for one line that a push has moved up and not yet overwritten | the console is torn while it scrolls |
| `CopySound` | what `taskOled` has copied so far is still what the console holds | it copies line by line, too |

That each handler of `Handlers` makes a list that fits is proved once per
handler (`Closed`); lists of lines are joined from these. A step of one task
spoils none of the promises of another, because the steps that could are in a
section of the same mutex, and `Holding` lets only one task be there.

`NetConfigProofs` proves, for every list of variables and every set of values
(`OrderAssumption`): `TypeCorrect`, `SettledIsApplied` (`AppliedWhenSettled`)
and `SettledIsSaved` (`SavedWhenSettled`). A state in the middle of a handler
has neither property; `ApplyPending` and `SavePending` say instead what is
still to come: a variable with which the W5500 does not run is in the editor, a
restart is requested, or some task has the request or its apply in its list;
and a variable that flash does not hold is in the editor or some task has its
put before it. This is inductive only with `Shapes`: who sets a variable saves
and requests behind it, who opens the preferences puts every variable, and who
clears the request applies every variable, so that a request that comes in the
middle is not lost. With all lists empty nothing is to come, and the two
properties follow.

### Model-checked only

* `MessagesAsSent`: that the units are those the controller meant, however the
  stream is cut. It is about the meaning of a script, which only its author
  states, and about what the scanner makes of a text that lacks its end.
* `UnreadIntact` and `HeadersResolve` of `CompoundCommand`, `EveryLineOnce` of
  `EthernetLines`, `MessagesInPlace` of `TcpServer`, and the type invariants of
  these three.
* What the runs check of `RegisterGroups`, `CommandLine`, `CommandMatch`,
  `Expressions`, `Lexer`, `Numerals` and `Texts` is about RECURSIVE operators,
  which TLAPS does not take; of `Blocks`, `Parameters` and `Units`, it is what
  their algorithms compute, which would need induction over data.
* Liveness: `LinesAreExecuted`, `ChangesTakeEffect`, `ArrivedIsRead` and those
  of `TcpServer` need ENABLED and fairness, which TLAPS does not reason about.

### Not covered by a property

No property is about four of the hazards that `PROJECT.json` lists, as what
happens is what the code does and no line of the repository promises
otherwise. All but the second are in the models:

* an enable register is written and the summary bit stays as it was
  (`ieee488.c:234`): `SummaryCurrent` and `SummariesCurrent` except it;
* two links toggle one pin of the ESP32 at once (`main.cpp:542`);
* two tasks save the configuration at once, through one `Preferences` object
  (`main.cpp:297`): `SavedWhenSettled` excepts it;
* the encoder's half-edited value is applied by another task's command
  (`main.cpp:873`): `AppliedWhenSettled` excepts it.

## Not modelled

* Floating point, which TLC does not compute with: the values of decimal
  parameters, `SCPI_DoubleToStr`, the multipliers of units beyond their
  names.
* The malloc variant of the error texts, the table of error messages, queries
  that only print a register.
* `test-LwIP-netconn`: its source does not compile (`processIo` is called with
  one argument too many, `closeIo` with one too few), so there is no
  behaviour to hold a model to.
* The firmware's encoder menu beyond the values it edits, the levels of the
  ESP32's own pins, which the handlers change with no lock, and what its status
  queries print.
* The control connection of `test-tcp-srq`, `test-tcp`, the other examples,
  generated XDR code, the vendored Arduino libraries (but for the sockets
  `EthernetLines` needs), build files.

## Plan

Built: the error and status reporting first, since everything else in the
library reports through it, then the buffers (heap, input, headers), command
processing, the firmware's shared state, the library's algorithms, the
transports, and the instrument's own registers.

Next: the composition of `TcpServer` with `InputBuffer` (now `TcpServer` has
messages that a line feed ends), the service requests of `StatusReporting` over
its control connection, and `test-tcp`.

Proofs to come: the type invariants of `EthernetLines` and `TcpServer`,
`EveryLineOnce`, `UnreadIntact` of `CompoundCommand`, and `MessagesAsSent`,
for which the scanner has to be shown to find the same units in a text and in
any continuation of it.
