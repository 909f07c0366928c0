# Verification of the OsciBear bring-up code

TLA+ models of the programs in this repository that carry protocol logic, with
TLC runs on small instances and TLAPS proofs for every instance.

OsciBear is a RISC-V test chip. The repository holds what was written to bring
it up: two adapters between a host's serial port and the chip's serial TileLink
bus (an STM32 firmware and an FPGA design), the host programs that use them, the
`fesvr` library with its host-target interface (HTIF), and test programs that
run on the chip.

## 1. Inventory

| Part | Where | State | Operations | What is hard | Correct when |
|---|---|---|---|---|---|
| STM32 adapter | `chip-sw-fa22/TileLinkTrafficAdapter-F446/Core` | `tl` (two frames, bit offsets, pending and finished flags), `frame_pending`, two serial buffers, three pins | `APP_main`, `HAL_UARTEx_RxEventCallback`, `TL_update` (timer interrupt), `TL_transmit`, `TL_serialize`, `TL_deserialize` | three contexts share `tl` without locks; DMA writes under the callback; the chip's clock does not wait | each request is performed once and answered with its own result |
| Host script | `chip-sw-fa22/tl_host.py` | one blocking request | `TL_Get`, `TL_PutFullData`, `memory_scan` | hangs, is killed and restarted by hand | a word written is the word read |
| FPGA adapter, chip to host | `chip-hw-fa22/TileLinkTrafficAdapter`: `tl_receiver.v`, `adapter_controller.v`, `traffic_adapter.v`, `fifo.v`, `uart_transmitter.v` | byte under reception, ready and valid registers, FIFO, UART phase | one clock cycle of all of them, reset | signals that are one or two cycles old when used; a one-cycle reset; registers without a reset value | bytes go out complete, in order, once |
| FPGA adapter, host to chip | `tl_transmitter.v`, `adapter_controller.v`, `uart_receiver.v` | packet length, byte and bit counters, ready and valid | as above | a one-bit length register, ready and done flags without reset values | a packet's bits reach the chip |
| HTIF host | `fesvr/fesvr/htif.cc`, `device.cc`, `syscall.cc`, `term.cc` | the command under work, the queue of replies, pending console reads, exit code, signal flag | `run`, `handle_command`, `dispatch`, `tick`, `handle_signal` | every access to the target's memory is a step of its own, the target runs on | a command is served and answered once; the exit code is the program's |
| Target runtime | `chip-sw-sp21/common/syscalls.c`, `crt.S`, `ee290c_devices.c` | `tohost`, `fromhost`, `magic_mem` on the stack, putchar's buffer | `putchar`, `syscall`, `exit`, trap entry, CLINT and PLIC helpers | interrupts anywhere; spin waits; 64-bit registers read and written in halves | prints come out in order and return; times are times that were; the timer rings once |
| HTIF memory and TSI | `memif.cc`, `tsi.cc`, `tsi_vcu118.cc` | two word queues | `read`, `write`, `read_chunk`, `write_chunk`, `tick` | read-modify-write against a running target; two queues moved independently | reads return what the target has, writes change nothing else |
| HTIF contexts | `context.cc`, `htif_pthread.cc` | a flag and a condition variable per context | `init`, `switch_to` | flags set outside the mutexes | exactly one context runs, no wake-up is lost |
| HTIF debug transport | `dtm.cc` | saved registers, `running`, request and response handshake | `halt`, `resume`, `run_abstract_command`, chunks, `tick` | an error path that goes on | the hart's registers are its own again after every access |
| proxyFESVR | `chip-sw-fa22/proxyFESVR/src` | two packet buffers | `serialize`, `deserialize`, `pollDriver` | 32-bit shifts, bit offsets, a poll without timeout | what is packed is what is unpacked |
| Chip test programs | `chip-sw-sp21`: `timer_test.c`, `aes`, `aes-baseband`, `baseband`, and the drivers `aes.h`, `baseband.h` | the accelerator's registers, blocks in memory, PLIC gateways, `done_status` | the modes of AES, `ble_send`, `plic_handler` | devices that work while the program polls or waits; a key kept between calls; chaining in place | the checks the programs print pass; they end |

How they interact: the host script talks to the firmware over a UART, 12 bytes
each way; the firmware talks to the chip bit by bit at the edges of a clock that
it generates itself with a timer. The FPGA adapter sits in the same place, with
`proxyFESVR` as its host. `htif_t::run` shares the two words `tohost` and
`fromhost` in the target's memory with the program on the chip, and reaches that
memory through `memif`, over TSI or the debug module.

Left aside: vendored libraries (the STM32 HAL and CMSIS, of which only the two
UART receive events are used), generated files (`Debug`, `*.runs`, `configure`,
`encoding.h`), disk images and scripts (`sdc-sw`, `uart`, `tapeout-sp21`), the
earlier FE310 version of the adapter (one loop, no interrupts) and
`LoopbackIOTest`, whose modules do not fit together.

## 2. Modules

| Module | What it is |
|---|---|
| `RemoteMemory` | abstract: one client, a memory, each request performed once |
| `StmAdapter` | host script, STM32 firmware and chip; implements `RemoteMemory` |
| `StmAdapterProofs` | its theorems |
| `ByteQueue` | abstract: a bounded queue |
| `FifoSize` | the parameters of `fifo.v` |
| `Fifo` | `fifo.v`; implements `ByteQueue` |
| `FpgaReceive` | chip-to-host half of the FPGA adapter, composed with `Fifo` as `tx_fifo` |
| `FpgaReceiveProofs` | the theorems of `Fifo` and `FpgaReceive` |
| `FpgaTransmit` | host-to-chip half of the FPGA adapter, composed with `Fifo` as `rx_fifo` |
| `HtifHost` | `htif_t::run` with its devices and the mailbox |
| `SyscallTarget` | program, interrupt handlers and runtime on the chip; extends `HtifHost` |
| `SyscallProofs` | its theorems |
| `Console` | printing as a program meets it: `syscall` in main and in a handler, with the host's loop |
| `Coroutine` | abstract: control is in one place and moves when it is given; also the ucontext build of `context.cc` |
| `Context` | the thread build of `context.cc`; implements `Coroutine` |
| `ContextProofs` | its theorems |
| `ByteMemory` | abstract: a memory of which ranges are read and written, beside a running target |
| `Tsi` | the word queues of `tsi.cc` and the target's serial adapter |
| `MemIf` | `memif.cc`; extends `Tsi`; implements `ByteMemory` |
| `MemIfProofs` | its theorems |
| `Dtm` | `dtm.cc` with a debug module and harts; implements `ByteMemory` |
| `DtmProofs` | its theorems |
| `Clint` | the timer, its driver and `timer_test.c` |
| `ClintProofs` | its theorems |
| `Aes` | `aes.h` on an external accelerator, and the modes' definitions |
| `AesBaseband` | the AES and AES-to-baseband programs; extends `Aes` and `Console` |
| `AesBasebandProofs` | its theorems |
| `MC...` | constants of the TLC runs |

### StmAdapter

Three contexts of the firmware interleave. The timer capture interrupt has
priority 0 and is the action `Edge` (`TL_update` preceded by what the chip's own
flip-flops do with the edge). The UART callback has a lower priority but is never
preempted by the main loop: `HalfEvent` and `IdleEvent`. `APP_main` is cut where
an interrupt can tell: one action per field of `TL_serialize`, one for each of
the three groups of assignments of `TL_transmit`, the wait, the reply. The
callback's fields are one step, because the only context that could see it
half-way is the timer interrupt, which does not look at these fields.

A frame is four fields instead of 123 bits: one clock edge moves a field. The
fields are kept in the order of `TL_serialize`; the data field is two because the
UART delivers its halves apart. The chip is external: a deserializer that
samples what the firmware drove after the edge before, a memory that takes any
time, a serializer behind valid and ready.

Timing that the model relies on, from `main.c`: clock edges are 889 us apart
(TIM1: 180 MHz, prescaler 160, period 1000) and the 12 bytes of a request take
60 us at 2 Mbaud, so at most one edge falls between the first byte and the idle
event (`edges`). The interrupt is over long before the next edge.

A killed script, and the restart that `chip-sw-fa22/README.md` prescribes ("reset
STM32, and then reset OSCIBEAR"), are the actions `HostKill`, `ResetStm` and
`ResetChip`.

### Fifo and FpgaReceive

One step is one cycle of the system clock, in which every register takes the
value computed from the values before it. `Fifo` keeps the four pointers, two
flags and memory of `fifo.v`. `FpgaReceive` instantiates it as `TxFifo` on its own
variables, so that every cycle of the composition is a cycle of `Fifo`, and adds
the registers around it; `ImplementsQueue` is checked there, where the FIFO is
driven by what really drives it. Bytes carry numbers,
so that a property can say which byte was sent. Reset is one cycle, at any
moment, because `button_parser.v` ends in an edge detector; what has no reset
value keeps its own.

### FpgaTransmit

The other half, for one packet after a reset: the header byte with the length,
then the bytes that the length asks for. `tl_tx_ready` and `tx_done` have no
reset value and start at either. `edge` is the synchronised rising edge of the
chip's clock, at most every other cycle, and `tl_out_ready` is what the chip says
at it. The run is a finding, so the module has no other property.

### HtifHost and SyscallTarget

The host loop is cut at its accesses to the target's memory: poll, clear, the
parts of a system call, tick, the check of `fromhost`, the answer. A mailbox word
is a record (device, command, payload). The target's stores of 64-bit words are
single steps: the upper half of every command and every reply to one is 0 in
this runtime, so the halves cannot be told apart.

The program may print, exit, or use the console device at any time; interrupts
come between any two steps and run to their end first. `HandlerPrints` says
whether the handlers print. A target that uses the console is not part of this
repository; it is external and waits for a free `tohost`. Writing to the host's
terminal is taken to write everything.

An exit code keeps its widths. `tohost_exit` takes it as a 32-bit `uintptr_t`,
moves it up by one and adds the flag (`ExitPayload`, modulo `INT`); the host cuts
the 64-bit payload to an `int` (`ExitWord`, `ToInt`) and `exit_code` shifts it down
with its sign (`Halved`). `INT` stands for 2^32. So a code in 31 bits, negative
ones such as the -1 of the default `main` included, comes back as it was
(`Short`), and any other without its highest bit: `ExitReported` says by how much
it is then off. A program that returns -2^31 is reported as 0, a success.

### Context

One step is one access to a flag or one call of the thread library; `pc` names
the line of `switch_to` or `init` that a thread is at. A sleeping thread wakes
when it is signalled, and also for no reason. `CallSwitch` and `CallInit` are the
users of the contexts, `Step` what a thread then does by itself. A context that
has no thread yet gets one in `InitThread`; the new thread's first act, in
`wrapper`, is an ordinary switch back to its creator. The mapping to `Coroutine`
says which context has control: the one whose flag is up, or whose thread is
about to move the flag, with a thread still in its wrapper counted as its creator.

### Clint

One step is one access to a half of `mtime` or `mtimecmp`, or one statement of
`main` or `timer_handler`; the timer counts between any two of them, and the
comparison with `mtimecmp` is always live. A register is a pair of halves of `LO`
and `HI` values instead of 2^32. `mtimecmp` has no reset value, so it starts
anywhere. The comment at `ee290c_devices.c:168` wants the upper half at its
maximum while the lower changes, but the stores go through a pointer that is not
volatile and the build uses -O2: the first store is dead and may go, the others
may swap. `SetMtimecmp` allows all of that. It does no harm here, because both
calls happen while interrupts are masked, which is what `RingsOnTime` shows. The
timer does not reach the last of its upper halves (`Tick`); that takes half a
million years.

### Aes and AesBaseband

`Aes` has one action per piece of the driver between accesses of the accelerator
to memory: set-up and start, one round of the poll, one block of chaining. The
accelerator is external: it takes a block per step, in its own time, and ignores
commands while at work. A block is the set of the atoms xored in it, where an atom
is a text block, a counter value, or the cipher applied to a block; two blocks
are then equal exactly when they are equal for every cipher. The expected
ciphertexts in the programs' headers are the modes' definitions (`Ecb`, `Cbc`,
`Ctr`) of the text.

`AesBaseband` gives each program as the list of operations of its `main`
(`Script`), and the one with the baseband also its handler: PLIC claim, action,
complete. The baseband is external: it loads what it was pointed to, sends it and
raises interrupt 10, or raises 9 when it fails. On 9 the handler only prints, so
`main` waits for ever; `Finishes` says so.

The transmit program prints, a star for each round of its wait among others, and
so does its handler before it sets `done_status`. `Console` is what the two have
in common with the host: a line takes a number of writes of putchar's buffer, each
a store into `tohost`, a wait for `fromhost` and its clearing, and the host polls,
clears, serves and answers. It is `SyscallTarget` and `HtifHost` for programs that
only print. Who asked is all that is left of a command; a call whose caller has
gone on with another's answer may be served or, its frame gone, end the host. A
star that does not fill the buffer is no step. When the interrupt comes while
`main` is in `syscall`, main's command or its answer may be lost and `main` may
spin for ever, although `done_status` is set: it is the hang of the finding
`syscalls_in_trap`, in a second program. `Finishes` excepts these crossings
(`Crossed`) and promises the end in every other behaviour. The prints of the other
programs are left out, since nothing interrupts them: they are the prints of
`SyscallTarget`, which return.

Left out: the interrupt variants of the driver's calls, which return after
starting the accelerator; texts that are not whole blocks, which no caller has;
decryption of CBC in place, which no caller uses; what a write into a frame that
is gone does to the stack; and `plic_set_bit` with numbers above 31. The custom instructions in `rocc.h` have no
memory clobber, so a compiler might move stores across them; program order is
assumed.

### Tsi, MemIf and Dtm

`MemIf` has one action per stage of `memif_t::read` and `write` (head, tail,
body) and one for each word awaited by `read_chunk`. Host and target are
coroutines, so an action of the host needs `running = "host"`. A word is `ALIGN`
bytes; the five words of a command are one element of the queue. The adapter on
the chip is external. Abstractly a write has happened as soon as its words are
queued: the mapping takes the memory as it will be when the queue is empty
(`Settled`), which is what reads queued behind it see. The model assumes that
host and target do not write into the same word (`WordAssumption`): `memif.cc`
reads a word, changes some bytes and writes it back, so a store of the target to
the other bytes in between would be undone.

In `Dtm` the host's place is a procedure or abstract command of `dtm.cc` (`loc`:
`halt`, `save_s0`, `set_s0`, `word`, `restore_s1`, ...), the access of it that comes
next (`step`) and the number of the word or of the hart that is reset (`count`);
`Following` is the order of the procedures in `read_chunk`, `write_chunk` and
`clear_chunk`. A step of the host is one access, and a loop on a status register
is an access that waits. The debug module and the harts are
external, modelled after what `dtm.cc` relies on: accesses during a command and
commands for a running hart fail, an error sticks until it is cleared, switching
the module off clears it, autoexec repeats the last command when `data0` is
touched. Chunks may run off the memory; such accesses trap and take the path
through `die`. The mapping to `ByteMemory` counts a word as transferred when the
program on the hart moves it, and compares what the host read with it.

Left out of `Dtm`: `dtm_modify_csr` for anything but `dpc`. Its little program
keeps `s0` in `dscratch` and would not put it back if the access to the CSR
trapped; the only caller writes `dpc`, which every hart has.

## 3. Runs

| Run | Bounds | Shows |
|---|---|---|
| `adapter_link` | two words of two half values | `RemoteMemory` is implemented; bits leave and come in order, each field of a frame once (`InOrder`); nothing is left between requests; the buffer is stable while it is sent; every request that is not given up is answered |
| `adapter_scan` | one word | finding: a written word may keep the upper half of the request before |
| `fpga_receive` | 2-bit bytes, four slots, seven bytes per reset | framing, no overrun, nothing from before a reset, order, no lock-up; `fifo.v` as it is driven is a queue |
| `fpga_echo` | 2-bit bytes, two slots | finding: a byte that is alone in the FIFO is sent as 0 |
| `fpga_transmit` | 2-bit bytes, four slots, one packet of up to three bits | finding: no packet is shifted out |
| `syscalls` | buffer of two, four characters, one interrupt, one key, ints of four bits, codes -8, -1, 0, 3, 5 | no command lost, doubled or answered too early; output in order; exit codes reported as far as the widths carry them; prints return; exit ends the host |
| `syscalls_in_trap` | the same with handlers that print | finding: a print interrupted by a printing handler never returns |
| `context` | three contexts | control in one place, mutual exclusion, mutexes held as expected (`ThreadsSafe`); coroutines are implemented; every hand-over arrives |
| `memif` | four words of three bytes, chunks of two words, one command still queued | any range is read and written as in a memory, across chunks and behind earlier writes; host and adapter stay in step; calls return |
| `debug_module` | two harts, three words, chunks of up to three | every word moved once; registers given back, also after failed commands; no command too early; nothing left over between calls; reset starts every hart at the entry; calls return |
| `timer` | lower halves of 4 values, upper of 3, delay 3 | every reading of `mtime` is a time of the call; the timer rings once, not early, and does ring |
| `chip_programs` | three blocks, initial vectors of two bits, all six programs | the checks of all modes pass for every initial vector; done means that the packet with the whole ciphertext was sent; programs end unless the baseband fails or its handler's prints meet main's |

Why the bounds are enough. The adapter has one request under way by construction
of its client; two addresses tell a right from a wrong one, two half values a
stale from a fresh half. Runs of requests are unbounded. In `FpgaReceive` four
slots let the ring's pointers wrap with any distance between them; they fill while
the UART is busy, and seven bytes go round the FIFO. For all depths and widths
there are the proofs. In `SyscallTarget` four characters fill the buffer twice,
one interrupt can come at every point, and the payload values of exit and the
frames' addresses keep even and odd apart. Of the exit codes -1, 0 and 3 fit in
three bits, -8 and 5 need all four.

Three contexts are a
creator, one that it creates and one that a created one creates. Three bytes to a
word give a range all offsets at both ends, inside one word and across a
boundary; the ranges include one chunk, a chunk and a word, and a boundary of
chunks inside a range that starts and ends inside words. In `Dtm` chunks of three
words use the first store, the first autoexec and a
repeated one; starting at the second word, they run off the memory at the third.

Lower halves of four values roll over within a few ticks of the timer, and a
delay of three makes the deadline carry into the upper half from most times; the
widths are arbitrary in the proofs. Three blocks are a first, a middle and a last
one for chaining; a vector of two bits carries and overflows within a text.

Four configurations switch the deadlock check off, because the system stops: in
`Syscall.cfg` and `SyscallTrap.cfg` the host process ends and the target then
spins; in `Clint.cfg` the program ends and the bounded timer stops; in
`AesBaseband.cfg` the program ends.

### Fairness

`StmAdapter`: the processor, the UART, the clock and the chip go on (weak
fairness of each); nothing is assumed of the user. The main loop starves neither
interrupt nor is starved: an interrupt is one finite step. `FpgaReceive`: the
clock runs and frames end. `FpgaTransmit`: the clock runs; the host goes on with
its packet and edges of the chip's clock with a chip that is ready keep coming
(strong fairness, since a cycle with neither takes the chance away). The finding
stands under it. `SyscallTarget`: host and processor run, handlers
return; the program and the terminal's user are free. `Context`: threads that can
go on do, and a mutex that is free again and again is granted (strong fairness of
the three lock calls; a sleeper that wakes for no reason takes its own mutex, but
not in every instant). `MemIf`: the simulation gives control back to the host,
and the serial adapter moves a word if it is given control often enough (strong
fairness of `Tick`, since each switch takes the chance away). `Dtm`: the host,
the debug module and a hart that is asked to halt or resume go on. `Clint`: the
timer counts, and the hart runs the program and its handler. `AesBaseband`: the
hart, its handler, the accelerator, the baseband and the host's loop go on.

### Findings

1. `adapter_scan` (`app.c:48`): the callback ignores its size argument, so a
   request is started at the DMA's half-transfer event, after 10 of 12 bytes.
   `RemoteMemory` states what is left of the promise: the upper half is the
   requested one or the one before.
2. `fpga_echo` (`traffic_adapter.v:126`): the byte is popped a cycle before the
   UART samples it. `NoByteTwice` is what remains true.
3. `fpga_transmit` (`tl_transmitter.v:93`): `tl_tx_ready` is raised only after a
   byte was sent, and the controller waits for it before the first; if it happens
   to be high at power-up, the one-bit length ends the packet after one bit or
   never.
4. `syscalls_in_trap` (`syscalls.c:27`): `syscall` has no exclusion against
   handlers that call it, which `baseband-rx-exit.c` and others do, among them
   `aes-baseband-tx.c`, whose end the run `chip_programs` promises only when the
   interrupt does not meet a print (`Finishes`).

## 4. Proofs

TLAPS proves every safety property that a passing run checks, for all values of
the constants that the named assumptions of the modules allow. The assumption of a
component is stated in its module; what it stands for is said below.

`StmAdapterProofs` is checked for every finite or infinite set of addresses and of
half words that the assumptions of `StmAdapter` allow.

* `TypeCorrect`, `LinkCorrect`, `QuietCorrect`: `Spec => []` of `TypeOK`, `InOrder`
  and `QuietBetweenRequests`; `BufferCorrect`: `Spec => BufferStableWhileSending`.
  One inductive invariant. `InOrder` says that what one side has taken is what the
  other has given, and is not inductive: whether the next edge moves a bit
  depends on what stage the sender, the receiver and the chip's serdes are at
  together. `Link` says which triples of stages there are at each place of
  `APP_main`, `HalfReset` what a reset of the board alone leaves, `Exchange` where
  the request is between the host, the UART callback and `APP_main`, and
  `Arrived`, `Carried` and `Returned` follow its four words through the buffers,
  with the high half that may be a request old.
* `AdapterIsMemory`: `Spec => ImplementsMemory`, the refinement of `RemoteMemory`:
  asking, the chip's work, the reply, a kill and the reset of the chip are its
  five actions, every other step changes nothing it speaks of.

`FpgaReceiveProofs` is checked for every `BYTE >= 2`, every depth of at least two
and every bound on the number of bits. Its first part is about `fifo.v` alone,
whoever drives it and whatever its elements are.

* `FifoCorrect`: `TxFifo!Spec => []FifoInv`. The flags alone are not inductive: that
  `full` after a write means equal pointers needs the registered look-ahead
  pointers to be the successors of the pointers, so the invariant is the
  conjunction of types, `FlagsExact` and `AdvancedInStep`. One step per kind of
  cycle; the arithmetic of wrapping is in `WrapRange` and `WrapStep`.
* `FifoIsQueue`: `TxFifo!Spec => ImplementsQueue`. The mapping takes the slots from
  `read_ptr` on as the queue. Lemmas say that a write appends (`WriteAppends`),
  a read takes the head (`ReadTakes`) and both together shift
  (`WriteReadShifts`); each kind of cycle is then a step of `ByteQueue`.
* `TypeCorrect`, `NeverOverrun`, `FramesCorrect`, `ResetForgets`:
  `Spec => []` of `TypeOK`, `AcceptedFits`, `BytesFramed` and
  `NothingFromBeforeReset`. They share one inductive invariant. The properties
  relate signals of different cycles, so the invariant says for each register
  what it knows of the others: the bit counter follows the bits sent since the
  reset (`Aligned`), a byte that is offered ended with the last bit (`Offered`),
  the controller's two stages hold what was offered (`Taking`, `Writing`), and
  bytes offered, in the stages and in the FIFO add up (`Counted`, `Fresh`).
* `UsesFifo`: `Spec => TxFifo!Spec`, and `TxFifoIsQueue`: `Spec => ImplementsQueue`.
  The second is `FifoIsQueue` applied to the first: the composition of the two
  modules inherits what is proved of the FIFO alone.
* `EchoCorrect`: `Spec => []NoByteTwice`. What a frame carries is `dout` one cycle
  after the pop that announced it, so the order of the frames is not that of the
  pops. The invariant numbers the bytes: the queue in the ring is the run of the
  last ones written (`Numbered`), and no frame carries a number that is still in
  it (`Echoed`). The lemmas on what a cycle does to the contents of the ring
  reduce each cycle to a run of numbers that loses its first or gains its next.

`ClintProofs` is checked for halves of any widths and any delay less than a lower
half.

* `ReadsCorrect`: `Spec => []ReadsExact`. The invariant keeps, for each place
  in `clint_get_mtime`, what the locals say of `mtime` then and now.
* `RingsCorrect`: `Spec => []RingsOnTime`. Until the first ring `mtimecmp` is not
  before the earliest deadline whenever the interrupt can be taken; the stores
  under way are covered by masked interrupts. Lemmas give the order of 64-bit
  times and that addition of a delay keeps it below the last upper half.

`ContextProofs` is checked for every set `Contexts` that holds `Main`.

* `ThreadsCorrect`: `Spec => []ThreadsSafe`, from `ControlCorrect` and
  `LocksCorrect`. That one flag is up is not inductive,
  since `switch_to` stores both flags in turn; the invariant counts the thread
  between the stores as the one in control (`OneActive`) and ties the places of
  all threads to the flags (`FlagsInPlace`) and to the wrappers
  (`WrappersInPlace`). `OneUser` follows: who runs user code has its flag up.
  That the creator of a context does not lose the mutex it sleeps on
  (`LocksHeld`) needs the goal of a switch to differ from the thread that
  switches.
* `ContextIsCoroutine`: `Spec => ImplementsCoroutine`. `HasControl` is a CHOOSE;
  that one context is active makes it equal to the thread that acts, and then
  each step is a switch, a creation or a stutter.

`SyscallProofs` is checked for every `BUF >= 1`, every set of console commands,
exit codes, keys and frames that the assumptions of `HtifHost` and `SyscallTarget`
allow and every bound on characters and traps, for programs whose handlers do not
print. The finding `syscalls_in_trap` shows that this condition is needed, so each
theorem has it as a hypothesis.

* `TypeCorrect`, `NeverLost`, `FramesAlive`, `ExitCorrect`, `RepliesCorrect`,
  `OutputCorrect`: `Spec => []` of `TypeOK`, `OnePlace`, `FrameInUse`,
  `ExitReported`, `ReplyMeansDone` and `OutputInOrder`. They share one inductive
  invariant. `OnePlace` alone is not inductive: it does not say what the host
  does with a command that nobody waits for. `Exchange` says, for each place of
  the program, where its command is and what the host can be at; `Data` says that
  the arguments of a print stay in `magic_mem` until its result is written back,
  that `buf` holds the characters right before the next one, and that the
  characters on the terminal, in the host's hand and in the mailbox are all those
  given away. What a code is after the chip's shift, the cut to an `int` and the
  host's shift is `ExitArithmetic`, for every code an `int` holds and every `INT`
  that 4 divides; it rests on one fact about remainders, `Modulus`. Host, target and user are taken apart in a lemma each, for types,
  exchange and data.

`DtmProofs` is checked for any number of harts, any memory, chunks of any length
and any register contents.

* `TypeCorrect`, `CommandsInTime`, `QuietCorrect`, `RegistersCorrect`:
  `Spec => []` of types, `NeverTooEarly`, `QuietBetweenCalls` and `RegistersKept`;
  `ResetCorrect`: `Spec => ResetStarts`. They share one inductive invariant. It
  says at each place of the host what halt and resume have done (`Holding`: the
  hart is held from the end of `halt` to the write of `resumereq`), that a
  command runs only while the host waits for it, with the command, the error and
  the autoexec bit that belong to the place (`Commanding`), where the values of
  `s0` and `s1` are while they are borrowed (`Borrowing`), and which harts a reset
  has sent to the entry point (`Resetting`). `RegistersKept` needs `Commanding`: the
  registers come back although commands fail because those that save and restore
  them never do, and die has cleared the error of an earlier one by then.
  `QuietBetweenCalls` would see an error left behind mainly at start-up: afterwards
  resume's write to `DMCONTROL` resets the module and the error with it.
* `DtmIsMemory`: `Spec => ImplementsMemory`. The invariant above does not say how
  far a chunk has come. `Transferring` does, on top of it: at each place the words
  that the program has moved are those the host expects (`Counting`; fewer only if
  the chunk runs off the memory), `s0` points at the next word (`Aiming`), the
  halves in `data0` and `data1` are those of that word or of the limit (`Handing`),
  program and command are those of the chunk (`Programmed`), and what a read has
  got, or has in `s1`, is what was moved (`Reading`). One lemma says what a command
  of a chunk does to hart 0, `ChunkPerformed`; the refinement needs besides only
  that the buffer of the mapping changes when a word is moved and not when the host
  fetches it (`BufferKept`). `AccessAssumption` says that no access of `ByteMemory`
  is the value that stands for none.

`MemIfProofs` is checked for words of any number of bytes, chunks of any number of
words, any memory that holds its words whole, any ranges and any bound on the
queued words, as long as host and target do not write into the same word.

* `TypeCorrect`, `StaysInStep`: `Spec => []` of `TypeOK` and `InStep`;
  `MemIfIsMemory`: `Spec => ImplementsMemory`. `InStep` speaks of the queues when
  they are empty, so it is not inductive: what a command or a data word does when
  the adapter gets to it depends on all words before it. `Linked` says that the
  words on their way have a course, a sequence of states of the adapter from where
  it is now, in which each word is one that the adapter expects, and whose stores
  stay in the range of the call and off the target's bytes. Lemmas say that taking a
  word goes one step along the course (`TookWord`) and that sending words extends it
  (`SentRead`, `SentWords`); the end of the course is `Settled`, the memory of the
  mapping.
* The rest of the invariant is `Types`, `Cut` (how `addr`, `len` and `off` divide the
  call into what is done, the head, the tail and the chunks), `Coming` (the words
  awaited are as many as are in the reply queue, in the adapter or still to be read)
  and `ReadBack` (what a partial write has read is the word it will write back,
  since nothing else writes that word). `HeadPiece`, `TailPiece` and `BodyPiece` do
  the arithmetic of each cut, `Division` to `Multiples` that of whole words.

`AesBasebandProofs` is checked for any number of blocks and for initial vectors of
any length over any base.

* `ProgramsInvariant`: `Spec => []IInv`. `Kept`: no array but the filler changes.
  In a test program `Testing` says which call of which of its four phases is under
  way or done last, and how many blocks of the filler array are those of the goal
  of the phase; in the middle of a call `EcbAt`, `CbcEncAt`, `CbcDecAt` and
  `CtrAt` say the same of the block in the accelerator and of the pointers and the
  previous block that the driver keeps. In the program with the baseband `Sending`
  says what has been prepared (`Prepared`), commanded (`Commanded`) and reported
  (`Reported`); a step of the console moves none of it (`Unmoved`). `Silent` says that the others leave baseband and interrupts alone.
* `ChecksCorrect`: `Spec => []ChecksPass`. `ScriptAt` says which operation is the
  one at `pc`; at a check all calls of its phase are behind (`NextOperation`), so the
  filler array is the expected one. `DoneCorrect`: `Spec => []DoneMeansSent`, from
  `Sending`.
* The definitions of the modes, the counters and the scripts are recursive functions.
  The induction theorems of the library take an operator and cannot be used;
  `SetInduction` states induction for a set of numbers, and a function is named by
  the equation it satisfies (`IsValue`, `IsChain`, `IsCounting`), whose solution is
  built by that induction. From it come what the functions compute: `Value` is below
  `Vectors` (`Bounded`), incrementing bytes with carry adds one modulo `Vectors`
  (`CarriedTo`, `NextValue`), the counters of the driver are those of the definition
  (`CountersAre`), and a chained block is the cipher of the text and the block before
  (`ChainFacts`).

Only model-checked are the liveness properties (`Answered`, `Drained`,
`PrintReturns`, `ExitEnds`, `ControlArrives`, `Returns`, `Rings`, `Finishes`), since
fairness and ENABLED are out of the prover's reach, and the runs of the findings,
which are counterexamples.

## 5. Not modelled, and what is left

* The packing of `proxyFESVR` (`tsi.cpp`): shifts on buffers. `FpgaTransmit` has
  its packet as a length and as many bytes as that fills.
* The tick handshake of `dtm.cc`, one step in `Dtm`.
* `htif_pthread.cc`: no class of this repository derives from it.
* The ELF loader, hex writer, options and frame buffer of `fesvr`: parsing and
  output without protocol state.
* Vendored and generated code, more than nine tenths of the lines of the
  repository: drivers of the STM32 and their device headers. The one behaviour
  of it that matters, the two receive events, is in `StmAdapter`.
