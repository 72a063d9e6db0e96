# Verification of fbdbi

fbdbi is a set of Linux frame buffer drivers for small displays with a MIPI DBI
style interface (SPI, I2C or a parallel Intel 8080 bus).  This directory holds
TLA+ modules that model its concurrent and stateful parts, TLC configurations
that check them on small instances, and theorems checked by TLAPS that hold for
every instance.  `PROJECT.json` maps every definition to the lines it models.

    tlc -workers 2 -config DeferredIoMmap.cfg MCDeferredIo      # check one run
    tlapm LcdRegProofs.tla                                      # check one module of proofs

## Inventory

| part | source | state | operations |
|---|---|---|---|
| frame buffer with deferred I/O | `core/fbdbi.c` 197-282, 711-744 | dirty range under `dirty_lock`, video memory, delayed work, page list | drawing operations, `fbdbi_mkdirty`, `fbdbi_deferred_io`, page fault, fsync |
| register access | `core/lcdreg.[ch]`, `core/lcdreg-spi.c`, `core/lcdreg-i2c.c` | `reg->lock`, D/C line, the selected register, debugfs result | lock, unlock, write, read, debugfs write and read |
| controllers | `mipi-dbi.c`, `ssd1963.c`, `ili9320.c`, `ssd1306.c` | window registers, address mode, PWM | update, rotate, blank, set_format, backlight |
| i80 access to registers | `core/lcdreg-i80.c` | conversion buffer | write, read |
| i80 bus | `i80/i80.[ch]` | masters by number, devices by address, `bus_lock`, `isopen` | register and unregister masters and devices, open, close, read, write |
| i80 GPIO master | `i80/i80-gpio.c` | pins; remembered address, data and direction | set_address, read, write |
| life cycle | `core/fbdbi.c` 22-152, 446-479, 604-708, 747-753 | devres lists, regulator, registered frame buffer | init, register, blank, destroy |
| geometry | `core/fbdbi.c` 356-433 | `var`, `line_length`, rotation | check_var, set_par |
| panels | the other `*.c` | none of their own | probe, poweron |

**How they interact.**  A drawing call changes the video memory, calls
`fbdbi_mkdirty`, which widens a range of rows under a spinlock and schedules a
delayed work of Linux's deferred I/O; stores through a mapping reach the same work
by a list of pages.  The work calls `fbdbi_deferred_io`, which calls the `update`
of the controller.  That takes `reg->lock`, sets a window with two register
accesses and sends the rows with a third.  Rotation, the console's blanking, the
backlight and debugfs access the same registers from other threads.  A register
access is a command phase and a data phase over SPI or I2C, with a separate GPIO
on a 4-wire bus; or, on the parallel bus, `i80_open`, a word at offset 0, words at
offset 1 and `i80_close`.  The devices of an i80 master share its pins and are kept
apart by `bus_lock` and by the address checks of their registration.

**What is hard.**  The two steps of `fbdbi_mkdirty` against the taking of the range;
page faults and fsync against the work; accesses of several steps from four kinds
of threads; errors in the middle of them; a rotation beside an update; words that
an SPI master cannot send and that are cut and packed until it can; pins that are not
set because they are remembered to be right; a probe of which any step may fail, and an
unbinding while the display is in use.  `hazards` in
`PROJECT.json` lists them by line.

**What makes each part correct.**

| part | correct when |
|---|---|
| deferred I/O | no changed row is forgotten, each is eventually sent or given up by a failed update, `update` is called with `ys <= ye` |
| register access | accesses exclude each other, words are taken for what they are, reads are answered for their own register, every call ends with the lock released |
| controllers | the rows of an update go into the window it set |
| i80 access, bus, GPIO master | a successful access puts its message on the bus word for word whatever was there before; chips are reached only by their own accesses; the bus is left deselected; every access ends |
| i80 registration | a device that is added shares no address with one that is there (which the code ensures in part); references are in balance on every path |
| SPI transfers | the chip gets the bits that were meant, whatever words the master has and wherever they are cut; buffers are large enough |
| life cycle | nothing is used after its release or before power on; what was powered on is powered off once; the backlight follows the blanking; unbinding ends |
| geometry | resolution, line length and address mode agree; an update puts each pixel where the angle says and reads nothing beyond the memory |
| panels | the four address modes turn the picture as the angle says; every failure of poweron ends the probe |

## Modules

| module | models | proofs |
|---|---|---|
| `ShadowDisplay` | what deferred I/O promises: a row changes only while it is promised, a promise is kept or given up by a failure | |
| `DeferredIo` | the drawing path, page faults, fsync and the work | `DeferredIoProofs` |
| `SerialRegisters` | what `lcdreg` promises: registers written one at a time by their owner | |
| `LcdReg` | the lock, the two phases of an access, and the operations of the drivers as sequences of accesses | `LcdRegProofs` |
| `SpiWrite` | one register write over SPI, from the driver's words to the chip's bits | `SpiWriteProofs` |
| `Lifecycle` | a display from its probe to its unbinding, for each panel driver | `LifecycleProofs` |
| `Rotation` | requests to rotate, and the updates beside them, down to the place of each pixel | `RotationProofs` |
| `I80Bus` | accesses over the parallel bus, down to the pins | `I80BusProofs` |
| `I80Registry` | registration of a master and of the devices of its tree | `I80RegistryProofs` |
| `SeqLemmas` | nothing of the code: sequences in a row, for the proofs about words cut into bytes | itself |

`MCDeferredIo`, `MCLcdReg`, `MCSpiWrite`, `MCI80Bus` and `MCI80Registry` give the constants
of the runs; `Lifecycle` and `Rotation` need none.  A definition `XyzBad` after a comment
"Mutation:" is not part of a model: it is a plausible mistake in the code that a property is
to notice.

### DeferredIo

`dirtyStart`, `dirtyEnd` are `dirty_lines_start` and `_end`, exact to their cleared
value (`yres - 1`, 0) and to the zeros of `kzalloc`.  A writer is a thread in
`fillrect`, `copyarea`, `imageblit` or `write`: `BeginDraw`, `Draw` (a row changes),
`EndDraw`, then `Mark` and `Schedule`, the two halves of `fbdbi_mkdirty`, between which
anything may happen.  The work is `StartWork`, `CleanPage` (write protection),
`TakeRange` (all of `fbdbi_deferred_io` up to `update`), `SendLine` for each row,
`EndUpdate` or `UpdateFails`.  A row is one bit: stale or not.  `dropped` is not in the
code; it says which rows a failed update gave up, since the code drops that error.
`Inverted` is an update with `ys > ye`: its unsigned height wraps, after which an SPI
interface fails to allocate and a parallel one reads past the memory.  Linux's
`fb_defio.c` and workqueue are external and modelled from how they are used: the page
lock of a fault, the mutex that the work and `mkwrite` share, the pending bit.

### LcdReg

A thread has one `Role`, which is a sequence of register accesses (`Program`) that runs
between `Lock` and `Unlock`, or without them (`ssd1306_blank`).  An access is `SetCommand`,
`SendCommand`, `SetData`, then a `SendData` or `ReceiveData` for each message.  `interface`
is how the display is connected.  On `"4wire"` the D/C line says what a message is, on the
others (9-bit words, a start byte, I2C) the messages say it themselves. A read has two
phases with a D/C line or a start byte; with 9-bit words it is one message, and on I2C one
that names no register (`ReadAtOnce`).  `ReadRefused` is a display that is not readable, or
a register other than 0 on I2C.  A word is who sent it as which argument; the controller has
a selected register, the arguments since, and what each register holds.  An access that
fails is given up, and the operation goes on with the next one, as the drivers do.

### SpiWrite

Where `LcdReg` knows only that an access has a command and data, this module follows the
words.  `Command` and `Data` are what `lcdreg_spi_write` makes of a write: lists of
transfers after `lcdreg_spi_write_one` (words the master has go out as they are, 16 and 24
bits are cut into bytes) and `lcdreg_spi_write_9bit_dc` (a D/C bit before each byte; `Pack8`
puts eight such words into nine bytes, the first eight of which are the `u64` `tmp`).
`Message` is one turn of the loop of `lcdreg_spi_transfer`: a start byte, then up to four
entries of a page each. `MessageFails` ends the write, with any of the errors of
`lcdreg_spi_transfer`: no memory (of which some is asked for before the start byte's buffer
and some after), a page that cannot be mapped (`-EINVAL`), and whatever `spi_sync` returns.
The chip is `Decoded`: bytes with the D/C it sees. What it got (`Taken`) and was to get
(`Meant`) are compared without no-ops (`WithoutNops`): nine bits that are 0, which pad a
packed transfer and also begin a register number of 16 bits.  `DataAssumption` says that the
words a driver hands to `lcdreg_write` fit the array they are in.

`Faithful`, `Complete` and `FitsBuffers` leave out what the code does not get right:

- 9-bit data of 8-bit words that fill the buffer: `tr.count = to_copy * 2` sends as many
  words again from behind them (`Oversent`; `lcdreg-spi.c` 472);
- a start byte whose buffer the first, short transfer allocated without a DMA address
  (`StartLost`; 149), if a master fetches it;
- a start byte before a buffer of `vmalloc` that begins within a page: one entry more than
  the array has (120);
- `Complete` lists when the interface itself refuses a write with `-EINVAL` (`refused`; the
  errors of `MessageFails`, which may have the same code, come from below it): with the
  module parameter `bits_per_word_mask` set the mask of the device stays 0, so nothing that
  needs it is supported (762); and 16-bit data in emulated 9-bit words must come in fours,
  which the code's comment "If video buf isn't divisible by 8, it will break" says too.

### Lifecycle

`stage` is where a probe is, from `acquire` over the steps of `devm_fbdbi_register` to
`bound`, or an unbinding, from `unwind` (devres releases the newest of `held`) through
`cleanup`, `dark` and `off`, the three parts of `fbdbi_fb_destroy`.  Each failure of a probe
leads to `unwind`.  The seven `poweron` functions are tables of groups of steps: enable the
supply, reset, a register write whose error is looked at, writes whose errors are not.
`Register` makes the frame buffer visible before the probe is done: from there on it is
opened, drawn on (`Draw` schedules the deferred work) and blanked while the probe goes on.
`enables` is what the driver added to its regulator's use count; `chip` what the controller
remembers.  `onFor`, `useCount`, `off`, `bright` and `lit` are the backlight and its core's
notifier; `lighted` says whether the display has one.  The ebay panel registers its own, and
if that fails (`NoLight`) the probe goes on without: such a display is in use, blanks nothing
and stays as dark as it was, and `LightFollows` says nothing of it.

For the first blanking of the console the sources disagree: the comment at `core/fbdbi.c`
658 says that setting `fb_bl_on` and `use_count` there makes the backlight "turn off also on
the very first console blanking event", a FIXME at `ssd1963.c` 147 that it "doesn't turn off
backlight on first blank", with a log of a `use_count` of 0 and -1.  The model has the code
of `fbdbi.c` and the notifier of the kernel it was written for, and in it the comment is
right; `AttachUncounted`, the code without that count, shows what the FIXME reports.  What a
later kernel's notifier does is outside of the repository.

Three variables are history, to say what the properties leave out because the code has
no answer to it: `orphan` (the frame buffer was open when it was unbound: `fb_destroy` is
called at its last close, when `devm_framebuffer_alloc` has freed it), `early` (blanked
before its backlight was attached, or with a backlight still blanked from an earlier life)
and `imbalance` (a probe that fails after poweron leaves the supply on; an `initialized`
display turns off what it never turned on).  An orphan is where the model ends.

### Rotation

A request is `SetVar` (`fbdbi_fb_check_var`, and the assignment of its result by
`fb_set_var`), `SetPar` with the lock, `Rotate` or `RotateFails`, and `Restore`.  An update is
`Take` (the range), `ReadVar` (what it reads of `info->var` before the lock), `SetColumn` with
the lock, `SetPage`, `Send`.  Between any two of them a step of the other may come, and
`Draw` at any time.  `Place` is where a controller puts the n-th pixel it is sent, from the
data sheets: a window that is exchanged and mirrored (MIPI DBI), or a start address and
two directions (ILI9320).  A pixel is its place; the content of the memory is not kept.

`rangeVar`, `updateVar` and `applied` are history: under which geometry the rows were
recorded and taken, and whether the last `set_par` succeeded.  `Uncrossed` is what the
properties are restricted to: an update that crosses a rotation gets a window of one
geometry and rows of another, and nothing in the code prevents that.  The SSD1963 is left
out: its rotate is an empty stub.  `fb_set_var` is modelled for requests that are applied.

### I80Bus

`Calls` is `lcdreg_i80_write` and `_read` without the moves: which words go to which offset,
after the conversion from memory to bus words (`AsBusWords`, little-endian) and the swaps of
16-bit words for a bus of 8 bits, chunk by chunk.  The moves are `Open`, `SelectChip`
(`i80_verify_and_set_address` and `i80_gpio_set_address`), `Direction`, `WriteWord`,
`ReadWord`, `EndCall` and `Close`.  `currAddress`, `currData` and `direction` are what the
GPIO master remembers; `addressPins`, `dataPins` and `pinsDir` are how the pins really are,
and the chips see only these.  `MayFail` lets a pin fail to turn and the conversion buffer
fail to be allocated.  The direction is remembered before the pins are switched, so a pin
that fails to turn garbles later words too; `Garbled` and `Misread` are these words, the
only ones `Delivered` and `Answered` leave out.  `heard`, `told` and `got` record the access
for the properties.  A chip at address 0 is always selected (`i80.h` 79), and one of size 0
at every address (`Selected`); if two chips drive the data pins, the host may read anything
(`Readable`). `AddressAssumption` is what `of_register_i80_devices` checks of a node by
itself, and that a device of size 0 has an even address too.  That the devices are apart
from each other, `AddressesApart`, is not assumed: it is a hypothesis of the two theorems
that need it, because `i80_dev_check` does not ensure it.  A byte has `Byte` values; nothing
in the code looks at more of it.

### I80Registry

`TakeNumber`, `AddMaster`, then for each node `AllocDevice` and one of `Reject`, `AddFails`,
`AddDevice`; unbinding is `FreeNumber`, `UnregisterDevice`s and `UnregisterMaster`.  With
`MayFail` every allocation and `device_add` may fail.  `Claimed` are the addresses at which
a chip is selected: all of them for one at address 0, as `i80.h` says, and for one of size
0.

`i80_dev_check` ensures less than its message "already in use" promises.  `NoSharedAddress`
is that promise, and violated (`i80_mixed`).  `AddedApart` is what the check does ensure: a
new device shares no address with one on the bus that has as many addresses or more.  Not
seen are a smaller device within the new one, and a chip that is always selected: `<0 2>`
and `<2 2>` are both added.  `NodesHeld` is only a lower bound of the references to a node; the
node of a device that `i80_add_device` refuses stays referenced.

The master is bound at most `MaxBinds` times, after which the model stops, so the two runs
of this module do not check for deadlock.

## Runs

| run | instance | shows |
|---|---|---|
| `deferred_draw` | 2 writers, 3 rows, failing and overrunning updates | `NoLostUpdate` |
| `deferred_mmap` | 1 writer, 1 mapper, 1 fsync, 2 rows of 2 bytes on pages of 3; an overrunning update ends with an error | `NoLostUpdate`, `EventuallySent`, `ImplementsShadow` (refinement of `ShadowDisplay` with its fairness) |
| `deferred_range` | 1 writer, 3 rows | `UpdateRangeInclusive` is violated |
| `lcdreg_panel` | update, rotation, debugfs write and read; 4-wire SPI, 3-wire SPI and I2C; messages fail, reads are refused | exclusion, wire, window, answers, `ImplementsSerial`, `CallsEnd` |
| `lcdreg_oled` | SSD1306 update and blanking | `AccessExclusive` is violated |
| `spi_write` | 18 interfaces, 19 writes on a page of 16 bytes, any message fails | `Faithful`, `Complete`, `FitsBuffers`, `NearerEnd` |
| `rotation` | 4 drivers, panel of 2 by 3, `rotate` of 90 and of a value that is refused, one request, register accesses fail | `Placed`, `ReadsMemory`, `Agrees` |
| `lifecycle` | 5 drivers, with and without backlight, initialized or not, probed twice, everything may fail | `Alive`, `SentWhenReady`, `SupplyBalanced`, `LightFollows`, `NearerEnd`, `Unbinds` |
| `i80_pins` | 8-bit bus, 2 panels, every access after every other | `Delivered`, `Answered` |
| `i80_fail` | 16-bit bus, 3 threads on 2 panels, a refused width, failures | `Delivered`, `Answered`, `Isolated`, `Deselected`, `AccessesEnd` |
| `i80_nodes` | 9 good and bad nodes, any order, any failure, bound twice | `AddedApart`, `MasterReferences`, `NodesHeld` |
| `i80_mixed` | 3 good nodes of different sizes | `NoSharedAddress` is violated |

`TypeOK` is checked once for each module.  Every transition of every module is taken in some
run.

**Why the bounds are enough.**  Three rows have a first, an inner and a last one, so that
ranges can grow at both ends; pages of three bytes over rows of two make every page share a
row with its neighbour and end beyond the memory.  Two writers give every order of two
`fbdbi_mkdirty`, and a third does nothing a second cannot.  Registers have two argument
words, the least with something in between.  On the bus a byte has two values, so equal
words and equal bytes follow each other often, which is when a remembered word matters; the
two devices are at 2 and 4 with two addresses each, the least that are apart; three words in
chunks of two need a second, shorter chunk.  A page of 16 bytes is enough for SPI: writes of
33 words take more than the four pages of a message, those of 9 and 70 more than one chunk
of every kind, and offsets of 10 begin within a page.  A panel of 2 by 3 tells columns from
rows and each corner from the others; one request leads from the angle of the probe to each
of the others; that a request works after any others, failed ones too, is `AlwaysAgrees`.
Two lives of a display are the least in which one can leave something to the next.  The
drivers left out of `lifecycle` and `rotation` have the tables of one that is in.  For the
bounds on numbers of threads, rows, devices and nodes the theorems leave no doubt for what
they cover.

Where a run is narrower than its property: `deferred_mmap` calls fsync once, and an update with
`ys > ye` ends with an error there (`Overrun`), as on an SPI interface.  So `EventuallySent` and
the liveness in `ImplementsShadow` do not cover a panel on the parallel bus that such an update
brings down, nor repeated fsyncs; `deferred_draw` has both outcomes for `NoLostUpdate`, and the
theorems `NothingLost` and `PromisesKept` any number of fsyncs.  The start byte interface
is in no run of `LcdReg`, whose theorems cover it.

**Violations.**  These are findings, each with the line it contradicts:

- `fbdbi_deferred_io` calls `update(yres - 1, 0)`: a running work takes the rows that
  `fbdbi_mkdirty` has marked before that schedules the work, which then runs again with a
  clean range.  `core/fbdbi.h:24` says ys and ye are inclusive.
- `ssd1306_blank` writes a register without `lcdreg_lock`, into the phases of an update.
- `i80_dev_check` compares a new address with the masks of the devices on the bus, but
  not their addresses with the new mask: after `<6 2>`, `<4 4>` is added.  Nor does it know
  that a chip at address 0 is always selected: with the nodes of `i80_nodes`, `<0 2>` and then
  `<2 2>` violate the same property.

**Fairness.**  `WF` of a thread's own steps: the kernel runs threads that are not blocked.
`SF` of taking a mutex (`Lock`, `Open`): waiters of a Linux mutex queue, so none is passed
over for ever.  `WF` of the work: the workqueue runs pending work, and `WF` of fsync's
steps: it is in a system call.  In `Lifecycle`, `WF` of the steps of a probe, of an
unbinding and of a running work, but not of the start of pending work: `Unbinds` does not
need it.  No thread has to draw, store, fsync or access a register, and no message has to
succeed.  `EventuallySent` and `CallsEnd` would be false with less.

## Proofs

All theorems hold for every value of the constants that satisfies the named assumptions
of the modules (geometry positive; roles and jobs of the kinds listed; None not one of the
values; a page a multiple of 16 bytes; words that fit the arrays they are in; sizes and
addresses of i80 devices that `of_register_i80_devices` accepts).  Some have a hypothesis
besides, which is part of their statement:

| hypothesis | says | theorems |
|---|---|---|
| `AllLocked` | every operation takes `lcdreg_lock` | `AccessesExcluded`, `WireAlwaysAgrees`, `UpdatesLand`, `ReadsAnswered`, `AccessIsSerial` |
| `AddressesApart` | the devices of a bus have addresses of their own, and none is always selected beside another | `ChipsIsolated`, `ReadAnswered` of `I80BusProofs` |
| `SameSize` | all devices have one size, none address or size 0 | `EqualSizesApart` |

- `DeferredIoProofs`: `TypeCorrect`, `NothingLost`, `PagesAlwaysTracked` and `PromisesKept`.
  `NoLostUpdate` is not inductive. `IndInv` adds `PagesTracked` (a page can be stored to
  only while it is listed, and not while its rows are sent), `FaultsListed` (a page whose
  fault is being completed is on the list), `PagesScheduled` (a list that the work has not
  taken has a scheduled work) and that the cursor of an update is not before its first row.
  `KeptPromises` then splits the argument by step: a step that changes or forgets nothing
  keeps every promise, and each other one is shown to hand a row's promise on (draw to mark,
  mark to range, range and list to update, update to display).  The rows of a page come from
  two lemmas on division. The same case split gives `PromisesKept`, that `DeferredIo`
  implements `ShadowDisplay!Spec`: with `promised` as the rows that are `Promised`, a step
  that keeps every promise is a `Promise` (of no new row, perhaps), `Draw` and `Store` are a
  `Draw` of a row that is promised (a page that can be stored to is listed, so its rows
  are), `SendLine` is a `Send`, which keeps the promise if the row was marked again
  meanwhile, and `UpdateFails` a `Fail`.
- `LcdRegProofs`: under `AllLocked` (every operation is one that locks, so not
  `ssd1306_blank`) the invariant says of each thread past the lock that it holds it, that
  the D/C line and selected register are as it left them, that the controller has just its
  arguments so far, and that the window is its own.  A step of the holder keeps its own
  claims, and the others have none (`OwnStep`).  `AccessesExcluded`, `WireAlwaysAgrees`,
  `UpdatesLand` and `ReadsAnswered` follow, with and without a D/C line and for the
  backlight's accesses too, which no run has.  `lcdreg_oled` shows that `AllLocked` is
  needed. `AccessIsSerial` is the refinement of `SerialRegisters`: lock and unlock begin and
  end a turn, the last word of a data phase is the write of the register (`DataWrites`,
  because the words before it are the holder's own), and everything else stutters.
- `I80BusProofs`: `IInv` ties `bus_lock`, `isopen` and the program counters together
  (`Locked`), and the address pins to what is remembered of them and to the call under way
  (`Addressed`).  `OwnChip` is the arithmetic: devices with addresses of their own are not
  selected by each other's offsets.  `ChipsIsolated` and `AlwaysDeselected` follow, failures
  included, the first under `AddressesApart`: whoever writes a device tree has to see to
  that, since `i80_dev_check` lets more in. `TypesKept`, `MessageDelivered` and
  `ReadAnswered` are about the words.  `MessageIs`, `WritesMessage` and `ReadsData` are the
  part without steps: the calls of an access, chunk by chunk, converted and swapped, are the
  message cut into pieces. `Moved` is the part with steps: `Progress` (what has been heard
  of an access are the calls that ended and the words of the one under way), `Pins` (the
  data pins are what is remembered of them, unless a pin failed), `Hearing` and `Reading`
  (each word was heard or read as it was on the pins).  `ByteAssumption` says that data of
  width 8 are bytes.
- `I80RegistryProofs`: references are balanced and nodes held for any tree;
  `AddedAlwaysApart` is what the address check does, over any number of bindings, and
  `EqualSizesApart` that it is enough for devices of one size, both by the lemma that
  different multiples of a number are that number apart: the address of a device that is
  added is a multiple of every size on the bus.  `i80_mixed` shows that the condition is
  needed.

- `LifecycleProofs`: the invariant is in five parts.  `Kinds` are the types; `Shape` says
  that `held` is a beginning of the resources in their order (`Listed`), how long it is in
  each stage, and that the frame buffer is last if it is registered; `Users` that a frame
  buffer which is registered, or a work that runs, still has its resources; `Power` what
  `chip` and `enables` are in each stage, which needs the number of the step in the driver's
  table; and `Lights` the backlight's notifier, count and brightness.  Each has a lemma with
  one step per action; the arithmetic of the sequence `held` is in lemmas of its own
  (`Grown`, `Shrunk`). Liveness apart, every property of the run is proved for any drivers
  and any number of probes (`AlwaysNearer` is described below).
- `RotationProofs`: `Requests` (who has the lock and which geometry the steps of a request
  see), `Left` (what the last successful `set_par` left holds until the next one takes the
  lock, also when `var` has changed already) and `Rows` (the rows recorded, and those of an
  update, are rows of the geometry they were recorded under) give `AlwaysAgrees` and, as
  every geometry has the area of the panel, `StaysInMemory`.  `ShownInPlace` follows from
  `Rows` and, for each controller and each angle, from where the first pixel of an update
  and its successors are put: identities of quotient and remainder by the length of a line.
  It supposes panels of at most 65536 columns and rows, because the addresses of the ILI9320
  are `u16`.
- `SpiWriteProofs`: bits first.  `MapThenSumSet` is unfolded for the at most ten terms it
  has here, which gives that the bits of a word cut into bytes are those of its bytes
  (`ChipBytes`), that eight words of nine bits come out of nine packed bytes as they were
  (`ChipPacked`), and what a chip makes of each kind of transfer (`HeardType`).  Then
  halves: `HalfHeard` says of a command or of data that its transfers are heard as the bytes
  it means, or as a beginning of them with a reason (`CommandIs`, `DataIs`), over all
  branches of `lcdreg_spi_write_one` and `lcdreg_spi_write_9bit_dc`.  Then pieces:
  `PieceHeard`, that the words between two pages are heard as that part of the transfer,
  because a page never cuts what the chip takes for a byte.  The steps keep `Shape` (types),
  `Stage` (what is left belongs to the half that `pc` says, the D/C line with it) and
  `Sending`: what the chip got and what is left for it, one behind the other, are together
  what the halves so far mean. A message moves its part from what is left to what it got, a
  failure drops the rest, and a new half puts its bytes behind.  `FaithfulHolds` and
  `CompleteHolds` are read off that.
- `SeqLemmas`: `FlattenSeq` and the folds are recursive functions, so their facts need
  induction.  No theorem of the library that takes an operator can be used, so `Induction`
  is stated with a set: one that has 0, and the successor of each of its members, is `Nat`,
  by the least member of what it lacks.

- **Ends, without fairness.**  Liveness itself is beyond the prover, but what it rests on is
  safety, and proved for all constants.  `NeverStuck` of `LcdRegProofs` and `I80BusProofs`:
  while any thread is in an operation, one of them has a step that waits for nobody, since
  who holds the mutex is past its lock and before its unlock (`LockInside`, `Locked`), on
  the error paths too.  It does not need `AllLocked`: `ssd1306_blank` may be among the
  operations. `AlwaysNearer` of these two, of `SpiWriteProofs` and of `LifecycleProofs`:
  each operation has a measure that its own steps lower and that nobody raises.  In `LcdReg`
  it is a number, six for each access (`OwnMove` says how a step moves its thread,
  `OthersStay` that the others are left alone).  In `I80Bus` and `SpiWrite`, where the words
  have no bound, it is a triple of natural numbers in the order of the dictionary: calls,
  phase of the call and words left; halves, transfers and pages left.  That its members are
  natural numbers is part of the property, because without it the order would have endless
  descents.  In `Lifecycle` it is a number again, eight for each resource; that in
  `fb_destroy` every step lowers it, whoever takes it, rests on `Users`: nothing is
  registered, open or queued anew by then (`Alone`). Together: no operation has an endless
  sequence of steps and they never all wait. What is left to fairness is that steps which
  can be taken are, and that no waiter of a mutex is passed over for ever.  `NotStuck` and
  `NearerEnd` of `LcdReg` and `I80Bus` are stated in the proof modules and in no run:
  `CallsEnd` and `AccessesEnd`, which the runs check, would fail with them.  That `CanGo` is
  when a step can be taken is read off the guards.

**Only model-checked**: liveness (`EventuallySent`, `CallsEnd`, `AccessesEnd`, `Unbinds`)
and the fairness of `ShadowDisplay!FairSpec` (the theorem is about its `Spec`), because
TLAPS proves neither liveness under fairness nor `ENABLED`.  Every invariant and every
action property of every passing run is proved; the hypotheses its theorem needs beyond the
assumptions are those of its run (`AllLocked`) or named above.

## Not modelled, and why

- Linux itself, beyond what the drivers use of it: `fb_defio.c`, the workqueue, mutexes, the
  driver core.  Interrupts are left out, so nothing is said about `dirty_lock` being taken
  from one.
- The content of the video memory and the values of pixels, with the page buffer of
  `ssd1306.c` (`ssd1306_update` packs the whole picture and sends it in one write).
- The values of the panels' power-on tables, reset pulses, delays and diagnostics.
- The parsing of the debugfs files and the buffer that all users of a read file share
  without a lock; the words of a read over SPI.  The quirk `LCDREG_INDEX0_ON_READ` of
  `mi0283qtfb.c`, with which the data phase of a read leaves the D/C line at command:
  `LcdReg` has reads without it.
- What follows when a frame buffer that was open at its unbinding is closed: the driver's
  memory is gone, and any outcome is possible.
- Several displays that share a supply or a backlight, and binding a driver again after
  `-EPROBE_DEFER`; unbinding an i80 master whose devices are in an access.
- Buses of other widths than 8 and 16: `lcdreg_i80_write_regnr` refuses 16-bit register
  numbers on them.

## What could follow

The words of a read over SPI, and the `LCDREG_INDEX0_ON_READ` quirk; several displays on one
supply.  In the proofs, the step from `ShadowDisplay!Spec` to its fairness would need a prover
for `ENABLED`.
