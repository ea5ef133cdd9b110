# A TLA+ development for SOSIS-OS

SOSIS-OS is a 32-bit x86 teaching operating system: a kernel with a keyboard
driver, a disk driver, a file system ("FAT32 - IF2230 edition") and a shell in
user mode. This directory holds TLA+ modules that model the parts of it that
keep state, TLC configurations that check them on small instances, and proofs
that TLAPS checks for every value of the constants. `PROJECT.json` lists the
runs, the mutations each property is tried against, the source lines of each
definition, and the hazards.

    tlc -config MCFat32Root.cfg Fat32Refinement
    tlc -config MCConsole.cfg MCConsole
    tlc -config MCShell.cfg MCShell
    tlc -config MCFiles.cfg MCFiles
    tlc -config MCInserter.cfg MCInserter
    tlc -config MCAtaDisk.cfg MCAtaDisk
    tlc -config MCNames.cfg Names
    tlapm Fat32Proofs.tla
    tlapm ShellProofs.tla
    tlapm InserterProofs.tla

The longest run takes some four minutes on two cores.

## 1. Inventory

| component | source | state | operations | talks to |
|---|---|---|---|---|
| FAT32 driver | `fat32.c` | disk clusters, cached FAT (`driver_state.fat_table`), directory buffer (`dir_table_buf`) | `initialize_filesystem_fat32`, `create_fat32`, `read_directory`, `read`, `write`, `delete` | disk driver (calls), RTC (dates), syscall dispatch |
| host inserter | `external-inserter.c`, `fat32-no-cmos.c` | the image in memory, the image file | load, `initialize`, `write`, store | a copy of the driver |
| disk driver | `disk.c` | the ATA registers | `read_blocks`, `write_blocks` (polling) | the device |
| keyboard, framebuffer | `keyboard.c`, `framebuffer.c` | `keyboard_input_on`, `buffer_index`, `keyboard_buffer`, cursor row, column and threshold, screen | `keyboard_isr`, activate, deactivate, `get_keyboard_buffer`, `puts`, cursor and cell writes | controller (ports), PIC, syscall dispatch |
| interrupts, system calls | `interrupt.c`, `idt.c`, `intsetup.s`, `syscall.c`, `fs-syscall.c` | PIC masks and in-service bits, IDT, IF, TSS | `pic_remap`, `initialize_idt`, `main_interrupt_handler`, `syscall_kernel`, `pic_ack` | everything |
| shell, commands | `user-shell.c`, `commands.c` | `cwd_data` (current cluster, previous cluster, name) | `cd`, `ls`, `mkdir`, `cat`, `cp`, `rm`, `mv`, `whereis` | system calls |
| strings, memory | `string.c`, `stdmem.c` | none | pure functions | |
| clock | `rtc.c` | the CMOS registers | `get_date`, `get_time` | the device |
| paging | `paging.c` | page directory, `last_available_physical_addr` | `allocate_single_user_page_frame` | MMU |
| GDT, loader, kernel start | `gdt.c`, `kernel_loader.s`, `kernel.c` | descriptor tables | `kernel_setup`, in a fixed order | all of the above |

How they interact. The kernel starts, brings up interrupts, the file system and
paging, loads the shell from the disk with `read`, and jumps to it. From then on
everything happens through `int 0x30`: the shell passes a request by pointer,
the kernel copies it, runs the operation to its end with interrupts off, and
stores a return code. The only call that enables interrupts is the one that
waits for a line from the keyboard. There is one processor and one process.

What is hard, and what makes each part correct:

* *File system.* Nothing interleaves with a call but a loss of power, which may
  fall between any two writes or inside one. Several pieces of state describe
  the same thing: entries, the FAT, the cached FAT, what lies in the clusters,
  and the cluster numbers that callers remember. Correct means: the FAT and the
  root directory are never overwritten; no two entries share a name; an entry
  names clusters that are taken; calls end; a call takes effect on a directory
  at one moment, whenever the power goes.
* *Keyboard and interrupts.* The interrupt routine and the waiting call share
  the line buffer. Correct means: a line that is typed arrives, as it was shown;
  no interrupt is lost for good.
* *Shell.* Composed of several driver calls, with holes in tables and stale
  cluster numbers in between. Correct means: each command has exactly its effect
  on the directory (cp adds its copy if there is a place and a name for it, rm removes its
  source, mv removes its source with or without a copy, nothing else changes),
  and finds what it is told to find, although names are fields of bytes on the one
  side of a call and C strings on the other.
* *Inserter.* A second copy of the driver works on the same image. Correct means:
  the two do the same, and an insertion changes nothing else, whatever it finds.
* *Disk driver.* A device that is polled and answers when it pleases. Correct
  means: blocks reach the disk in order, and a read sees what was written before.
* *Clock.* Registers that are read one by one while they tick. Correct means: a
  stamp is not older than the call that asked for it.

The hazards, line by line, with the properties that cover them or the reason why
none does, are in `PROJECT.json`.

## 2. Modules

| module | what it is |
|---|---|
| `Fat32Layout` | The structures on the disk and the pure operators on them: FAT maps, directory tables, cells. Parameters and their assumptions. |
| `Fat32` | The state machine of the driver, and its properties. |
| `RootDirectory` | Abstract: a directory is a set of entries that a call changes in one step. |
| `Fat32Refinement` | What the disk lists as the root directory implements `RootDirectory`. |
| `Fat32Proofs` | Lemmas about the operators, and the theorems on types, on the reserved clusters, on the cached FAT, and on what directories list. |
| `Fat32RefinementProofs` | The theorem on the root directory. |
| `LineReader` | Abstract: a caller gets the characters typed and not erased until Enter. |
| `Console` | The keyboard driver, the screen, and system calls 4 (read a line) and 5 (print). Implements `LineReader`. |
| `Interrupts` | Composes `Console` with the interrupt controller, the keyboard controller, the interrupt flag, the start of the kernel and the system calls. |
| `ConsoleProofs` | The theorems about `Console`, the refinement among them, and about `Interrupts`, which implements `Console`. |
| `Shell` | The shell and the commands that move in the tree (`cd`, `ls`, `mkdir`, `whereis`), composed with `Fat32`. |
| `FileCommands` | The commands that work on files (`cat`, `cp`, `rm`, `mv`), over `Shell`. |
| `ShellProofs` | The theorems about `Shell` and `FileCommands`. |
| `Names` | Names, extensions and sizes as bytes: `string.c`, `memcmp`, and where the shell and the driver use them. |
| `NamesProofs` | The theorems about `Names`. |
| `Inserter` | The host program that puts a file into the image, composed with `Fat32`, whose copy it runs. |
| `InserterProofs` | The theorems about `Inserter`: the two drivers do the same, and the image stays one the system can use. |
| `BlockStore` | Abstract: blocks reach the disk one by one in order, and a read waits for them. |
| `AtaDisk` | `read_blocks`, `write_blocks` and the device they poll. Implements `BlockStore`. |
| `AtaDiskProofs` | The theorems about `AtaDisk`, the refinement among them. |
| `Clock`, `ClockProofs` | The registers of the clock, the stamps, and the theorems about them. |
| `MCConsole`, `MCInterrupts`, `MCShell`, `MCFiles`, `MCInserter`, `MCAtaDisk`, `MCClock` | Texts, masks, files, calls and times for TLC. |

### Fat32Layout and Fat32

`disk` maps a cluster number to a cell: what kind of thing was last written there
and that thing. Code that reads a cluster as something else goes through
`AsTable` and `AsFat`: zeros read as an empty table, data and foreign structures
as a table whose first entry is no directory. `fat` is `driver_state.fat_table`,
`table` the directory buffer during a call. `pc` says where the call in progress
is; `cur`, `prev`, `first`, `counter`, `left` are the local variables of the loops
of `write`, `read` and `delete` under the names of the source where it has one;
`queue` holds the cluster writes that a call still has to do, in program order.

An action is the code between two writes of a cluster: the checks and the
memory-only loops of a call belong to the step that ends in its first write.
`WriteFile`, `AllocateCluster`, `AllocateLastCluster`, `DiskFull` and
`FlushWrite` are the file branch of `write`; `WriteFolder` the folder branch;
`Delete`, `WalkChain`, `EndOfChain` are `delete`; `ReadFile` and `FollowChain` are
`read`; `ReadDirectory` is `read_directory`; the early returns are
`WriteRefused`, `DeleteRefused`, `ReadNotFound` and `ReadNothing`.
`CreateFat32` and `LoadFat` are `initialize_filesystem_fat32`. `PowerLoss` may
come at any `pc` in `PowerFailsAt`; the write under way then leaves the first
blocks of the new cluster in front of the rest of the old one (`Torn`).

`Callers` may send the requests that the constants describe: operations, names,
extensions of folders, and one set of buffer sizes for each operation. They are
sets of any size, so that one set of theorems serves the small callers of the runs
and the shell.

Callers name a directory by a cluster number they have read (`known`): the root
directory, and every directory that a listing named since power-on. They keep
those numbers when the directory is deleted and its cluster is used for
something else, as `cwd_data` of the shell does.

What is abstracted, and how:

* Names and extensions are members of small sets; dates, times and the unused
  `cluster_buf` are left out.
* The payload of a file is told apart by the file it was written to and by its
  place in it (`DataCell`). A data write that is cut off is not told apart from
  one that was not started: it goes to a cluster that is free.
* The signature takes a whole cluster. What the rest of cluster 0 holds is never
  read; a directory table written there by mkdir on a full disk makes it differ
  from the signature, as it does in the code.
* A FAT link past the end of the array is read from memory that nothing in the
  system writes, which reads as zero; a cluster beyond the end of the disk reads
  as `Junk`, and the device refuses to write it.
* `table[parent_cluster_number]` past the end of the table falls outside the
  modelled memory; inside the table it is modelled as it is.

### RootDirectory and Fat32Refinement

`RootDirectory` has a set `listing`, the call in progress and its answer. A call
is submitted, takes effect in one step (`Commit`), and returns; a power loss comes
before or after the effect; `Format` makes an empty directory. `Fat32Refinement`
maps `listing` to the entries of the root directory as the *disk* has them, so
that a torn or misplaced write of any cluster would show, and derives `call` and
`answer` from the request, from what is left in `queue` and from the code.

### Console and LineReader

The variables are those of `keyboard_state` and `framebuffer.c` under their own
names; `call` is where the shell is in system call 4 (`user`: not in it;
`waiting`: in the loop; `copying`: behind it), `input` is the shell's buffer.
A key is named by what the table makes of its scancode: a character, newline,
backspace, or `Unmapped` for releases and keys without a character.
`KeyboardIsr` is `keyboard_isr` with one operator for each case of its switch
(`PressUnmapped`, `PressBackspace`, `PressEnter`, `PressChar`); with
`keyboard_input_on` off it only resets `buffer_index`. `Fgets`, `LeaveLoop` and
`CopyLine` are the three parts of case 4 between which an interrupt can come,
`Puts` is case 5, which runs with interrupts off. The counters have the width
of a byte (`UINT8` values), and a cell past column 79 or row 24 is one further
on in memory, as in `framebuffer_write`. `start`, where the line on the screen
began, is not in the code; the properties need it.

`LineReader` has a `phase`, the `line` typed so far and what the caller was
`given`. Under the mapping the line is, while it is being read, what the
*screen* shows between `start` and the cursor, and after Enter what the *driver*
has in front of the first terminator. The code keeps the two with separate
counters, and nothing in it compares them.

Two assumptions are part of this model. `InputSize + VGA_WIDTH =<
KEYBOARD_BUFFER_SIZE` (26 + 80 =< 256) is in `ConsoleAssumption`: without it a line that
overflows the driver's buffer and is then erased within its row differs from
the screen inside the part that the shell gets. `PromptFits`: the prompt ends
before the row does; the shell's prompts have at most 24 characters, and commands
end what they print with a newline. A line may be longer than the shell's buffer, and then has no terminator
there: `LineReader` promises one only where there is room.

### Interrupts

The devices are modelled from how the code uses them: the keyboard queues keys,
its controller holds one byte and keeps its line up until the byte is read
(`FillOutputBuffer`), the interrupt controller is edge triggered, serves by
priority and waits for an acknowledgement (`irr`, `isr`, `imr`), and the timer
ticks. `cpu` goes through `kernel_setup` in its order (`PicRemap`,
`InitializeIdt`, `ActivateKeyboardInterrupt`, `StartShell`) and then through the
system calls. `TakeInterrupt` enters a handler with interrupts off, and each
handler is one step up to its `iret`: none is interrupted. `OtherInterrupt` is the
default case of `main_interrupt_handler`, which acknowledges nothing. What runs
with interrupts off is one step; `FileSystemCall` and `FileSystemReturn` stand for
the calls that `Fat32` details. `KeysAt` is where a key may come although no line is
read: the values of `cpu`, all of them unless a run says otherwise.

A key is `Lost` when the controller holds it and no interrupt is requested for it any
more; its line then stays up and no edge ever comes again. The keyboard is `Blocked` behind a lost key, or
behind a tick in service, which has the higher priority and is never acknowledged.

### Shell

`cwd` is `cwd_data`, `command` the command in progress and `calls` the requests it
still has to make; everything else is the state of `Fat32`, whose actions the calls
use (`Serve`) with the requests that the shell really builds. `Cd`, `CdParent`,
`Ls`, `Mkdir` and `Whereis` are the commands up to their first system call;
`CdReturns`, `CdParentReturns`, `SearchReturns` and `OtherReturns` what each does
with the answer. The recursion of `search` is the list `calls`: the folders of a
table (`FolderSlots`), in their order there, are put in front of what is left. `cd` takes the first folder of the name,
entry 0 of the table included: `cd a` inside `a` goes up. `main` first writes its
files (`StartFiles`), once, on an empty disk: no power loss here. Names are members of a set
here (`Names` says which names that is true of); what commands print, and the
parser of the line, are left out.

### FileCommands

It adds to `Shell` the commands that work on files. `todo` holds the routines still
to run, `cp` or `rm`, or both for `mv`; `stage` is where the first of them is: `probe`
while mv reads source and destination, `list` while the current directory is read,
`read` while the file is, `change` while the copy is written or the file deleted.
`found` is what the routine remembers of the entry, `dest` the destination. `Cat`,
`Cp`, `Rm`, `MvFiles` and `MvFolders` are the commands up to their first system call;
`ProbeReturns`, `ListReturns`, `ReadReturns` and `ChangeReturns` what is done with each
answer. mv makes its second probe whatever the first returned (`stage` is then
`missing`), stops if either failed, and otherwise runs cp and then rm, whatever
became of cp. `IsFoundAt` is the loop over the table, which ends at the first hole.
`before`, what the directory listed and how many clusters were free when the command was
typed, is not in the code; the properties need it. `Removes` and `CopiesTo` say what a
command does to the entries, as a function of `before` alone, and `Copy` what the new
entry is: its size is 0 where the disk has no room, and its attribute a folder's where
the file was empty. The shell stays in the root directory here: what is
asked is what the commands do to a directory, and `Shell` moves through the others.

### Names

The other modules tell names apart as equal or not. Here a name is bytes: an `entry`
or a `request` is a sequence of bytes from its name on, `strncpy` fills a field without a
terminator, `strcpy` writes past it, `strcmp` reads past it, `memcmp` stops at its end,
and a string that fills its field goes on in the next one. One entry is made with
`Mkdir` or `CpTo` and then looked for with `Cd`, `CpFrom` (cp and rm) or `Mv`: `listed` is
whether the driver sees the name, `matched` whether the shell does. `Ls` prints a
size with `parse_int`. Words of `cd` fit the field, and `mv` and `cp` get two words: a
longer word, or a missing one, leaves a copy in the shell uninitialized.

Two functions write past what they are given. `split` copies the whole line into an
array with room for the part in front of the blank; `Room` is the longest line that
still stays in what the compiler gave that array, and longer ones are left out (`Fits`).
`split_ext` ends a word behind its last byte, and the arrays of `mv` (`name1`, `ext1`,
`name2`, `ext2`) have no byte for that: where a word is as long as its array (`full`),
the terminator may be the first byte of another of the four. `Mv` then either asks for the
empty name, or takes an extension as missing or a name as too long and does not ask, or goes
on as typed, and the model allows each of them.

### Inserter

`main` of `external-inserter.c` loads the whole image, initializes it, writes one
file or folder and stores the image, whatever `write` returned. Nobody sees the
image in between, so the copy of the driver is a function of it: `Initialized`,
`CodeFor` and `Written`, with `WithFile` and `WithFolder` for the two branches, say in
one expression what `Fat32` does cluster by cluster: the clusters that get data are the
first of the free ones (`FreeFrom`), and the part of the file that a cluster gets is its
rank among them (`PartIn`). `RunInserter`, `Insert`, `SaveImage`
are the program, `InserterKilled` its end before it opens the image for writing, and
`System` is any step of `Fat32`, while the program does not run. `start`, the disk when the
driver's `write` began, is not in the code; `DriverMatchesInserter` needs it.
`read`, `read_directory` and `delete` of the copy are never called and left out.

### AtaDisk and BlockStore

`Enter`, `Command`, `MoveIn` or `MoveOut`, and `Leave` are the driver: entering the call, the
first wait with the registers, one turn of the loop with its two waits, and the
return. `DataRequest`, `DeviceError` and `StoreSector` are the device. Words of a block and bytes
of an address are moved while the device waits for all of them, so a block is one
step. `BlockStore` has the blocks in `store` and those on their way in `outstanding`: under
the mapping, what the device has still to store, then what the driver has still to
move. A read begins at once and returns when nothing is outstanding; a write returns
with at most its last block outstanding, which is what the code does, whose last
turn waits for nothing; a power loss drops what is outstanding. `Fat32` builds on
the same: a write that is cut off leaves a prefix of its blocks.

What is assumed of the device: it shows BSY from the moment it gets a command, takes
none while it is busy, shows RDY whenever it does not show BSY, has its blocks
numbered from 0 on, and answers an address behind the last of them with an error,
that is, without a data request but with RDY.

### Clock

A time is a tuple of the seven registers, the century first, so that the walk of
`get_date_time` goes from register 7 down to 1 (`In`). `Tick` moves the clock by one
second, whenever it likes, carries and leap years included. A stamp is `get_date`, then `get_time`,
each with a walk of its own, and both are packed into sixteen bits. `start` and
`begun`, the time when the walk and the stamp began, are not in the code.

## 3. Runs

| run | module | shows |
|---|---|---|
| `fat32_root` | `Fat32Refinement` | `ReservedClustersIntact`, `ChainWalksUseCurrentFat`, `CallsReturn`, `RootImplemented`, with torn writes |
| `inserter` | `MCInserter` | `InserterTypeOK`, `NamesUnique`, `DriverMatchesInserter`, `InsertAddsOneEntry`, `FoldersListedAfterAllocation`, with folders in folders |
| `ata_disk` | `MCAtaDisk` | `AtaTypeOK`, `StoreImplemented` (the refinement), `AtaCallsReturn` |
| `clock` | `MCClock` | `ClockTypeOK`, `NeverBehind`, `StampExact`, `StampBehindOnlyAtMidnight` |
| `console` | `MCConsole` | `TypeOK`, `ShownIsDelivered` (the refinement), `PromptKept` |
| `interrupts` | `MCInterrupts` | `SystemTypeOK`, `KeysServed`, `BlockedOnlyThere`, `EnterReturnsLine` |
| `shell` | `MCShell` | `ShellTypeOK`, `CwdNameListed`, `CommandsEnd` |
| `files` | `MCFiles` | `FilesTypeOK`, `CatWithinBuffer`, `CommandEffect`, `CopiesEnd` |
| `names` | `Names` | `NamesTypeOK`, `LongNamesKeepRequest`, `FolderFoundByName`, `FileFoundByName`, `SizeShown` |
| `fat32_read_file` | `Fat32` | violated: `ReadReturnsTheFile` |
| `interrupts_type_ahead` | `MCInterrupts` | violated: `ScancodesProcessed` |
| `shell_parent` | `MCShell` | violated: `ParentReached` |

*Bounds of the file system.* Five clusters: three reserved ones and two to hand out, which is enough
for a file of two clusters, a folder in a folder, a full disk, a cluster that is
freed and handed out again, and a chain that leads to a foreign cluster. Three
entries per table: the directory itself, two more, hence a hole in front of an
entry and a full table. Cluster numbers 0 to 4 against indexes 0 to 2 keep both
cases of the index in `MarkNotEmpty`. Files are as large as a cluster or one
byte larger. One name besides the root's, with and without extension, gives
three different keys. In `fat32_root` two blocks per cluster give a torn write in
the middle of the table and of the FAT, and listings have a size that is
refused: everything happens in the root directory. `inserter` has the other half:
listings that name clusters, folders in folders, stale and foreign cluster numbers,
with one block per cluster, files of one size (two clusters), and no `read`. On the
host, parents are the root directory and the cluster behind it, and targets are
missing or have two clusters. In the model the sizes are independent, as the
theorems need nothing else about them than that they are positive.

*Bounds of the console.* `console` has two columns, three rows, a buffer of three
characters and a shell that asks for one, the smallest sizes that
`ConsoleAssumption` allows with a row that wraps, a corner in which the cursor
stays, and a buffer that is full before the screen is. `UINT8` is one more than
the larger of them, so that `puts` wraps its counters. One glyph besides the blank tells
a stale cell from a fresh one. `interrupts` has no glyph but a fourth row and a
shell that asks for two characters: what it asks is whether keys get through.
`QueueSize` is 1: with the controller's byte two keys are under way.

*Bounds of the shell.* `shell` has eight clusters, one start file of two, and so three
for folders; two names; three entries per table. The root directory is full with one
folder, so that mkdir there loses its entry, and every folder with two. Folders
nest three deep, the disk fills up, and a folder then takes the boot sector:
`CwdNameListed` is claimed up to that point, `CommandsEnd` beyond it. Nothing is deleted, since `rm`
is left to `files`: a shell inside a directory that is gone cannot occur.

*Bounds of the file commands.* `files` has five clusters, hence two to hand out, and six
entries per table: the directory, three start files, and two more. File `a` has no
extension and fills a cluster, `b.uwu` has a byte more, and `b.txt` fills a cluster; there is room
for all of them because the last cluster of a file stays free and is handed out again.
Two names and three extensions, and copies of the files over each other, give: a file
behind a hole, which no command finds; a file that a folder of its name shadows; cp into a
full directory; a copy without a size on a full disk; a copy of an empty file, which is a
folder; mv whose copy is refused because the destination is listed; mv that moves; and chains that
lead on to foreign clusters. mv into a full directory is left to the theorem. `cat` has a buffer of one cluster.

*Bounds of the disk driver and the clock.* `ata_disk` has four blocks and two contents; its calls move
one or two blocks, overlap, come again, and begin behind the end of the disk, so
that a block that is lost, doubled or moved early shows. `clock` starts two
seconds before the end of a century, of February with and without a leap day, of a
month and of an hour, and ticks four times: every register has carried, between any
two reads. A stamp takes fourteen reads, far less than a second each, and four
ticks within it are more than the hardware can do.

*Bounds of the names.* `names` has fields of two bytes each for eight and three, two
letters, and words of up to six. A word ends within the name, fills it, ends within
the extension, fills that as well, or runs one or two bytes further, into the parent and the
size of a request; an extension is empty, shorter than its field or fills it.
`Room` is large enough for every line of these words. The sizes have one digit, two
digits with a zero, and those that start files have.

*Power.* In `fat32_root` and `inserter` power may fail everywhere but during the format,
and the properties are claimed under that assumption: the signature reaches the disk
before the FAT does, so that a format that is cut off is taken for a finished one.
The violations need no power loss at all.

*Requests for folders.* `NamesUnique` holds as long as their ext field is empty and
clusters are written whole, which `inserter` assumes: half a table over a stale one may
list a name twice. The shell's `mkdir` does not guarantee an empty ext: the name
is copied with `strcpy` and a long one runs into ext, which `write` compares and
never stores. With an ext in the request a second folder of the same name is made.
`LongNamesKeepRequest` says up to which length the request still asks for the same
folder in the same place.

*Fairness.* `FairSpec` asks for weak fairness of the kernel's own steps only: a
call runs on the only processor with interrupts off and is never descheduled.
Nothing is asked of callers or of the power. `CallsReturn` leaves out `delete`,
whose loop over the chain really may not end.
`FairAtaSpec` asks that the processor runs and that the device answers a command: the
driver has no timeout, and promises nothing of a device that is silent.
`SystemSpec` asks for weak fairness of the start of the kernel, of interrupts, of
the return from a file system call, of the two steps behind the waiting loop, and of
the controller that passes on a key it has: there is one processor, and it never
stops. Nothing is asked of the user, the timer or the shell. `ShellSpec` and
`FilesSpec` ask the same for a command that was typed: its calls, the driver and
their return go on. `CopiesEnd` speaks of cat and cp only, as rm and mv call `delete`.
`interrupts` checks no deadlock: in the loop of case 4 the processor spins, which
changes no state.

*Keys that come early.* In `interrupts` a key comes at any time (`KeysAt` is every value of
`cpu`), and so does a tick, under every mask that the firmware may leave.
`KeysServed` has one exception, a `Blocked` keyboard, and `BlockedOnlyThere` says that there are three
ways to get there: `pic_remap` forgets a request that was made before it
(`interrupt.c:31`); `initialize_idt` enables interrupts (`idt.c:24`) before
`activate_keyboard_interrupt` masks the timer (`kernel.c:17`), and a tick in between is never
acknowledged; and `keyboard_isr` acknowledges a key that it does not read while no
line is read (`keyboard.c:298`). There is none back. `interrupts_type_ahead` is about the
third alone: keys come after the start only (`KeysAt`), and the firmware has masked the timer.

*What the violations say.* The chain of a file is stored without its last
cluster, which stays free and is handed out to the next file, so `read` returns
other data than was written (`fat32_read_file`). A key that comes while no line is being read
blocks all keys after it (`interrupts_type_ahead`). `cd ..` enters the parent of the parent
(`shell_parent`).

Further disagreements between the code and what it says of itself were met while
modelling. They have no run of their own; the models share them, and the properties
hold with them:

* `write` marks a directory as not empty at an index that is a cluster number, in the
  table of that directory instead of its parent's (`fat32.c:162`): folders with
  contents can be deleted, contrary to `fat32.h:245`.
* A chain that leads to a free cluster or to cluster 0 keeps `delete` busy for ever
  (`fat32.c:297`), where `fat32.h:248` promises a return code.
* On a full disk mkdir takes cluster 0 and writes its table over the boot sector
  (`fat32.c:260`), whose signature `fat32.h:43` keeps there.
* The signature is the first cluster that a format writes (`fat32.c:17`): after a
  power loss `is_empty_storage` answers no (`fat32.h:184`) and a FAT of zeros is loaded.
* `write` answers 0 when the directory is full (`fat32.c:222`); `read` moves whole
  clusters into a buffer of the file's size (`fat32.c:120`); `read_directory` answers
  2 (not found) for a file, never 1 (`fat32.c:88`).
* The FAT is not loaded into memory after a format, contrary to `fat32.h:118`;
  `ChainWalksUseCurrentFat` shows that to be harmless.
* mv removes the source whatever became of the copy (`commands.c:614`). It goes on only
  if there is a file of the destination's name, so that a copy with the same
  extension is refused and the source is gone; on a full disk the copy has size 0, in a full
  directory there is none. That contradicts `commands.c:630` ("move src file to dest file and
  remove src file"). `CommandEffect` states what happens instead, case by case.
* cp of a file of size 0 makes a folder (`commands.c:342`), as a request of size 0 does.
* mv of a name of eight bytes, or with an extension of three, may ask for another file than
  the one typed, or not at all (`string.c:121`, `commands.c:558`); `FileFoundByName` says
  what is left of it.
* `write_blocks` returns before its last block is stored, where `disk.h` speaks of
  blocking until the write is completed; `StoreImplemented` shows that no later call
  can tell, and what a power loss can.
* `rtc.h` describes dates and times as digits (YYYYMMDD, HHMMSS); the code packs
  them into sixteen bits, which `StampExact` decodes for a stamp within which no minute ended
  (`StampBehindOnlyAtMidnight` is about the others).
* Enter is ignored on the last row of the screen, where every session ends up, and
  the call that waits for it does not return, contrary to `keyboard.h:66`
  (`EnterReturnsLine` excludes that row).
* The inserter's copy of `read_directory` reads the cluster of the loop counter instead
  of the entry's; nothing calls it.

## 4. Proofs

`Fat32Proofs` proves first what the operators return, and then, from
`LayoutAssumption` and `RequestAssumption` only:

* `TypeCorrect`: `Spec => []TypeOK`. The invariant is `TypeOK` together with
  `QueueOK` (a call that is writing has something to write).
* `ReservedClustersKept`: if power does not fail during the format,
  `Spec => []ReservedClustersIntact`. The property is not inductive: it says what
  clusters 1 and 2 hold and nothing about what may lead a call to them. `SafeInv`
  adds that: no link of any FAT that is on the disk, in memory or on its way
  (`SafeMap`), and no entry of any table (`SafeTable`), names one of the two;
  neither does a loop variable (`CallSafe`); no caller knows cluster 1, and the
  table in a call on cluster 2 is a root table; the writes outstanding keep all
  of this (`QueueSafe`), and so does every torn mixture of two safe cells
  (`TornSafe`). Entry 0 of a table may name the root directory, which is why
  delete has to start at entry 1.
* `ChainsFollowTheDisk`: if power does not fail during the format,
  `Spec => []ChainWalksUseCurrentFat`. Between two calls the cached FAT is the one
  on the disk (`Current`), with one exception: `create_fat32` leaves it empty
  (`Fresh`). Then the root directory has no file yet and callers know no other
  directory, so that no read gets as far as the FAT; and every call that changes
  this loads the FAT first. `SavesFat` carries `Current` over the writes of a call:
  only the first one outstanding can go to cluster 1, because no folder is ever
  placed there (`SafeInv` again).
* `NoNameTwice`: if requests for folders leave ext empty and clusters are written
  whole (`WholeWrites`: blocks as large as clusters, or no power loss in a final
  write), `Spec => []NamesUnique`. The tables on their way to the disk are as unique
  as those on it (`UniqueInv`), and the loop that places the data of a file keeps a
  table that does not have its name (`Accepts`). A cluster that reads as a directory
  is one (`DirectoryKind`), which is why reused clusters do no harm.
* `FoldersListedLate`: if power does not fail during the format,
  `Spec => FoldersListedAfterAllocation`. `FolderInv` says which of the three writes
  of mkdir are outstanding and what the FAT on the disk has while they are; each
  entry of a table, torn or whole, was there before or names the new cluster
  (`WrittenEntries`, `ListedIsNew`).

`Fat32RefinementProofs` proves, from the same assumptions:

* `ImplementsRootDirectory`: if callers keep to `PlainUse` (no entry is named "root" or
  nothing, folders have no extension, power does not fail during the format),
  `Spec => RootImplemented`. Without it the claim is false: a folder with an
  extension is looked up under one key and stored under another, and delete does not
  find entry 0, which write takes for a duplicate. Of a table only names, extensions
  and undelete flags matter (`Same`); a call changes them in one slot at most
  (`Adds`, `Removes`), so that whatever part of a directory write reaches the disk,
  the old listing or the new one is there (`TornTable`). `RootInv` adds that delete
  finds every entry and in one place only (`Findable`), and that one write outstanding
  at most goes to the root directory and does what the call is to do (`RootWrite`).
  That write is the step where the call takes effect; everything else is a stutter,
  because no loop writes cluster 2 (`SafeInv`).

The proofs have one lemma per action, and the invariants were checked by
TLC before they were proved. What `CallsReturn` rests on is `CallsComeCloser`, below.

`ConsoleProofs` proves, from `ConsoleAssumption` only, so for every size of screen,
buffer and counter and for all texts:

* `TypeCorrect`: `Spec => []TypeOK`.
* `LineDelivered`: `Spec => ShownIsDelivered`, that is, `Console` implements
  `LineReader`: initial states map to initial states, and each step to a step or
  a stutter.
* `PromptNeverErased`: `Spec => PromptKept`.

The last two rest on `LineInv`. Driver and screen count the line separately, and
they can disagree: a full buffer stops `buffer_index` while the cursor goes on, and
the corner of the screen stops the cursor while the buffer fills. `Agreement` says
how far: above the last row the driver never has more than the screen, and if it has
less, its buffer was full and `buffer_index` is still at least
`KEYBOARD_BUFFER_SIZE - VGA_WIDTH + cursor_col`, because Backspace does not leave
the row; with the assumption on the sizes that is beyond what the shell gets. On
the last row nothing need agree, as Enter does not work there. `Place` says that
neither the cursor nor the limit of Backspace is in front of `start`, which is why
the prompt is safe; it needs `Quiet`, what the cursor and the limit are between two
lines, where Enter has moved the one and not the other. `Terminated` says
that the line behind Enter stays where it is until it is copied, whatever keys
come. All parts were checked by TLC first.

About `Interrupts` it proves, from `SystemAssumption` besides:

* `SystemTypeCorrect`: `SystemSpec => []SystemTypeOK`.
* `SystemImplementsConsole`: `SystemSpec => Spec`. Each step of the system is a step of
  the driver or leaves its variables alone; `KeyboardInterrupt` needs the types, as the
  byte it reads from the controller has to be a key.
* `SystemDeliversLine`: `SystemSpec => ShownIsDelivered /\ PromptKept`, which follows: the
  line arrives as it was shown with real interrupts too.

`AtaDiskProofs` proves, from `AtaAssumption` only:

* `AtaTypeCorrect`: `AtaSpec => []AtaTypeOK`.
* `AtaImplementsStore`: `AtaSpec => StoreImplemented`, for every disk, every set of calls,
  and every order in which driver, device and power act.

The types alone say nothing about where the device is. `IInv` adds, for each place of
the driver, how far the device has come: between two calls it is ready, or has one
block left to store, which is the last one of a write (`RestInv`); in a read, what was
moved so far is what is on the platter, and the next block of the loop is the next
block of the device (`ReadInv`); in a write, the loop is at most one block ahead of
the device (`WriteInv`); and in both, once the device has run out of blocks everything
behind is beyond the disk as well, which needs that blocks are numbered without gaps.
The refinement is one lemma per action: `StoreSector` is `StoreBlock`, `Leave` is the
return, `Enter` the call, and the rest are stutters, because `ToStore \o ToMove` does
not change when a block goes from the driver to the device, or when a block beyond
the end is dropped from both sides.

`ClockProofs` proves, from `ClockAssumption` only, so for every time of the calendar and
any number of ticks:

* `TypeCorrect`, `TimeNeverBehind`, `StampsInOrder` and `StampsExact`: `ClockSpec` implies
  always `ClockTypeOK`, `NeverBehind`, `StampBehindOnlyAtMidnight` and `StampExact`.

`OrderInv` is the heart of it: what has been read so far, filled up with what the
registers not yet read show now (`View`), is never before `start`. A tick that reaches a register not yet read raises it, and
what it resets counts less, so it can only put the view later; reading a
register does not change the view at all. That holds because the walk goes from
the second to the century; in the other order the invariant, and the property,
fail. `StampInv` says which registers are as they were when the stamp began, as
long as no carry reached them.

`ShellProofs` proves, from the assumptions of `Fat32Layout`, `Fat32`, `Shell` and
`FileCommands` only, so for any number of commands and every set of names:

* `ShellTypeCorrect` and `FilesTypeCorrect`: `ShellSpec => []ShellTypeOK`, `FilesSpec =>
  []FilesTypeOK`. Every call is a request, so the lemmas of the driver on types apply.
* `CatFits`: `FilesSpec => []CatWithinBuffer`. The clusters moved and the bytes left
  (`CatInv`) always add up to what the buffer can take.
* `CwdNameFound`: `ShellSpec => []CwdNameListed`. The claim is about the table of one
  directory, but `cd ..` makes it one about the whole tree: it enters the grandparent,
  under the parent's name of it. `Tree` says that a folder that is listed leads to a
  table that begins with its own name and names a parent that lists it (`Placed`);
  `Taken`, that no cluster of a table is handed out; `Anchored`, that the shell stands on
  two placed tables. mkdir lists a folder before it writes its table, so none of this holds
  of the disk: it holds of `Settled`, the disk as the outstanding writes will leave it.
  Nothing is said once the boot sector is overwritten, after which cluster 0 is a table.
* `CommandsHaveTheirEffect`: `FilesSpec => CommandEffect`. `EffectInv` carries the claim over the
  calls of a command. Until the copy is decided the directory lists what it did (`EffectSoFar`);
  from then until the source goes, that and the copy, where one is due (`CopyDone`); and after that,
  the `Effect`. What makes it inductive is what the
  routine remembers between two calls: cp writes the entry that it found (`FileFound`,
  `SourceFound`), the two answers of mv's probes say what the directory lists, the copy of mv is
  not what its rm takes for the source, and delete stops at the first entry of the name
  because every entry has its undelete mark (`Undeleted`). The size of the copy is the work of
  `CountInv`: no cluster is taken between the typing and the copy, and the loop of `write` has
  passed one cluster less than `counter` of those that were free, so that it gives up exactly
  if the size needs more than there were.

What the driver promises its callers, it promises them under assumptions on their
requests. The shell is composed with the driver, and the last sections of
`ShellProofs` show that it is such a caller, so that the theorems hold with it too:

* `ShellCallsTheDriver`: `ShellSpec => Plain!Spec`, where `Plain` is the driver with the
  callers that the shell and `main` are: no `delete`, no `read`, folders without an
  extension, files with contents, no loss of power. What has to be shown is that
  the shell names only clusters that `Fat32` lets a caller know (`known`).
  `cd` and `whereis` take the number from an entry of a listing, and keep it in `cwd` and in
  `calls`. `ReachInv` says that each of those is still known, and that a table with a folder
  in it, stale or not, begins with a folder, whose entry names the parent.
* `ShellKeepsTheTables`: `ShellSpec` implies `[]NamesUnique`,
  `[]ReservedClustersIntact` and `FoldersListedAfterAllocation`. The assumptions that those
  have (`WholeWrites`, no power loss during a format, no extension) hold of `Plain`.
* `ShellImplementsRootDirectory`: `ShellSpec => Plain!RootImplemented`, if nobody types the
  name of the root directory or an empty one.
* `FilesCallTheDriver` and `FilesKeepTheTables`: the same for `FileCommands` and `Driver`,
  which sends any request: `FilesSpec` implies `[]ReservedClustersIntact`,
  `[]ChainWalksUseCurrentFat` and `FoldersListedAfterAllocation`. `NamesUnique` and
  `RootImplemented` are not claimed, and the first is false: on a full disk cp makes a
  file of size 0, cp of that file asks for a folder *with* an extension, and the
  check for duplicates then compares another key than the one that is stored. With six
  entries per table and three names TLC finds a directory with two entries of one name and no extension.

*What the liveness properties rest on.* A property under fairness says that something
becomes smaller until it is done, and that the next step is always possible. The
provers cannot combine the two, but they can do both halves:

* `CallsComeCloser` (`Fat32Proofs`): with every step of a format, read, write or
  read_directory, `CallDelay`, the clusters, bytes or writes that are left, falls;
  and the loop always has a cluster and a write has something to write (`CallGuard`).
  `delete` frees one more cluster with every turn as long as its chain leads to one
  that is taken (`DeleteCloser`), and beyond that nothing is claimed. Only the bounds of the two
  loops (`LoopInv`) are needed; the disk may hold anything, and power may fail.
* `AtaCallsComeCloser` (`AtaDiskProofs`): the same for a call of the disk driver and the
  device, with about three steps for each block left.
* `KeysComeCloser` (`ConsoleProofs`): whenever keys come, one in the
  controller is one or two interrupts from being read or from a blocked keyboard (`KeyDelay`);
  the next of them can be taken while the shell runs, and no other step, however many there are, sets it back.
  `HandlerInv` says why: what is in service is what is being handled, but for the tick that nobody acknowledges.
  `KeyboardBlocked` is the exception: `SystemSpec => BlockedOnlyThere`, with no assumption on keys, ticks or masks.
* `CommandsComeCloser` (`ShellProofs`): with every step of a file command,
  `CallsToCome`, the calls that its routines can still make, falls, or stays and
  `CallDelay` falls, whatever the calls answer; and between two calls there is one to
  make. The loop of delete is the exception, which is why `CopiesEnd` is about cat and cp.

`NamesProofs` proves, from `NamesAssumption` only, so for fields of any size and any
letters:

* `NamesTypeCorrect`, `RequestKept`, `FolderFound` and `FileFound`: `NamesSpec` implies
  always `NamesTypeOK`, `LongNamesKeepRequest`, `FolderFoundByName` and `FileFoundByName`.
  The last has two limits, which are the code's: a name that fills its field runs on into
  the extension when the shell compares it, and mv finds what it should only if no word
  fills the array it is cut into; otherwise it may find nothing, but never another file.
* `SizeIsShown`: `NamesSpec => []SizeShown`. A size has at most nine digits
  (`NamesAssumption`), so that the value of the digits, a recursive function, needs no
  induction: `ValueOfDigits` takes its steps one by one, each of which turns the size
  divided by a power of ten into the size divided by the next smaller one.

The string functions are stated as what their loops compute, with the least index at
which something holds; `SameString` and `Joins` are the lemmas that turn a comparison
of memory into one of words. The inductive part is small: `FolderBytes` and `FileBytes` say which
bytes the fields of the stored entry have while it is looked for.

`InserterProofs` proves, from `InserterAssumption` and those of `Fat32` only, so for
every disk, table and file, and every order of runs of the inserter and the system:

* `InserterTypeCorrect`: `InserterSpec => []InserterTypeOK`, which includes the types of the driver. `HostInv` says that while the
  program runs the system is off, and what it holds is the disk, or what `write`
  makes of the disk and the arguments.
* `DriversMatch`: `InserterSpec => []DriverMatchesInserter`, without an assumption on the
  disk: it may be torn, and its FAT anything. `Placing` is the invariant of the loop over
  the clusters: after n parts the disk is the one the call began with and n parts in the
  first n free clusters, the FAT in memory has them linked, and the local variables
  are where the next part goes. `Saving` is what holds behind the loop: the writes that
  remain turn the disk into `Written`. The rank of a cluster among the free ones is
  a cardinality, about which the first lemmas are.
* `InserterKeepsReserved`, `InserterNamesUnique` and `InserterFoldersListedLate`: the three
  invariants of the driver, under the assumptions they have above, with the inserter
  between the runs of the system. The driver's own lemmas carry its steps; what is added
  is that the image that is written back is one that keeps them (`SafeImage`, `UniqueImage`).
* `InsertAdds`: `InserterSpec => InsertAddsOneEntry`, if power does not fail during the
  format and no caller uses the names "root" and nothing (`PlainNames`). With an empty name
  the entry would not be listed. `SafeImage` is needed here as well: without it a file could
  be put over the root directory.

What `Inserter` and `Shell` have of their own in recursions and loops is stated with sets and
increasing functions, so that it can be reasoned about.

Model-checked only:

* everything under fairness (`CallsReturn`, `AtaCallsReturn`, `KeysServed`, `EnterReturnsLine`, `CommandsEnd`,
  `CopiesEnd`): what fairness and ENABLED add to the theorems above is out of the provers' reach, and so is
  a step count for `whereis`, which is the size of a tree;
* that the three properties of the violation runs fail.

## 5. Not modelled

* *Paging.* `kernel_setup` maps one frame for the shell, once, at a constant address;
  frames are never given back and no second process asks for one. There is no
  state that a second step could meet.
* *Port I/O, GDT, loader.* Single instructions, constant tables and straight-line
  code before interrupts are on. Their effect is part of the device models and of the
  order of `kernel_setup` in `Interrupts`.
* *The page fault handler, saved registers, the TSS*: the handler halts, and
  nothing reads the others back.
* *The parser of the line and what is printed.* The commands are modelled from their
  arguments on.
* *Memory around the buffers.* The mark of a directory with a number of 64 or more
  (`fat32.c:162`), the buffers of cp and rm that are a cluster short (`commands.c:326`), words
  longer than the fields of cd and mv, a line longer than the array that `split` copies all
  of it into (`string.c:73`), a line without a terminator: what is hit
  depends on how the program was compiled and linked. Of a terminator behind the arrays of mv only what it
  does to the other three is modelled, not what it does to a saved register.
* *Half an image.* The inserter killed while it writes the file back is a matter of
  the host's file system.

* *The root directory with the inserter.* `RootDirectory` is not what the inserter and the
  system together promise. An image that has lost its signature (a folder on a full disk, or a delete
  along a chain through cluster 0) is formatted and gets its entry in one write, and an
  inserter that is killed undoes it. `InsertAddsOneEntry` says what a single run does.
