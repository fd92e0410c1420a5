# A verification project for JVMOS-JIT

TLA+ specifications of the operating system in `src/`: what each part does, model-checked by TLC on small
instances, and the facts that matter most proved by TLAPS for every value of the constants. Line numbers
below refer to `src/`; `PROJECT.json` maps every definition to the lines it translates.

JVMOS-JIT boots from GRUB into one thread. An assembly layer (`boot/sys_api.asm`) drives the hardware, a loader and a
compiler (`jvm/bootjvm.asm`, `JIT/jit.asm`) turn Java class files into x86 code, and `kernel/Boot.java` is the
desktop: it draws windows, edits and runs files, and calls down through `Native.sys`. Two C parts sit
beside it: a FAT32 driver (`fs/`) and a WebAssembly interpreter with its host (`wasm/`).

## 1. Inventory

| Component | State it keeps | Operations | Talks to | What is hard | What makes it correct |
|---|---|---|---|---|---|
| FAT32 driver `fs/fat32.c` | on disk: FAT copies, root directory, data; in memory: geometry | mount, format, list, read, write, delete, free count | ATA (one sector per call); called by the file manager, boot, `fs_run` | every sector access can fail, power can go between two; results of `fat_entry_set` are ignored in two places | no two files share clusters; the root directory is never lost; a write is all or nothing for its callers |
| Boot decision `fs_init` in `fs/fat32_disk.c` | `g_status`, `g_fs` | probe, mount, `foreign_volume`, format, ship two files | FAT32 driver | a read that fails looks like "no volume"; several power-ons | no disk that holds something is formatted |
| File manager and edit buffer `fs/fat32_disk.c`, `Boot.java` | selection, armed delete; name, text, dirty flag, caret | select, delete twice, open, save, new, rename, type | FAT32 driver, by listing index | the index is re-read against a listing that changes | only a confirmed file is deleted; a clean buffer shows its file |
| Desktop windows `Boot.java` | z-order, open and minimised flags, drag and hover state | open, close, minimise, raise, Alt+Tab, taskbar, open all, restore all | keyboard and mouse loop | long sequences of legal clicks | the z-order is a permutation; closed windows do not take keys |
| Keyboard `sys_api.asm` 404-481, 829-904 | ring, head, tail, modifier bytes, prefix flag | IRQ1; one key per loop round | desktop loop | an interrupt between any two accesses of the reader | the ring is a queue; no key without end in it; modifiers not invented |
| Mouse `sys_api.asm` 490-554, 964-982 | packet phase, x, y, buttons | IRQ12; three separate reads | desktop loop | torn reads, lost bytes | a position on the screen; no click invented |
| Timer and sleep `sys_api.asm` 391, 571-601 | tick counter | IRQ0, get, sleep | loop, music | wrap of the counter | sleep ends |
| Kernel heap `sys_api.asm` 606-651, `jit.asm` 2291 | bump pointers | allocate | JIT, audio, Java code | fixed ranges that can meet | blocks do not overlap |
| ATA `sys_api.asm` 1720-1891 | the controller | bounded polling, read, write one sector | FAT32 driver | a drive that never answers | every call ends |
| Graphics `sys_api.asm` 997-1415 | clip rectangle, blend, frame buffer | fill, blend, line, text | everything that draws | clipping at edges | nothing drawn outside the clip |
| WebAssembly interpreter `wasm/wasm.c` | operand, label and local stacks shared by all calls, memory size, module | load, call, every opcode | host functions | branch targets found by scanning; shared stacks; 32-bit sizes | does what the block structure means; stays in its memory |
| WebAssembly host `wasm/host.c` | the module, its page of memory, key queue, window rectangle | load, replace, frame, push key, draw, beep | interpreter, fs, desktop | replacing the module that is running | a guest never runs over foreign bytes |
| Music and sound `host.c` 95-125, 298-349, `sb16.c` | sequencer clock, clips, card | select, tick, play | timer | wrap, late ticks, shared memory | notes on time; buffers its own |
| Class loader `jvm/bootjvm.asm` | current class, constant pool | parse, find, resolve and compile | GRUB modules, JIT | nested compilation replaces the current class | the caller's class comes back |
| JIT `JIT/jit.asm` | code pointer, forward-branch table, static slots | one routine per bytecode | class loader | fixups, table sizes | a branch lands where the bytecode says |
| Sokoban `Boot.java` 2480-2620 | level, player, boxes | move, push, undo, next | keyboard | — | boxes and walls stay apart |
| Network card, boot stubs, Java stubs, guest and assets, tests | none or none of their own | | | | |

How they interact: everything but the three interrupt handlers runs in one thread, from `desktopLoop`
(`Boot.java` 375-413): read the mouse, one key, press, release and drag handlers, paint if changed, music tick, sleep one
tick. The handlers share only the ring, the modifier bytes, the mouse fields and the tick counter with it. There are therefore
no locks and no callbacks; what is concurrent is the interrupts, and what is interrupted otherwise is the power
and the disk. `PROJECT.json` lists every hazard at its line with the properties that would catch it.

## 2. Modules

Each specification module is checked through a module `MC...` that gives it a small instance, and its proofs are in a module of
their own that extends it.

| Module | Models | Notes |
|---|---|---|
| `FileStore` | abstract | what a program above the driver relies on: names hold whole bodies, one request at a time |
| `Fat32` | `fs/fat32.c` 83-133, 252-486 | write and delete on the volume `format()` makes, a step per sector written |
| `Fat32Store` | | the refinement mapping: `Fat32` implements `FileStore` |
| `FsBoot` | `fs_init`, `foreign_volume`, `fat32_mount`, `fat32_format` | a step per sector access, any number of boots |
| `Files` | `Boot.java` 375-413, 624-810, 1954-1972, `fat32_disk.c` 161-421 | selection and paints, two-press delete, buffer name and dirty flag over a volume |
| `Desktop` | `Boot.java` 229-284, 846-1172, 1596-1602 | z-order, open and minimised |
| `Keyboard` | `sys_api.asm` 404-481, 829-904 | one step per memory access of the reader, one per interrupt |
| `WasmCode` | | sequences and the static block structure of a body: a reference definition of which `end` closes what |
| `WasmStructured` | abstract | running a body by its blocks: one operand sequence per open block and call |
| `WasmMemory` | `wasm.c` 441-451, 703-766, 374-434 | bounds check and growth in 32-bit arithmetic |
| `WasmMachine` | `wasm.c` 98-167, 438-877 | the interpreter with its shared stacks; implements `WasmStructured` |
| `WasmValid` | external | what validation finds in a body: the operands and the open blocks before each instruction |
| `VolumeLayout` | `fat32.c` 14-37, 83-122, 137-242, `fat32.h` 25-36 | operators: the bytes format writes and mount reads, the sectors the driver computes from them |
| `TextLines` | abstract | an editor over a sequence of lines: type, break, erase, left, right, up, down |
| `EditBuffer` | `fat32_disk.c` 223-351, 384-428, `Boot.java` 531-704, 2106-2120, 2200-2205, 2388-2412, `fat32.c` 58-79 | the flat text, caret, scrolling, name field and 8.3 names, key by key; implements `TextLines` |
| `SoundCard` | `sb16.c`, `sys_api.asm` 391-397, 578-601 | the tick counter, the clips in the DMA buffer, one-shot transfers, the speaker tone that blocks |
| `Music` | `host.c` 85-125, 252-269, 298-349, `Boot.java` 403-409 | the sequencer, effects, sound switch and the guest's window; extends `SoundCard` |
| `Leb128` | `wasm.c` 34-75 | operators: the two readers of variable-length numbers |
| `WasmLoad` | `wasm.c` 191-434, 852-877, `wasm.h` 24-121 | operators: each section's effect on the module, or its error; the lookup of a call |
| `WasmHost` | `host.c` 50-68, 271-279, 341-452, `fat32_disk.c` 368-382 | launching, replacing and calling the guest, the key queue; extends `WasmLoad` |
| `GuestModule`, `Images` | `guest_module.h`, `images.h` | what the compiled-in module declares; what the pictures' arrays hold |
| `GuestDraw` | `host.c` 137-240, `font.asm` 248-315 | operators: the pixels each drawing call paints, in 32-bit arithmetic where a guest's numbers reach its ends |
| `Fat32Proofs`, `FsBootProofs`, `FilesProofs`, `DesktopProofs`, `WasmProofs`, `BlocksProofs`, `MusicProofs`, `WasmHostProofs` | | proofs; `DesktopProofs` is about `Desktop`, `Keyboard` and `EditBuffer`, `WasmProofs` about the interpreter, `BlocksProofs` about its refinement, `WasmHostProofs` about `WasmHost` and `GuestDraw` |

`FileStore` is what `Files` assumes of its volume (with the directory's slot order added, because it orders the listing), and
`FsBoot.Ship` stands for two calls of `Fat32`. `WasmMachine` extends `WasmMemory`. `Files` and `EditBuffer` are two views of one buffer: the
first beside a volume of several files, the second key by key. `MCPrograms` is where the host, the loader, the number readers, the guest that is
compiled in and the drawing calls meet; `MCFsBoot` is where the boot decision and the layout do.

### How the models read

**Fat32.** `fat` has the FAT copies, `dir` the slots of the root directory, `data` one block per cluster. `pc`
follows a call: `lookup` (find_entry and the slot search), `next`/`clear` (free_chain), `alloc`, `claim`, `link`, `block` (the
loop of `fat32_write_file`), `entry` or `mark` (the directory sector). `copy` is fat_entry_set's loop over the FAT copies.
Each step that touches a sector may fail as the code lets it fail: ignored in free_chain and the link step, returned elsewhere.
`Reads` is fat32_read_file's loop, a recursive function of the blocks still to read and the cluster reached.
`PowerLoss` forgets the call. Histories: `hurt` names what went wrong so that a property can say exactly which events excuse it;
`owner` and `released` serve the proofs and the notion of a whole file.

**FsBoot.** The disk is its signature, its partition table and, at each of two places a volume may begin, a boot
sector, two FATs and a root directory. `Init` is every disk a user may attach. `found` is the disk as this boot found it; the
properties compare it with `disk`.

**Files.** The desktop addresses a file by its index in the listing; `At(i, s)` is that relation. The driver is then called with the name found there and acts on the
first entry of that name (`Hit`), which is another slot's when a save that could not read a directory sector has created the name a second time. Every handler ends with the paint
`desktopLoop` comes round to (`Painted`; `Paint` is one for itself): it pulls the selection into a listing that may look shorter than it is, because `fs_count` stops at a sector it cannot read,
and leaves `fileArmed`. `armedSlot`, `shifted`, `left`, `source` and `excuse` are histories: which entry was armed, whether a file created since shifted it, whether the selection has been off the armed row since, which file
the text came from, and what happened that lets that file hold something else. A file too long for the buffer opens as its head (`Opened`). A call may go wrong
(`faults` bounds how many do): refused with the file whole or its chain freed (`CutShort`), or answered with 1 over a link that was lost or beside an entry that was not seen (`Written`). An entry
whose chain was freed is `loose`: its clusters may be free or another file's, so that a later save or delete may damage either. `ImplementsStore` of `Fat32Store` allows the same with `Tear`.

**Desktop.** `Raised`, `Sunk` and `Turned` are the three in-place shifts; every handler is composed of them as the code
calls them. Geometry is left out: a click falls on any window it could fall on.

**Keyboard.** The handler is one step (interrupts are off in it), the reader seven: test, load, advance, then the case and the
three modifier tests one at a time, because IRQ1 may run between any two.

**WasmMachine.** One step is one instruction. `acts` is the C stack of `run`: each activation remembers where its part of the
operand stack, the labels and the locals begins. `BranchTarget` and `ElseOrEnd` are the scans, as recursive functions.
`wasm_load` does not validate, so what the interpreter does with invalid code is not modelled: `Programs` are valid (`ValidAssumption`, see §4).
Values are words; arithmetic is `plain`, which pops and leaves any of the given results. Immediates have no bytes:
`skip_immediates` is abstracted to one place per instruction. In
`Structured` the shared stack is cut at the labels' heights and the calls' bases.

**EditBuffer.** One action per key or click, each with the paint that follows it (`Painted`), because the paint scrolls. The caret is an offset
into the text and every line is found by asking for offsets, as in the code; the refinement cuts the text at its newlines. `OpenFails` is a read that stops after some
sectors: the bytes it got lie over the old ones, and length, caret and dirty flag stay.

**SoundCard, Music.** A length of 0 is 65536 samples to the card (`Transferred`). `ticks` counts modulo `Word`; C compares it as a signed int (`Signed`), `sys_sleep` unsigned. A difference that is no int is
undefined in C, so `Early` is then either truth value. `left` is how long the card really sounds, `busyUntil` what the code
believes. `audio_play` is stepped (`pc`): the probe and the clips are built once, in its first call, and the fallback tone sleeps. `due` and
`since` are histories: how long the sequencer's note or rest was to last and has lasted. The branch of the sequencer for the fanfare is modelled
and never taken, since `hf_music(1)` plays a clip instead.

**WasmHost.** A load is one step per section, and a file from the volume is any sections of a pool in any order, so the loader is checked on every
file made of them. A section's count is any 32-bit number and the loader's sums wrap: a function section whose count wraps past the limit, and whose first entries are good, runs past
its table (`Overruns`), after which the model is `lost` and says nothing more. A body may end before its own code (`ends`, from a size that wraps or is too small), and then runs nothing (`runs`). `prog` says whose bytes are in the program buffer, `memOf` who wrote what the guest's memory holds, `running` and `torn` are histories. The guest's
instructions are any writes to memory, any reads of keys and an end; `WasmMachine` models them for themselves. Colour and music that a guest set stay for the next one.

## 3. Runs

Every property has a mutant of the code's definition in the same module that breaks it; the mutants are listed in `PROJECT.json`.

| Run | Instance | What it shows |
|---|---|---|
| `fat32_faults` | 3 clusters (root and two), 2 slots, 2 FAT copies, bodies of 0, 1, 2 blocks, 2 faults, 1 power loss | types; chains disjoint; root kept; names unique; nothing hidden; no leak; FATs mirrored; implements `FileStore` |
| `fat32_half_written` | one cluster more, no fault | violated: a replace without room leaves the old name over freed clusters |
| `fs_boot` | 2 table entries, 3 boots, 2 faults | foreign disks, mountable volumes and short disks are not written to; status and mounted flag agree; what is mounted is usable unless a format was cut |
| `fs_boot_reformat` | 1 boot, no fault | violated: a volume in the second entry is formatted over |
| `files` | 3 names, 3 slots, 3 texts (one too long), 1 fault | a pending delete the selection was taken off is not come back to; a clean buffer is what its file opens as, with the exceptions the property names; a delete takes two presses on a row never left and hits what was confirmed unless a new file shifted the listing |
| `desktop` | 5 windows | z-order a permutation; closed below open until Alt+Tab; Alt+Tab takes turns |
| `keyboard` | ring of 3, 4 presses, 1 key with and 1 without a character, two shift keys | the ring is a queue; modifiers were held; every key is read |
| `wasm` | bodies of up to 6 instructions and 7 longer, 3 callees; 3-bit words, 2-byte pages, buffer of 2 pages; stack 5, locals 6, labels 3, depth 3 | the interpreter does what the blocks mean; no valid code meets the checks for malformed code; no access leaves the buffer |
| `music` | words of 3 bits, 4 clips in a buffer of 7 bytes, notes of 2 and 3 ms, gap of 1 | no clip sounds in another; a sounding card counts as busy; the speaker sounds only what someone answers for; a muted guest falls silent; a theme left to play comes round to each note |
| `music_note_held` | the same | violated: a note ends at the next tick |
| `edit` | text of 3 (a letter and line ends), names of 1 and 1 from a letter, a dot and a blank, windows of 1 and 2 rows, files shorter and longer than the buffer | caret and names in range; the caret's line is shown; a packed name is found again; edits the lines |
| `programs` | the compiled-in guest; two files of up to 5 sections of a pool of 32; limits just what the guest needs; key ring of 3 | indices of a loaded module in range unless a wrapped count overran the table; an ordered file loads as it declares; nothing of an earlier program reaches a later one; a program runs from its own bytes |

Why the bounds are enough, as far as a bound can be:

- *fat32*: two data clusters make the volume full after one two-block file or two small ones, so every branch of the allocation is taken,
  including running out in the middle of a chain and replacing a file that frees what the new body needs. Two slots fill the directory; two FAT
  copies can disagree; two faults allow one to hide the entry and another to hit what follows. What depends on more clusters or slots is proved.
- *fs_boot*: two entries distinguish "first" from "any other", which is all the code distinguishes; three boots allow a cut, a cut
  again, and a look at the result.
- *files*: three slots let a freed slot lie before, between or after two files, which is what shifts a listing. One fault is enough for each of the exceptions; the proofs have any number.
- *desktop*: five windows give the front one, two more visible, one minimised, one closed in every order.
- *keyboard*: a ring of three holds two keys, so that it is full, wraps and is emptied within four presses. The ring's size is free in the proof.
- *music*: a clock of three bits passes its largest int and zero every eight ticks, within the durations of notes and clips, which is where comparisons go wrong;
  the buffer is one byte short of the clips, so that the last one is cut. `MCMusic` also states, as assumptions TLC evaluates, that the real clips
  fit and no voice outlasts its clip.
- *edit*: three characters, of which two may be line ends, give three lines, so up, down, splitting and joining have a line before and after; bases of one character make every longer name one that is cut.
- *programs*: five sections hold types, imports, functions, exports and code once each, or one kind repeated; the limits make the guest's own sections plus one more too many.
- *wasm*: with stacks of 3 to 6 every limit is met while the bodies are valid. A 3-bit word makes address arithmetic and `memory.grow`
  wrap within the alphabet; the sizes are free in the proof.

Three runs also evaluate operators over bounded inputs, as assumptions of their modules: `MCFsBoot` that mount reads what format wrote and that the layout is
sound for every small disk (§4 for all), `MCPrograms` that the number readers return what the bytes mean for every sequence of up to four, that
rectangles are clipped, that numbers stay in the window for ints of eight bits, and that the guest fits the limits of `wasm.h`.

`fs_boot` and `fs_boot_reformat` are checked without the deadlock test, because after `MaxBoots` boots the machine is up and nothing
more happens. In all other runs some action is always enabled.

**Fairness.** `keyboard` states `AllKeysRead` under weak fairness of the reader: `desktopLoop` calls
`handleKeys` in every round and never leaves its loop, and a handler returns with `iret`; nothing is assumed about
interrupts or the user. `music` states `FallsSilent` and `ThemeGoesRound` under weak fairness of the timer interrupt and of what `audio_play` has begun (straight-line code and
a sleep that the interrupt ends), and strong fairness of `wasm_music_tick`: every round of `desktopLoop` ends with it (409), but a round may first play sounds,
so the tick is not enabled all the time. `ThemeGoesRound` speaks of a theme that is left alone from some time on: a guest that selects it again in every frame never hears its second note. Deliberately no fairness is assumed of the guest (§6).

## 4. Proofs

TLAPS checks these for every value of the constants:

| Theorem | Says | Argument |
|---|---|---|
| `Fat32Proofs!TypeCorrect`, `DisjointAlways`, `RootAlways` | `TypeOK`, `ChainsDisjoint`, `RootKept` on a volume of any size, any number of FAT copies, faults and power losses | `IInv` below |
| `Fat32Proofs!HiddenNever`, `NamesAlways`, `MirrorAlways` | `NothingHidden`, `UniqueNames`, `FatMirrored` for any directory, any number of copies, faults and power losses | `EndsLast`: slots never used come last, also around the slot a call has chosen; `NamesInv`: only that slot has the call's name; `MirrorInv`: copies differ in the entry being set, from `copy` on |
| `Fat32Proofs!LeakNever` | `NoLeak` for any volume, directory and bodies: whatever is in use between calls is on the chain of a listed file | `NoLossInv` below |
| `Fat32Proofs!StoreImplemented` | `ImplementsStore`: the driver is a `FileStore` for any volume, names, bodies, faults and power losses | below |
| `FsBootProofs!ForeignAlways`, `VolumeAlways`, `ShortDiskAlways` | `ForeignKept`, `VolumeKept`, `ShortDiskKept` for any table and any number of boots and faults | `AnswersAlways`: what each step of `fs_init` has learned about the disk, kept as an invariant over `pc` |
| `FsBootProofs!TypeCorrect`, `StatusAlways`, `UsableAlways` | `FsBoot`'s types, `StatusAgrees`, `MountedUsableUnlessCut`, any number of boots and faults | `MountInv`: what each step knows of `status`, `mounted` and the table; `VolumeInv`: a boot sector has its FAT and root unless a format was cut or is under way |
| `FsBootProofs!FormatIsSound` | the layout of a formatted disk of any size keeps system area, FATs and clusters apart, and each cluster has an entry in each FAT copy, unless the partition has exactly 161 sectors | `Sizes`: the arithmetic of the sizing rule |
| `DesktopProofs!DeskTypeCorrect`, `LayersAlways` | z-order a permutation, closed below open, any number of windows | lemmas on `Raised`, `Sunk`, `Turned`: each maps permutations to permutations; the first two keep layers |
| `DesktopProofs!CycleAlwaysTakesTurns` | `CycleTakesTurns` for any number of windows | `NoneSkipped`: a turn of the z-order passes no visible window by; `MovedIs`: the others keep their distance |
| `FilesProofs!ArmedAlways`, `CleanAlways`, `DeletesWhatWasArmed` | `ArmedNeverRegained`, `CleanIsStored`, `ConfirmedUnlessShifted` for any names, texts, slots and faults, and listings cut short anywhere | inductive with: types of the directory, in which two entries may have one name (`Directory`); an unmarked text is what the first entry of its file's name opens as, unless something is to blame (`Buffer`); the armed row is in the listing and is the armed entry's until a save shifts it, and the selection is on it or above (`Pending`) |
| `DesktopProofs!TypeCorrect`, `QueueAlways`, `ModifiersAlways` | `TypeOK`, `FifoFaithful`, `ModifiersHeld` for every ring size and set of keys | `FifoFaithful` is inductive with `SeenInv` (one entry of `seen` per logged key, modifiers down are held since) |
| `DesktopProofs!EditTypeCorrect`, `CaretAlwaysShown` | `EditTypeOK`, `CaretShown` for any text, window and file | `LineStarts`: every line number up to the last has a start; `ScrolledShows`: the paint moves the window to the caret |
| `DesktopProofs!NamesAlwaysAgree` | `NamesAgree` for names of any length | `Trimmed` and `Padded` undo one another on upper-case characters; no blank or dot ends a trimmed half |
| `DesktopProofs!LinesImplemented` | `ImplementsLines` for texts, buffers and files of any size | `RuledOnce`: a text has one division into lines; `TypedRules`, `BrokenRules`: a character put in the text is one put in its line, a newline breaks it; `StartIs`, `EndIs`: what the kernel's searches find |
| `WasmProofs!TypeCorrect`, `ValidCodeRuns`, `ProgramsStayInside` | `TypeOK`, `NeverMalformed`, `AccessesInside` of the interpreter for any valid module, stack, local, label and depth limits | below |
| `BlocksProofs!BlocksImplemented` | `ImplementsBlocks`: on any valid module, whatever the limits, shared stacks and scans for `end` do what the nesting of blocks and calls means | below |
| `WasmProofs!MemoryAlways` | `AccessesInside` for every word, page and buffer size and any sequence of accesses and growths | inductive with types; `Small`: a product below the word does not wrap |
| `MusicProofs!ClipsAlwaysWhole` | `ClipsWhole` for any durations, voices (also longer than their clip) and buffer | `Laid`: the clips built so far lie one after the other before `at`; `MixedAfter`: a voice reaches no byte before its clip |
| `MusicProofs!SpeakerAlwaysAnswered` | `SpeakerAnswered` for any tunes, effects and clock | inductive |
| `MusicProofs!SoundingAlwaysBusy` | `SoundingIsBusy` for any rate, durations and word, if no clip lasts half a turn of the counter and the slack is 2 ms or more (`ShortAssumption`) | `ClockInv`: while no clip is empty, the card stops within `Remaining`, the way from `ticks` to `busyUntil` round the counter; `Quiet`: it does not sound before the table is built; lemmas on rounded quotients |
| `WasmHostProofs!FillRectClips`, `DrawIntInside`, `DrawImageWhole`, `ImagesWhole` | for every window and argument: a rectangle is filled exactly where it meets the window; what a number paints lies in it, also where `y + 16` overflows; an enlarged picture has no gaps, in sums that wrap; every read lies in the picture's array and its palette | `SpanClamps`, `SpanEmpty`: one direction of the clamp; `SquaresTile`: the squares of a picture's pixels leave no gap; `NoWrap`: what comes round is outside a screen |
| `WasmHostProofs!LoadedAlwaysInBounds`, `AlwaysAsDeclared` | `LoadedInBounds`, `LoadsAsDeclared` for any files of any sections with any 32-bit counts and any limits | one lemma per section: what it adds refers to what is there (`SoundModule`), and what it reads is what its items declare (`ReadInOrder`), as long as sections of its kind come once |
| `WasmHostProofs!AlwaysItsOwnBytes`, `NothingEverInherited` | `RunsItsOwnBytes`, `NothingInherited` for any files, any sections in any number, any key queue | `IInv`: what `fs_run` put in the buffer is what is being loaded, memory is the loading or the running program's; `RingInv`: the ring between head and tail is `typed` |

The invariant of the driver. `ChainsDisjoint` speaks of `Reach`, the clusters no set closed under the FAT can leave out, which no step
preserves by itself: while a chain is being freed it is half there. `IInv` therefore keeps, with the types and what `pc` says about the
locals, an `owner` for each cluster: a slot, the running write, or nobody. `OwnInv` says that an owned cluster is not free, that the FAT leads
from an owned cluster to a cluster of the same owner or an end, and that the first cluster of each listed file belongs to its
slot. `RootInv` says that the root cluster is owned by nobody, marked as in use and pointed to by nothing. Then the clusters
of one owner are closed under the FAT, and `ReachWithin` gives the disjointness. `cutRelease` (a call cut after it began to free a listed file's chain) is
exactly what breaks `OwnInv`, and stays as the condition of the theorem.

No cluster is lost (`LeakNever`) by the converse. `Covers(f, o, w, head, part)`: a set of clusters that holds `head` and is closed under the links, within what
`w` owns, holds all of `part`; so an owner's clusters are exactly what is reached. `NoLossInv` says that every cluster in use has an owner (`UsedInv`), that each listed file's first
cluster covers what its slot owns (`FilesInv`), that what a running free_chain has left is covered from the cluster it is at (`ReleaseInv`), and that the new chain is covered
from `first`, but for a cluster claimed and not yet linked (`WriterInv`).

The driver is a `FileStore` (`StoreImplemented`) because of the order as well. `Spells(f, d, o, w, head, b)`: a path through the clusters of `w` begins at `head`, follows the links and holds
the blocks of `b`. `ReadsChain` says that reading along such a path returns `b`. `StoredInv` keeps that every listed file not being
released spells some body a call saved, `WrittenInv` that the new chain spells the part of the body written so far and where its end is, `RequestInv` what the call is about, `HeldInv` that `Held`, which
chooses a slot, is what the one entry of the name reads as. Then each step is one of the store or none: the first entry that free_chain
clears is `Withdraw`, the directory write `Publish` or `Remove`, a call that stops before it frees is `GiveUp`, and what goes wrong afterwards is `Tear`. All else leaves what every name holds alone.

The editor is an editor of lines (`LinesImplemented`). `Ruled(t, n, ls, at)`: the first n characters of the text are the lines `ls`, line i ending at `at[i]`. `CutRules` says that `Cut` rules a text, `RuledOnce` that
nothing else does, `Spot` where an offset is in the lines. So to follow a key it is enough to rule the new text with the new lines: `TypedRules` and `BrokenRules` do so for a character and a newline, and
Backspace, which removes what one of them put there, is each of the two read backwards (`UntypedIs`, `UnbrokenIs`). The kernel's `line_of`, `line_start` and `line_end` count and search newlines; `LineIs`, `StartIs` and `EndIs` say
which row and column that is, and give Up, Down and the clicks.

The interpreter on valid code. `Typed` is the certificate of the WebAssembly validation algorithm: the height of the operand stack and the open blocks before each instruction, and
`ValidAssumption` says that all of it agrees. Compilers emit nothing else; `wasm_load` does not look. `WasmProofs` shows that the scans, which know opcodes only, find the `end` and `else` the certificate
means (shown backwards from the end of the body), and that each activation's part of the shared stacks is as high as the certificate says, with the labels of its open
blocks (`Framed`), one activation's after another's (`Ascending`). So no instruction lacks an operand, a label, a local or a function, whatever branches and returns cut off, and every access goes through the bounds check.

That it is the structured machine (`BlocksImplemented`) needs one thing more, `Standing`: the activation above a caller begins no lower than the operands the caller's open blocks keep, so that a return finds them. The frames of
the structured machine can then be read off the certificate instead of the labels: `CutFramesAre` shows that the cuts the labels make are `BlocksAt`, the pieces of the shared stack between the marks (`Mark`) of the open
blocks, which rise (`Rising`). Each kind of step has its lemma (`BlockOrLoopSteps`, `IfSteps`, `EndSteps`, `BranchSteps`, `ReturnSteps`, `WasmCallSteps`, ...), which says at which mark it cuts and what it puts above: a branch that carries values down
to its target's mark (`Dropped`) is the structured machine's `Fold` of the blocks in between (`Folds`), a return that carries them to the caller's last block is its pop (`LeaveSteps`), and a call begins a frame of new blocks at its arguments (`CallSteps`).

Assumptions. Each is about constants, stated in the module that declares them, and TLC evaluates it on each run: `VolumeAssumption`, `DataAssumption`, `OwnerAssumption`, `BoundAssumption` (a FAT32 volume's
cluster numbers stay below the reserved values; a block that was never written is none a program saves), `StoreAssumption` (the store's two marks are not contents),
`BootAssumption`, `WindowsAssumption`, `KeysAssumption`, `SizeAssumption`, `NamesAssumption`, `BoundsAssumption`, `TextsAssumption` (what a buffer shows of a text it shows of that again), `EditAssumption`, `EntriesAssumption` and `UpperAssumption` (a volume's names
are 8.3; upper case is a projection that makes no dot), `ClockAssumption`, `ClipsAssumption`, `ShortAssumption`, `TunesAssumption`, `HostAssumption`, `FilesAssumption`, `LoadAssumption` (the limits are below the word), `IntAssumption` (the largest int is over 16), `LimitsAssumption`, `MemoryAssumption`, `ValidAssumption`.
The last is evaluated by giving `Typed` the heights and blocks that `MCWasm` computes for its bodies.

Recursive definitions are recursive functions. The prover has no induction rule for them here, so the proofs first show that
such a function exists (`ReadsIs`), then argue about the least argument at which a claim fails (`LeastOf`).

Model-checked only: liveness (`AllKeysRead`, `FallsSilent`, `ThemeGoesRound`), which is out of the prover's reach. Every other property of a passing run is a theorem. The sums that
`GuestDraw` makes of a guest's numbers wrap, but for those of `hf_fill_rect`: `FillRectClips` is about integers, and `FillRectStaysInt` says that none of its sums leaves
the ints, because a width that is not positive has been refused before.

## 5. Where code and documentation disagree

| Run | Code | Statement |
|---|---|---|
| `fat32_half_written` | `fs/fat32.c` 392 frees an existing file's chain before the new one is allocated, and returns 0 with the old entry in place | 422: the entry is written last "so a half written file is never listed" |
| `fs_boot_reformat` | `fat32_mount` reads the first table entry, `foreign_volume` skips entries of type FAT32: a volume in entry 2 is reformatted | `fat32_disk.c` 83: formats "only if there is plainly nothing to lose" |
| `music_note_held` | `host.c` 316 takes a note whose end lies ahead for a wrapped clock and ends it at the next tick | 80: "each tick is a comparison against the" system clock; `theme_ms` gives durations |

Behaviour that is noted here and excepted by name in the properties, rather than shown by a run of its own:

- A delete is confirmed for a position. If the editor saves a new file between the two presses, it takes the first free slot, positions shift, and the second
  Ctrl+D deletes another file (`ConfirmedUnlessShifted`; `Boot.java` 726: the confirmation "must not survive onto a different one").
- `text_remove` unpacks the deleted file's name over that of the open buffer (`fat32_disk.c` 349), which is then saved under it.
- A paint over a listing cut short takes the selection off the armed row and leaves the delete pending (`Boot.java` 1968), against the same comment: moving the
  selection by hand disarms it, being moved does not. Nothing brings the selection back, so the next press arms again (`ArmedNeverRegained`).
- `text_save` clears the dirty flag when `fat32_write_file` answers 1, which it does over a lost link (408) and beside an entry it could not read as well (331, 390). In the first case
  the file ends early, in the second two entries have one name, and the older one is opened and deleted first (`lostLink`, `blindLookup` in `CleanIsStored`).
- A FAT entry that cannot be read becomes 0x0FFFFFF7, a cluster to the loops. Its data sector wraps in 28 bits into the second FAT copy, so such a read may answer success
  with those bytes for text (`OpenFails`).
- A file whose chain was freed by a call that then failed stays listed. What a later save puts there, or a second delete frees, may be another file's (`loose`, `damaged`).
- After Alt+Tab, closing the front window can leave a closed one in front, and it takes the keys (`ClosedBelowOpen` holds until Alt+Tab; `Boot.java` 267).
- `fat32_format` writes the boot sector before what it describes: a format cut by a power loss is mounted by the next boot (`MountedUsableUnlessCut`; `fat32.h` 45).
- A partition of exactly 161 sectors has a cluster whose FAT entry lies past its copy of the FAT (`FormatIsSound`). The build's disks are far larger.
- A name of blanks unpacks to no name; a base longer than eight characters is cut, so two typed names may be one file (`NamesAgree`).
- A read that fails half-way leaves the old length, caret and dirty flag over mixed bytes (`OpenFails`); in `fs_run` it leaves the running program over another's
  bytes (`torn` in `RunsItsOwnBytes`).
- After a load that failed, the guest window stays refused until another program is started: nothing calls `wasm_prog_builtin` once `g_failed` is set. A file longer
  than the program buffer is read cut, and then loads or not as its head does.
- A function without a body returns at once, or ends in a stack error if it was to leave a result. In a file whose sections are not in order, imports may follow
  functions, so that `wasm.h` 98 ("imported functions occupy indices 0..n-1") holds of ordered files only (`LoadsAsDeclared`).
- `memory.grow` (`wasm.c` 759) compares a product that may wrap: a guest that asks for 65535 pages is told it has 65536 while
  its ceiling becomes 0 (`AccessesInside` excludes it by name; `wasm.h` 109 says "mem_pages * 65536"). The loader's limit wraps likewise and stays within the buffer (`LoadedInBounds`).
- `m->nfuncs + n` (`wasm.c` 266) wraps: after one function a count near 2^32 passes the limit, and the loop writes past `funcs[]` if the types it reads exist (`Overruns`,
  excepted in `LoadedInBounds`; `wasm.h` speaks of fixed-size arrays). A body's size that wraps or is too small gives a function that returns at once, and local counts that wrap pass as their remainder.
- `y + 16 > g_oh` (`host.c` 168) overflows for a y near the largest int and lets the call through; `draw_char_vram` then drops every row (`DrawIntInside`).
- A clip without samples would be played for 65536 and timed as 10 ms (`sb16.c` 204, 246; excepted in `SoundingIsBusy`). `build_clips` has none (`RealClipsFit`).
- "clock wrapped" (`host.c` 316) is not what the line does: when the counter passes its largest int with an end still ahead, the sequencer may wait until the counter has come back to it (`Early`).
- `sb16.c` 14-18 says its buffers are out of the heap's reach; `sys_kalloc`'s range includes them.

## 6. What is not modelled, and the plan

Not modelled for good: network card (a probe), boot stubs and fonts (straight-line or data), the Java stub classes (no state), the guest program (it is
what the interpreter runs) and the tests. In modelled parts: long names, subdirectories and clusters of several sectors (only on volumes made
elsewhere); the bytes of immediates in code and i32 arithmetic of the interpreter; painting, geometry, dragging and menus of
the desktop; keyboard initialisation and `handleKeys`' repeat suppression; the free-space display; the shape of the samples and the ports of the sound card.
A directory of sixteen entries or more is searched on, after a failed read of the root's FAT entry, in the sector that stands for 0x0FFFFFF7; the model's directory is one sector and the search ends there.
Nothing is said of the machine once a function section has left its table (`lost`). `runtime.c` is the compiler's helper routines. The interpreter has no fuel: a guest that never returns keeps the desktop from ever coming back, and nothing in the code
promises otherwise, so no liveness of the guest is claimed.

Not yet modelled, in the order in which they would come:

1. `Input`: mouse packets and torn reads, composed with the desktop's press, release and drag.
2. `JitLinker`: resolve-and-compile on first call with nested compilation; static slots shared between classes. `JitCompiler`: fixups and the
   operand stack of emitted code.
3. `Heaps`, `Ata` (every polled wait ends), the clipping of the kernel's own graphics, `Sokoban` in Java.

## 7. Running

In this directory: `tlc -workers 2 -config MCFat32.cfg MCFat32` (the same for the other configurations), `tlapm Fat32Proofs.tla` (the same for the
other proof modules). `keyboard` takes about a minute, `music`, `files` and `programs` half a minute each, the others less. Of the proofs, from nothing, `WasmProofs` and `BlocksProofs` take
about eight minutes each and `DesktopProofs` five.
