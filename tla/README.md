# A TLA+ model of pitfdll

pitfdll is a GStreamer 0.10 plugin that decodes and encodes with Win32 codec
DLLs (DirectShow filters, DirectX Media Objects, QuickTime). It loads the DLLs
with a loader and an emulation of the Win32 API taken from Wine through xine.
This directory holds models of its stateful parts, the TLC configurations that
check them, and theorems about them checked by TLAPS. The program has no tests;
what it promises is said in its comments, its ChangeLog and the Win32 API it
stands for.

Paths below are relative to `src/`; `wine/`, `dshow/` and `dmo/` stand for
`gst-libs/ext/loader/wine/` and so on, and `ext/` for `ext/pitfdll/`.

    tlc -config crit_sect.cfg CritSect          one run (see "Runs")
    tlapm CritSectProofs.tla                    one proof module

## 1. The system

### How it is put together

    GStreamer element (ext/*.c)         one per codec instance, several threads
      |  Setup_LDT_Keeper / Restore     NULL->READY, READY->NULL
      |  *_Open, *_Decode, *_Destroy    set-caps, chain, PAUSED->READY
    codec wrapper (dshow/DS_*.c, dmo/DMO_*.c)
      |  CodecAlloc / CodecRelease, LoadLibrary / FreeLibrary, COM calls
    loader (wine/module.c, pe_image.c)  process-wide list of modules
      |  maps the image, resolves imports against the table in win32.c,
      |  calls the entry point
    Win32 DLL  --calls-->  Win32 API (wine/win32.c, ext.c, registry.c, afl.c)
                           heap, critical sections, semaphores, events, files...

Nearly all of the state below the elements is process-wide (static variables of
one C file), while elements run in the threads of their pipelines, and DLLs
create threads of their own (`CreateThread`). Only three things are locked: a
critical section (by its pthread mutex), a semaphore or event object (by its own
pthread mutex), and the heap's list (by `memmut`); and each of the three is also
accessed outside its lock. `README` says: "Threaded use fails completely".

### Inventory

| Component | State | Operations | What makes it correct | Module |
|---|---|---|---|---|
| Critical sections, `wine/win32.c` 1330-1470 | pointer to a structure with mutex, recursion count, owner id | Initialize, Enter, Leave, Delete | mutual exclusion, count matches the calls, no self-deadlock | `CritSect` |
| Module loader, `wine/module.c`, `pe_image.c`, `driver.c` | list of modules, mapped images, attach flags, `acounter` | LoadLibrary (with nested loads), FreeLibrary, CodecAlloc, CodecRelease | a DLL stays mapped while a codec uses it; the last codec unloads all; order of detach | `ModuleLoader` |
| Library names, `wine/win32.c`, `module.c` | the paths on the list | LoadLibraryA, GetModuleHandleA, GetModuleFileNameA, GetProcAddress | a name leads to its file | `LibraryNames` |
| QuickTime's dispatcher, `wine/module.c`, `wrapper.S` | one array of return addresses | each call, its return, emulated calls | a call returns to its caller | `QtDispatcher` |
| Semaphores, `wine/win32.c` | count, mutex, condition | Create, Wait, Release | counts never negative, no lost wakeup | `Win32Semaphore`, `CountingSemaphore` |
| Events and the object list, `wine/win32.c` 593-930 | list of named objects; state, reset flag | CreateEvent, CreateSemaphore, Set, Reset, the two waits, collection | a set is not lost, a name is one object | `Win32Objects` |
| Threads, TLS, interlocked, `wine/win32.c` 593, 1481, 2893 | map of 64 indices, the page at fs | CreateThread, TlsAlloc/Free/Get/Set, Interlocked* | two owners never share an index, counts are exact | `Win32Threads` |
| fs segment, `wine/ldt_keeper.c` | LDT entry, page, usage count | Setup, Restore | whoever holds it can run DLL code; the last user frees | `LdtKeeper` |
| Heap, `wine/win32.c` 370-560, 1200-1300, 1680, 5355 | list of blocks, `memmut`, double-free guard | HeapAlloc, HeapFree, HeapReAlloc, GlobalFree, GlobalSize, collection | the list survives concurrent use; nothing freed twice; everything is collected | `GarbageHeap` |
| Calls that hand out memory, `wine/win32.c` | size of each block | Heap*, Global*, Local*, CoTaskMem*, malloc, Mo* | room for what was asked, one owner of a block | `DllMemory` |
| Files and searches, `wine/win32.c` | descriptors, `qtx_dir` | CreateFileA, ReadFile, WriteFile, SetFilePointer, FindFirst/Next | a handle keeps its file, a search lists all | `FileApi` |
| COM class table, `wine/win32.c` 3208-3290 | table of classes | Register, Unregister, CoCreateInstance | the class is there when a filter asks for it | `ComClass` |
| Processor and clock, `wine/win32.c` | cached structure, feature table, frequency | GetSystemInfo, IsProcessorFeaturePresent, QueryPerformance* | what is told is what the processor has | `SystemInfo`, `TimeCounter` |
| Export stubs, `wine/win32.c` 5204-5353 | 300 names, code for them | add_stub, LookupExternal | a stub names its function | `ExportStubs` |
| Registry, `wine/registry.c` | values, open handles, file | open, create, query, set, enumerate, close, save | values are found; the file survives a stop | `Registry` |
| Virtual memory and mappings, `wine/ext.c` | region list, mapping list | VirtualAlloc/Free, CreateFileMapping, UnmapViewOfFile | regions are disjoint; every mapping can be unmapped | `PeLoad` |
| PE images, `wine/pe_image.c`, `pe_resource.c`, `resource.c` | the image in memory | map, relocate, link, look up | memory holds what the file says; a failure leaves nothing | `PeLoad`, `PeLookup`, `ExportStubs` |
| ACM and VfW drivers, `wine/afl.c`, `vfl.c`, `driver.c` | driver ids, drivers, streams | register, open, close, enumerate, stream calls | a handle has its driver, told of its memory | `AcmDrivers` |
| DirectShow allocator and samples, `dshow/allocator.c`, `cmediasample.c` | free and used list, redirected block | Commit, GetBuffer, ReleaseBuffer, Decommit | every committed sample can be lent and comes back, to one holder at a time; no picture in a former buffer | `MemAllocator`, `InputSample` |
| DirectShow filter, pins and decoders, `dshow/` | COM references, connections, formats | Create, Start, SetDestFmt, Decode, Convert, Stop, Destroy | references balance on every path; types describe what is in use | `DsFilter`, `PinFormats`, `DsAudioDec` |
| DMO filter and wrappers, `dmo/` | COM references, types | Open, Destroy | all or nothing | `DmoFilter` |
| DMO video decoder, `ext/dmo_vdec.c` | DMO, buffers, segment, QoS observation | caps, chain, flush, QoS, state changes | no stale frames or QoS; the DMO is released once; chain returns | `DmoVideoDec` |
| Other DMO elements, `ext/dmo_adec.c`, `dmo_aenc.c`, `dmo_venc.c` | as above; offsets, times, settings | caps, chain, events, state changes, properties | as above; gaps are marked, times explained | `DmoCodecs`, `EncoderTimes`, `EncoderSettings` |
| DirectShow element, `ext/dshow_vdec.c` | decoder, LDT | caps, chain, state changes | no call into a decoder that is not there | `DshowVideoDec` |
| QuickTime audio element, `ext/qt_adec.c` | converter, cached bytes | caps, chain, state changes | no input lost or converted twice | `QtAudioDec` |
| Plugin registration, `ext/pitfdll.c` | element classes | register, base_init | every installed codec has its element | `ElementRegistry` |
| GUIDs, SDK and Wine headers | - | - | - | none: declarations |

`PROJECT.json` lists the same components with their sources, and under "hazards"
the places, each with its line, that are hard to test and which property is
about them.

### What is hard here

* *Interleavings*: unlocked tests of shared fields in Enter, in the heap, in the
  LDT keeper; unlocked tables (TLS, objects, the QuickTime return addresses); a
  wait that sleeps once, so that a stolen unit or a set goes unnoticed.
* *Stale state*: reference counts that are commented out (`module.c:377`),
  observations, buffers and formats that outlive a flush, a refusal or a change
  of caps; pointers between COM objects that are not counted.
* *Partial failure*: entry points that refuse, downstream that refuses caps or
  has no buffer, a chain of a dozen calls to open a codec or map an image, each
  of which may fail.
* *Crash*: the registry's file is rewritten in place.
* *Ordering*: attach and detach, the collection of the heap after the last DLL.
* *Boundaries*: sections that end within a page, the last stub slot, sizes that
  wrap, frames that do not divide a buffer, clock values that are all ones.
* *Liveness*: loops that end only if each round makes progress
  (`CodecRelease`, the collection, the collecting loop of the elements).

## 2. The modules

Each `X.tla` is a component, `XProofs.tla` holds its theorems (`DshowProofs`,
`ElementsProofs`, `RuntimeProofs` and `TablesProofs` those of `MCDshow`,
`MCElements`, `MCWin32Runtime`, `MCTables` and their components; `LookupsProofs`
the one about lookups in `MCTables`, and `ElementsProofs` also those of
`LdtKeeper`). Variables carry
the names of the C variables and fields; history variables are marked as such in
their declaration. `PROJECT.json` "map" gives the lines of each definition.
Alternative forms of an action (such as `UnlinkNoNext`) stand directly before
the action they vary, or at the end of its section; they are plausible bugs, not
behaviour of the program, and each breaks the property that `PROJECT.json`
"mutants" names.

The modules `MCModuleLoader`, `MCWin32Runtime`, `MCElements`, `MCDshow` and
`MCTables` instantiate components for TLC. The last four hold several components
that do not step together: `AnyInit` chooses a part (or the kind of an element),
and the others stay as they are, so that one run explores the components side by
side. Where components share state (the DMO's fields of the elements, codec
count, LDT count), they share the variables. A property with a general name says
there what each component's own property says of its part.

    GarbageHeap <--- collected by --- ModuleLoader --- counts codecs of --- DmoFilter, DsFilter
                                           ^                                       ^
    PeLoad (memory, images) --- image -----+       LdtKeeper <--- held by --- the elements

`ModuleLoader` sees the heap as the set `heap` of modules whose blocks are still
there; the collection starts when no DLL is attached, which `GarbageHeap`
relies on. The elements see the loader as the count `codecs` and the LDT keeper
as `setups`: `DmoCounted` and `DmoNeedsSegment` are what they owe the two.

### Threads, memory and objects

**CritSect** - one Win32 critical section. Every memory access of
`expEnterCriticalSection` and `expLeaveCriticalSection` is a step (`TestLocked`,
`TestId`, `LockMutex`, `StoreField` ... `UnlockMutex`), because `locked` and
`id` are plain fields that other threads read without the mutex. `locked = 1`
and `id = ...` are unordered stores in the source, so `StoreField` does them in
either order (the compiler may). `AllocCritSect` and `PublishCritSect` are the
creation by the first Enter, `DeleteAndReinit` a Delete followed by an
Initialize when nobody uses the section. The memory comes
from malloc and is not cleared: `id` starts with any value. The history variable
`raced` records that one of the two unsynchronised accesses went wrong.

**Win32Semaphore**, **CountingSemaphore** - one semaphore object with its
pthread mutex and condition, and the abstract counting semaphore that the
comment at `win32.c:1866` describes. `Win32Semaphore!Counting` instantiates the
second with `count <- semaphore` and `waiting` the threads that have called and
not yet taken their unit. A wait with a timeout above zero changes
nothing (`win32.c:824` has no branch for it) and is left out.

**Win32Objects** - the list `mlist` of events and semaphores. A creation by name
is the search, the link and the stores of the node, each a step, so that
creations can overlap; `raced` records that they did. The waits test, sleep once
and clear an event by itself only when they slept; one signal wakes one sleeper.
`stranded` records the sleepers that a manual event left behind.

**Win32Threads** - `CreateThread` and its end, the map of TLS indices (a test
and a store), the values in the one page that `fs` leads every thread to, and
the interlocked operations in the steps that the compiled code takes: increments
are one locked instruction, exchange and compare-exchange are not.

**LdtKeeper** - the LDT entry, its pages, `global_usage_count` and the segment
each element holds. `Serialized = TRUE` restricts it to calls that do not
overlap, which is the case for pipelines driven by one application thread; so it
runs as the kind "ldt" of `MCElements`. By itself, with overlapping calls, it runs
in `ldt_overlap`.

**GarbageHeap** - the doubly linked list of allocation headers behind
`last_alloc`, pointer by pointer, with `memmut` and its creation on an empty
list and destruction on the last release. DLL threads allocate, reallocate,
release and measure; one loads the first DLL and later runs the collection of
`CodecRelease`. `Anchored = TRUE` says that the entry point of the first DLL
allocates a block and keeps it. The C runtime of a DLL does (it creates its
heap there), and without that assumption TLC finds `MutexSurvives` violated at
once: one thread releases the only block and destroys `memmut` while another,
that saw the list filled, is about to lock it.

**DllMemory** - what those blocks are to a DLL: the size each call rounds,
overflows or leaves, and who points to it. Media types (`MoInitMediaType` and
its kin) have fields that nobody stored, which are `Any`.

**FileApi**, **ComClass** - descriptors with their positions and the one search
through `qtx_dir`; the class table with its free entries, in which the
allocator's class is registered while there are allocators.

**SystemInfo**, **TimeCounter** - two threads ask for the processor at once; the
time stamp or the time of day as counts, the listed frequency or the measured
one. Numbers have a small width and wrap.

### Loading DLLs

**ModuleLoader** - the list `local_wm`, the images, the attach flags and
`acounter`, for codecs that are opened and closed by threads. A codec's calls
are a stack of frames, since the entry point of a DLL that is being attached may
load another (`AttachLoadsAnother`). `Serialized = TRUE` is the assumption the
comments at `module.c:211` and `:340` state ("the process critical section must
be held"); no code establishes it. Every codec opens as its wrapper does:
DirectShow calls FreeLibrary and CodecRelease, DMO only CodecRelease,
QuickTime only FreeLibrary of its last DLL.

**LibraryNames** - names as sequences of pieces; the five libraries that are not
files; the search by substring. **QtDispatcher** - the array of return addresses
that the threads of two QuickTime elements push to and pop from.

**PeLoad** - reservations and file mappings over `mmap`, and `PE_LoadImage` as a
series of steps, each of which can fail, beside the calls of running codecs.
Memory is a map from units to what they hold, so that `ImageIsFile` compares
contents. The images that the loader accepts are as linkers make them
(`ImageAssumption`): there is a section, each starts on a page, the first behind
the header and every other behind the one before it. `PE_LoadImage` checks none of
this; an image whose sections overlap would have in memory what was mapped last.

**PeLookup**, **ExportStubs** - exports by name, hint and ordinal, forwards,
resources, strings and relocations as operators, each beside what a search of
the whole table finds (`ExportsAgree`, `ResourcesAgree`, ...); imports filled
one after the other, with a stub for every function nobody wrote.

**AcmDrivers** - driver ids, opened drivers and streams of ACM, VfW handles, and
the DRVR objects below both. A stream either uses a driver that the application
opened or searches one for itself; the application has no handle of the latter,
so that it opens no second stream on it (a guard of `acmStreamOpen`, without
which closing the one would close the driver under the other). **Registry** - keys, values and the file: a save
writes record by record, the process may stop after any of them (`saving`,
`before` keep what should be read then), and the next process reads what is
there. `cut` remembers that one did stop in a save: from then on a former record
may be read once more, behind the one that replaced it.

### Codecs

**MemAllocator** - the two rings of `dshow/allocator.c` node by node, the
reference counts of samples and the block each leads to, as the output side of a
video decoder drives them: the codec asks for samples while it decodes
(`GetBuffer` inside `Decode` .. `DecodeEnds`), keeps some (`AddRef`), returns them,
and commits and decommits; `Commit` and `Decommit` are loops of steps, and a
commit can fail midway. `avm_list_add_head` stores nothing in the former tail, so
a ring has one reachable node at most (the lemmas of the proofs module), and of a
commit of two samples the second is lost. The history variable `lost` collects
those, so that the properties speak of the others; pitfdll itself commits one
(`DS_VideoDecoder.c:281`). `careful` turns false when a codec decommits while it
holds a sample: from then on `modified_sample` may name freed memory
(`allocator.c:204`), which `NothingDangles` excludes otherwise. That a codec takes
no sample outside decode calls is assumed.

**InputSample** - the one sample of the codec's input pin, which every frame
moves and marks again.

**DmoFilter**, **DsFilter** - opening and closing a codec as the series of COM
calls that it is, any of which may fail, with the reference count of every
object of the loader and whoever holds it. In `DsFilter` the codec takes and
gives back references in every way the pins offer.

**PinFormats** - the types that a DirectShow codec sees on pin, enumerator and
allocator while the decoder changes the one header they share. **DsAudioDec** -
blocks in, frames out, through the locals whose addresses the pin keeps.

**DmoVideoDec** - the element, its wrapper and the DMO's queue of frames. The
streaming thread's chain call is split where other threads can come between:
`ProcessInput`, then `AllocBuffer`, `PushFrame` or `SkipFrame` per frame.
`Continue` is what each round does with the status of the DMO and the time it
reports. A late frame is offered a buffer of size 0: the DMO gives the frame up
(`SkipFrame`) or keeps it and says INCOMPLETE (`SkipAgain`), whereupon the code
offers the same again. `retry` is a history bit that makes such a round a step, so
that the endless loop is a behaviour of the model. QoS events and state changes
come from other threads.

**DmoCodecs** - the three other DMO elements on the same variables; encoders look
ahead, and the video encoder marks gaps. `epoch` counts flushes and changes of caps,
`base` is the last that emptied the DMO: an encoder passes FLUSH_STOP on and leaves
its DMO alone (`dmo_aenc.c:470`, `dmo_venc.c:557`), so that there `epoch` goes on and
`base` stays. **EncoderTimes** - the times of what the
encoders push, in a clock that wraps. **EncoderSettings** - properties set by the
application, the types the DMO offers, and the output caps, which downstream may
refuse after the DMO was opened (`refused`).

**DshowVideoDec**, **QtAudioDec** - the other two elements. `pAllocator` is the
pointer of the output pin to its allocator: SetDestFmt disconnects the pins, may
fail to connect them again, and the element does not look at its result
(`DS_VideoDecoder.c:604`, `dshow_vdec.c:230`). **ElementRegistry** -
which classes there are for the DLLs that are installed.

### Modelled from their use (external)

glibc's mutexes and conditions, `malloc`, `mmap`, `modify_ldt`, files, the entry
points and COM methods of the DLLs, and GStreamer. What is assumed of them:

* the stream lock of the sink pad serialises caps, buffers and serialised
  events, FLUSH_STOP among them; pads are deactivated before the element cleans
  up in PAUSED->READY; QoS events come at any time;
* `IMediaObject::Flush` empties the DMO; a DMO takes no input while it has
  frames to give;
* an entry point may fail, and may load other DLLs while it attaches;
* a codec gives back the references it took when its pins are disconnected, at
  the latest;
* `mmap` takes the hint if it is free, else the highest place there is room at; a
  fixed place replaces what is mapped there.

## 3. Runs

| Run | Instance | Shows |
|---|---|---|
| `crit_sect` | 2 threads, 2 structures, nesting 2 | until a race: exclusion, count, and every Enter returns unless others overtake it for ever; the id test fails only in the window between two stores |
| `loader` | DirectShow and DMO codecs on a DLL that loads another, which the QuickTime element uses too; a DLL of unsupported version without an entry point | list = images, open codecs keep their DLLs with an uncounted codec around, the last release unloads all, calls return |
| `loader_order` | the same DLLs, 2 codecs | *violated*: the last release detaches in the reverse of the sequence in which the attaches returned |
| `loader_refcount` | 2 codecs on one DLL | *violated*: FreeLibrary detaches a DLL another codec holds |
| `sem_one` | 1 waiter, 2 releasers, increments to 2 | the emulation implements the counting semaphore, fairness included |
| `sem_any` | 2 waiters, 2 releasers, polls, spurious wakeups | a wait that did not sleep takes a unit that is there |
| `sem_negative` | 3 waiters | *violated*: the count falls below zero |
| `ldt_overlap` | 4 users, 2 pages, overlapping calls | *violated*: only the last user frees the segment |
| `win32_runtime` | `MCWin32Runtime`: what `win32.c` keeps for running DLLs | see below |
| `elements` | `MCElements`: one element of any kind, their registration, the encoders' times | see below |
| `dshow` | `MCDshow`: the parts below the elements | see below |
| `win32_tables` | `MCTables`: the tables of the emulation | see below |

`win32_runtime`, by part:

| Part | Instance | Property | Shows |
|---|---|---|---|
| heap | 2 threads, 3 blocks, `Anchored` | `ListIntact`, `MutexSurvives`, `ReleasesOwned`, `SizeFound`, `CollectionEnds` | the list and its mutex survive the unlocked tests, nothing is released twice, a size is found again, the collection ends |
| events | 1 creator, 2 sleepers, 2 nodes, one name | `EventsWake`, `OwnUnlessRaced` | a set wakes or stays; every node is on the list unless creations overlap |
| buffers, types | 4 blocks, words of 4 | `OwnUnlessRaced` | room and owner of each block |
| files, searches | 4 descriptors, 3 directory entries | `OwnUnlessRaced` | a handle keeps its file; a search lists every plugin |
| classes | 3 allocators, 2 foreign classes | `OwnUnlessRaced` | the allocator's class is offered exactly while there are allocators |
| indices, words | 2 threads, 2 indices, 3 references | `OwnUnlessRaced` | an index or lock has one owner unless calls overlap; counts always hold |
| dispatcher | 2 threads, 3 return addresses | `OwnUnlessRaced` | a call returns to its caller while calls nest |

`elements`, by kind, each with 2 formats:

| Kind | Property | Shows |
|---|---|---|
| video decoder | `DmoNeedsSegment`, `AllFramesCurrent`, `QosCurrent`, `BacklogExplained`, `CodecsUsable`, `DmoChainReturns` | balanced DMO, LDT and codec counts; no stale frame or observation; a backlog only where a chain call was cut short; chain returns unless the DMO keeps a frame for ever that it is to skip |
| audio decoder, audio encoder, video encoder | the same where they apply, `GapsMarked` | also: every gap reaches the DMO with its mark, and only there are frames flushed; an encoder's DMO has no frame of before it was opened or a gap flushed it |
| DirectShow | `CodecsUsable` | a buffer finds a running codec unless the last caps were refused or SetDestFmt left the pins disconnected |
| QuickTime | `CodecsUsable`, `BytesAccounted` | the same; every byte is converted, cached or dropped with an error, once |
| audio (DirectShow audio decoder) | `BytesAccounted` | a block counted as read was given once, and once more for each refusal |
| times | `BytesAccounted` | what an encoder pushes has the times of its input, up to the unit, or the guess |
| segment (4 users, 2 pages, calls do not overlap) | `HoldersHaveSegment` | holders have the segment, whatever others set up and restore |
| registry | `CodecsUsable` | every installed codec has its element and caps |

`dshow`, by part:

| Part | Instance | Property | Shows |
|---|---|---|---|
| allocator | 3 samples, 2 images, 1 or 2 samples per commit, 2 references | `LentOrFree`, `NothingDangles`, `RedirectCurrent` | no sample lent twice, none lost but by a commit of two; pictures go to this call's buffer |
| dmo, dshow | four kinds of DMO, two decoders, a failure at any call | `AllOrNothing`, `CountedAndLive`, `HeaderAccepted` | nothing is left behind; counts are the holders; uncounted pointers lead to what is there |
| formats | 2 RGB formats, 2 formats to check | `HeaderAccepted` | header and types fit each other between questions, refused or not |
| settings | 5 types of an encoder | `HeaderAccepted` | caps tell what is encoded unless downstream refused them |
| sample | 2 sizes, 2 frames | `HeaderAccepted` | a codec reads this frame's length and flags |

`win32_tables`, by part:

| Part | Instance | Property | Shows |
|---|---|---|---|
| memory | pages of 2 units, reservations of 4, a space of 16, 3 images, 2 regions | `ImageIsFile`, `LoadLeavesNothing` | memory holds what the file says; a failed load leaves neither view nor memory |
| imports | 5 stub slots, short and long names; 4 export tables of up to 3 names, a forward, 2 resource directories, buffers of up to 5, 6 images of 6 shorts of 4 values with 4 blocks of fixups | `StubsTell`, `LookupsAgree` | a stub tells its function; lookups agree with a search of the whole table |
| drivers | 2 driver ids, 3 drivers, 1 stream | `DriversServe` | open handles have their driver; it converts only memory it was told about |
| registry | 1 component, data of no byte and (of a key) of one, 5 values, 1 further handle, a stop at any write | `RegistryKept` | the next process reads what was saved |
| names | 3 files, 8 names, one within another | `LookupsAgree` | handles lead to the file that was named |
| system, clock | 2 threads, 2 processors; a wrap at 16, 11 units of time | `LookupsAgree` | features and counts are those of the processor |

Several of these properties hold with exceptions that are written into them,
each an observation about the code (section 5).

**Bounds.** Every bound is a constant of its module, given in the cfg or in the
MC module's INSTANCE. Two threads suffice for every race here,
since each is between one access and one other thread (three waiters in
`sem_negative`: one to consume, one to steal, one to go below zero; three
threads for events: one that sets and two of which a signal wakes one). Two
structures or pages allow a lost duplicate. Nesting 2 is the first recursive
Enter. Three heap blocks give a head, a middle and a tail besides the anchor's
role. Two formats, two epochs and two images give an old and a new one. Three
samples are a commit of two and one more from a later commit; three drivers a
head, a middle and a tail of the list that loses its tail. Times 0 and 1 are
on time and late: time is counted in units of the lateness from which the
element skips. A page of two units has sections that end within it; five slots
are filled by few images. `MaxCount` stops calls only where a race or a release
without waiters would count without limit. The proofs remove the bounds on
threads, structures, users, codecs, DLLs, blocks and sizes.

**Deadlock** is checked except where the system may stop, and each cfg that says
so gives the reason: after a race in a critical section two threads can block
for ever; threads may sleep on a semaphore no one releases, or the bound stops
the releasers; HeapReAlloc without memory, a flush without a DMO, a buffer
without a codec and a call into a driver that is gone end the process.

**Fairness.** Weak fairness of a thread's steps inside a call: threads are
scheduled, and nothing makes a thread begin a call.
`CritSect`: also of `Leave` (a DLL leaves what it entered).
`ModuleLoader`: strong fairness of the return of each entry point, which may load
others first but not for ever.
`Win32Semaphore`: strong fairness of a waiter's mutex acquisitions, that is, a
waiter is not passed over for ever when the mutex is free again and again; it is
needed for the liveness half of the refinement and glibc gives it only in
practice.
`DmoVideoDec` and `DmoCodecs` need weak fairness only. Whether the loop of
`dmo_vdec.c:397` ends is up to the DMO: `ChainReturns` says that a call returns or
`SkipAgain` is repeated for ever.

## 4. Proofs

All theorems are checked by tlapm to the last leaf; constants are constrained
only by the named ASSUMEs of their modules, which TLC evaluates in the runs, and
by what a theorem itself assumes.

**CritSectProofs.** The invariant `IInv == TypeOK /\ (~raced => Sound)` is
inductive. The properties are not: exclusion needs to know that an entered
thread owns the mutex (`MutexIsOwner`), that `locked` is its depth (`CountIsDepth`),
that `id` names it from the moment it is stored (`IdIsOwner`), that all calls work
on the published structure (`CallsUsePtr`), and that a thread which is about to
test the id finds its own name there only in one window (`StaleIdWindow`). `raced`
never goes back (`RacedStays`), so a step is proved for unraced ends only. From
it: `TypeCorrect`, `Exclusion`, `CountCorrect`, `NeverAllStuck`, `OwnerNeverBlocks` (no
thread waits for the mutex that it owns, which is the safety half of
`EnterReturns`) and the action property `RaceWindow`, for any set of threads and
structures and any depth.

**ModuleLoaderProofs.** For any set of DLLs, whatever their entry points load,
and any finite set of codecs, when the calls are serialized. `ListIsImage` says
that list, images and attach order agree *between* calls; what is inductive must
say it of every step of a call. `Calls` describes a stack of frames: all but the
top wait for an entry point, and a frame's step determines what its module is.
`Modules` then says that the list, the images and the attached modules differ
only by the module in hand and the modules of the waiting entry points. `Count`
is that `acounter` is the number of open codecs that are not in their release. The
steps are proved one action at a time, each with a lemma per conjunct that it
disturbs: `TypeCorrect`, `ListIsImageAlways`, and `LastReleaseUnloadsAlways`: the step
that closes the last counted codec finds the count at zero and leaves its loop with
an empty list (`ReleaseCloses`).

A second invariant stands on that one, `HInv`: a codec's handles are of the DLLs that its wrapper has loaded
so far (`Named`, which has to follow its outermost call through nested ones), a
release runs only when no counted codec has a handle (`Emptied`, from `Count` at
zero; later codecs may open beside it but not yet load), and what an unexposed
codec holds is attached unless it is just freeing it (`Keeps`). A detach then finds
a module that was never attached, one that no unexposed codec loads, or no counted
codec with a handle. From it `OpenCodecKeepsDllsAlways`.

**Win32SemaphoreProofs.** `IInv` (types, mutex ownership, `TakesWhatItTested`) is
inductive for any threads, polls and spurious wakeups. With one waiter, no polls
and no spurious wakeups `OneWaiterInv` is inductive as well: a woken waiter's unit
is there or about to be added. It yields `CountStaysNatural` and
`ImplementsCountingSemaphore`, the safety part of the refinement, step by step.

**ElementsProofs**, last part, about `LdtKeeper`. With serialised calls `SerialInv` is inductive: at most one
call is in progress (`OneCall`), where it stands determines which page is mapped
and installed (`PageByLocation`), the count is one less than the number of users
(`CountIsUsers`), and there is one page (`OnePage`). From it `SegmentTyped`, `HoldersServed`,
`NothingLeaks`, for any finite set of users, and `SegmentAlone` carries them to
`AnySpec`; the lemmas on
cardinalities rest on FiniteSetTheorems.

**RuntimeProofs**, about `MCWin32Runtime`, for any threads, addresses, sizes, files,
classes, names and indices. A step leaves the other parts alone, so the invariants
of the parts together are one of `AnySpec` (`AnyIInv`), and the heap runs as
`GarbageHeap` does by itself (`HeapAlone`).

* The heap, for any finite set of addresses, when the first DLL keeps a block
  (`Anchored`). `Doubly` says that the links of every block on the list answer each
  other and that one block is at each end; `Separate`, that an allocated block is
  in one pair of hands, a DLL's or one call's; `Phases` and `MutexOK`, where the
  thread that loads the DLL or collects stands, and that `memmut` is there from the
  anchor on. An unlink or a link changes the set of blocks on the list by one
  (`ListChange`), which gives the count. Neighbours alone would allow a ring beside
  the list; `Chained` excludes it by the sequence of the blocks from the oldest,
  which a link extends and an unlink shortens. In the same sequence a thread
  that looks for a block is never before it (`Walked`), whatever is linked and
  unlinked meanwhile, and what is on the list is marked or about to be (`Marked`).
  `TypeCorrect`, `MutexNeverLost`, `OwnedReleased`, `ListLinked`, and the action
  property `SizeIsFound`.
* Events, `EvIInv`: while creations do not overlap, the nodes are on the list in the
  order of their creation, the one that is created last (`EvList`, `EvCreator`); at
  a set event nobody sleeps but those that were stranded, unless one the set woke
  is returning (`EvWakes`).
* Threads, `ThrIInv`: an index that is about to be marked is nobody's and one thread
  is about to mark one; so with the word that is taken as a lock; the references are
  those the threads count.
* Classes, files, buffers and types, `ClsIInv`, `FilIInv`, `MemIInv`: the class of
  allocators has one entry if there are allocators and none otherwise; a handle
  that was not duplicated has its descriptor for itself, and what a search has not
  listed is still to be read; a block has one owner and the size that owner was told.
* The dispatcher, `QtdIInv`: the open calls of a thread are at increasing places of
  the array of return addresses; while no two threads are inside it, `ret_i` is
  behind the last.

`NoSetIsLost` and `OneOwner` are the invariants of the run that combine the parts.

**ElementsProofs**, about `MCElements`, for any formats, clocks, times, alignments,
sizes, frames per input, blocks, numbers of flushes, and DLLs that are installed.
Every kind of element has an inductive invariant, and the one of the kind that
the element is of is one of `AnySpec` (`AnyIInv`).

* The DMO video decoder, `IInv == FlagsOK /\ Core`, also by itself. `Core` is the
  safety properties together with what they need of each other: the LDT is held
  from READY on (`HeldFromReady`), and a chain call runs in PAUSED on the DMO it
  began with. A frame is current because both events that open an epoch empty the
  DMO; the QoS observation is current because the same events reset it; and the
  drain loop always has a DMO and a buffer.
* The other DMO elements, `CodecIInv`: the frames ready and held back are sequences
  of frames of the epochs from `base` to `epoch` (`CodecFrames`), which are one for a
  decoder, the count of codecs is one exactly while
  there is a DMO (`CodecHolds`). For the marks of the video encoder, `VencIInv`:
  until a buffer is pushed that the DMO made since it began anew, and while an offset is
  skipped, the mark is due (`MarkDue`); the expected offset is where the last input
  ended, modulo the clock. From that follows the action property `EveryGapMarked`.
* The DirectShow video decoder and the QuickTime element, `DshowIInv` and `QtIInv`:
  caps that were accepted and not refused since have a codec that runs, with a
  frame size that is not zero; between chain calls no buffer is at work, and in one
  the cache is empty. That bytes are accounted rests on what a division leaves.
* The DirectShow audio decoder, `AudioIInv`: the frames the codec produced are
  those given, those dropped and the one it works on, and no two of these share one
  (`FramesKept`); a block is fed once more than it was refused.
* The encoders' times, `TimesIInv`: the guess in the output buffer is one short of
  the sum of its inputs' durations, modulo the clock (`GuessIsInputs`), and one that
  was used already has none left.
* Registration, `RegIInv`: the names that the codecs of all tables give are
  different, so what the loop has passed, and only that, has its type, and a class
  that is the codec's own. The tables are those of the source.

`AlwaysABuffer` and `FramesOfEpoch` to `EveryGapMarked` are the theorems to read
first.

**DshowProofs**, about `MCDshow` as a whole, for any samples, images, references
and frames, any list of types that a codec offers and any list of formats that are
tried. Each part has an inductive invariant, and as a step leaves the other parts
alone, together they are one of `AnySpec` (`AnyIInv`).

* The allocator: each ring has one reachable node or none and only one of the two
  rings has one (`Shape`), who refers to samples (`Counts`), and which block they
  lead to (`Blocks`): a sample that leads to an output buffer is
  `modified_sample`, which is why restoring that one is enough. Lemmas give what
  the four ring functions do to such rings. `TypeCorrect`, `NoneLentTwice`,
  `NoDanglingSample`, `OnlyThisBuffer`, by itself and in `AnySpec`
  (`AllocatorAlone`).
* The DirectShow filter, `DsIInv`: what is held is determined by the place in the
  list of steps of Create or Destroy (`DsStage`), a codec has references on a side
  only while it is connected there (`DsSides`), and the counts are those of the
  holders, object by object (`DsCounted`). Of the order of a close this uses that
  the codec is disconnected and released before the pins and filters are, and our
  pins before the filters, as the code has it.
* The DMO filter, `DmoIInv`: while it opens, every call that the open still needs
  is either in the list of calls to come or its effect is there; whichever fails,
  what is held is given back. The lists are concatenations; lemmas say of each
  element's list that it makes the object, asks for its interfaces and sets both
  types in order.
* The settings, formats and samples: `ToldIsEncoded` and the like with what they
  need. Of formats, that the subtype of the last request fits its header even when
  the codec refused it; of samples, that the memory in use is the one the last frame
  was copied to, however often it was moved.

`OpenedOrNothing`, `CountsAreHolders` and `ToldIsInUse` are the three invariants
of the run that combine the parts.

**TablesProofs**, about `MCTables`, for any pages, reservations, images, addresses,
names, number of stub slots, records, handles, streams, buffers, registry keys and
data. The parts that load, link, drive and keep the registry have an inductive
invariant each, and the four together are one of `AnySpec` (`TablesIInv`).

* Memory and images, `MemIInv`. `VmOK` says that no two allocations start at one
  address, since the kernel maps only what is free; `OwnersOK`, that every allocation
  starts where a module is, where a codec was told or where the load in progress is,
  and that while no image was put into a codec's reservation these are apart;
  `FmOK`, that the view of the load is the newest mapping unless one was made
  meanwhile, which is what UnmapViewOfFile needs to find it. `LoadOK` holds between
  two calls that map a section (`HoldsOK`): the sections that are done hold their
  data and zeros, those to come hold zeros only. A step keeps that because a
  section, its last page included, lies apart from all others and inside the
  size that `calc_vma_size` gives (`SectionsApart`, `SectionsInside`), for which it
  has to start on a page; and because the cleared tail is what a page holds
  beyond the data and below the size (`SectionUnits`).
* Stubs, `StubIInv`: a name that fits has at most one of the slots that are taken
  (`SlotsApart`), since the search before a new one looks at all of these; what was
  handed out for it is that slot, or the last one when the slots had run out.
* Drivers, `AcmIInv`: a handle is on one list once, that of the record it was opened
  on (`ListsOK`), has its DRVR object and is of one interface (`HandlesOK`); a driver
  that a stream opened for itself is that stream's alone (`StreamsOK`); what was
  prepared and not moved is what the driver was told (`HeadersOK`).
* Registry, `RegIInv`: records lie one behind another at offsets that depend on
  their lengths alone (`Offs`, `Laid`), and what lies there is what is read
  (`LaidAreRead`, `ReadAreLaid`). Between two saves the file holds every value
  (`SavedOK`); in a save the records written lie at their offsets and, of the former
  file, those behind them (`SavingOK`), which is why a save that keeps the lengths
  loses one value at most (`OneApart`), and one that changes them may lose the rest.
  No two values have one name until a process stops in a save (`NamesOK`), and the
  handle of HKLM, through which profile strings go, stays open (`HeadOK`). What the
  file's cells hold is a recursive function of the number of records; an induction
  over that number (`UpTo`) stays inside the lemmas about it. Assumed of names,
  data and types is what `RegistryAssumption` says.

**LookupsProofs**, about `LookupsAgree` of `MCTables`. The names of libraries, the
processor's features and its clock have an inductive invariant each (`NamesIInv`,
`CpuIInv`, `ClockIInv`); the three together are one of `AnySpec` (`LookupsIInv`).
What is looked up in an image depends on the image alone, so that there the proofs
are about functions. Those that recur do so over numbers (the rounds of a bisection,
the forwards that are followed, the fixups of a block), so that an induction (`UpTo`)
stays inside a lemma.

* Names (`LoadedOK`, `GivenOK`): libraries on the list with the same last component are
  the same, and none has an emulated one's; a handle is an emulated library's, or that of
  one on the list whose path has the name in it, since a path that is tried ends in
  the name (`CandidateIs`). Loading puts libraries in front and takes none away.
* Features: nothing is told that the file does not show, even when two callers meet
  (`OnlyShown`). As long as none met, one that reads has what the pieces it has read say,
  and when nobody reads the statics are complete (`ReadAlone`), so that a feature the
  file shows is not denied (`ToldAlone`) unless the file could not be read.
* Clock: the count never runs backwards. As long as no measuring thread was late, it is
  in the second it saw or at the begin of the next, and the count it took is that
  second's, up to the wrap of a word (`Measured`, `Alike`); nobody measures what is listed
  (`ListedTold`).
* Exports: a round of the bisection makes the range smaller until its middle is the
  name or nothing is left (`HalveIs`), so as many rounds as there are names are enough
  (`BisectIs`); the search of the whole table that follows finds what an unsorted
  table hides. Resources: an id stands once in its directory at each level, by
  assumption, so the first found is the one. Strings: what is copied is the prefix that
  the buffer has room for (`Copied`).
* Fixups: after each, the shorts it covers hold their moved values and all others
  their former (`Fixed`, `Padding`, `Apart`), which a later fixup keeps, since no two
  cover the same short; the two halves of a pointer move as one does unless the low half
  carries (`HalvesMoved`).

Assumed of the constants is what `MCTables` names: the tables and directories are
well formed, down to their elements (`ExportAssumption`, `ResourceAssumption`), a fixup
lies in its image and apart from others (`FixupAssumption`), names and files are
sequences of pieces and DLLs name libraries without directories
(`NameAssumption`), a processor's file is a sequence, the clock's rates are numbers and
a null value is none of the others (`SystemAssumption`, `ClockAssumption`,
`StubAssumption`). A linker writes such images; what the code does with others is
not modelled.

**Only model-checked.** The liveness properties (`EnterReturns`, `CallsReturn`,
`CollectionEnds`, `DmoChainReturns`, and the fairness half of
`IsCountingSemaphore`): liveness under fairness and ENABLED are out of this
prover's reach. Every invariant and action property of the passing runs is a theorem.

## 5. Findings

Four are runs of their own, whose traces are the evidence.

1. `loader_refcount`: the reference count of a module is never raised
   (`module.c:377`), and FreeLibrary does not look at it (`:343-347`), though the
   comment at `:271` says only unreferenced DLLs are detached. Two elements with
   the same DirectShow DLL: closing one unmaps the DLL under the other.
2. `sem_negative`: a wait sleeps once and does not test again (`win32.c:833`).
3. `loader_order`: "the detach notifications are called in the reverse of the
   sequence the attach notifications *returned*" (`module.c:206`). A node is pushed on
   the list before its entry point is called, so that a DLL which an entry point
   loads stands before the one that loaded it, and CodecRelease, which takes the list
   from the front, detaches the DLL that was loaded first, although its attach returned first.
4. `ldt_overlap`: "shared LDT. only the last user can free." (`ldt_keeper.c:355`). The
   count is read and written without a lock, so that of two overlapping calls one is
   lost, and a Restore that finds zero unmaps the page under a user.

Seen in the models and not given a run of their own. In the properties these are
the exceptions.

* Critical sections: `EnterCriticalSection` reads `locked` and `id` without the
  mutex (`win32.c:1392`), so that a former owner whose id is still there enters
  while the new owner has stored `locked` and not yet `id` (`RaceWindow` proves
  that this is the only such window).
* Semaphores and events: a release of two units wakes one of two sleepers
  (`win32.c:1874`; with two waiters no run has a property about it); a wait of
  duration 0 increments the semaphore it should take from (`win32.c:827`); a
  manual event wakes one of its sleepers and strands the others; CreateEvent and
  CreateSemaphore return something else than the node for a name that is taken.
* fs segment: overlapping Setups map a page each and lose one (`ldt_keeper.c:278`).
* Heap: without an anchor its mutex is destroyed under a thread (section 2).
* Loader: a rejected version (`module.c:444`) leaves the module on the list, and
  the next open returns it as loaded; a module is found
  by a substring of its path; GetModuleHandleA does not know `user32.dll`,
  which LoadLibraryA does; the QuickTime return addresses of two threads
  cross (`module.c:879`).
* Images: the HIGH and LOW halves of a relocated address lose the carry
  (`pe_image.c:366`); the last stub slot is overwritten (`win32.c:5247`), and a
  name longer than its slot runs into the next.
* Tables: UnmapViewOfFile finds only the newest mapping (`ext.c:425`);
  acmDriverClose drops what was opened after the driver it closes
  (`afl.c:104`); acmDriverEnum refuses every flag; the registry's file is not
  truncated (`registry.c:140`), so that a stop in a save leaves the former tail:
  if that save added a value, the next process may read a former record behind the
  value that was moved before it, and has two values of one name, of which it finds
  the first.
* Clock: QueryPerformanceFrequency is in kHz when the file lists it, and a
  measurement wraps in a signed word and is wrong when the thread is late;
  GetTickCount is always 0, since `tcstart` is never set.
* DirectShow: an allocator with `cBuffers` above one loses samples
  (`allocator.c:66`); the audio decoder feeds its codec before it tests the room
  (`DS_AudioDecoder.c:178`); QueryInterface of the output pin's
  memory interface takes that interface for the pin (`outputpin.c`).
* Elements: FLUSH_STOP before the first caps calls into a null decoder
  (`dmo_vdec.c:486`, the step `FlushWithoutDmo`); buffers after refused caps do
  so in the DirectShow and QuickTime elements; an encoder's guess of a duration
  is one short (`dmo_aenc.c:396`); an encoder leaves its DMO's frames over a
  FLUSH_STOP (`dmo_aenc.c:470`, `dmo_venc.c:557`) and pushes them after it; output caps
  that downstream refuses are those of an encoder that is gone, and the one that was
  opened for them stays (`dmo_aenc.c:338`, `dmo_venc.c:365`); caps whose
  SetDestFmt could not connect the output pin again are accepted
  (`dshow_vdec.c:230`), and the next frame is decoded through a freed allocator
  (`outputpin.c:412`); a DMO that keeps a late frame and says INCOMPLETE holds the
  streaming thread for ever (`dmo_vdec.c:397`); the speech encoder's caps are
  `audio/x-wmsp`, its decoder's `audio/x-wms`.

## 6. Not modelled

* The contents of formats and frames, wording, logging.
* API stubs that return a constant, and the string, message and GUI calls: they
  keep no state that another call reads.
* A second object under the name of an existing semaphore while threads wait on
  it, `DeleteCriticalSection` while the section is in use (an error of the caller
  in Win32, too).
* The list of threads that CreateThread keeps (nothing reads it),
  `Check_FS_Segment` (reads only), page protections, the shared image of a base
  at or above 2 GB, an allocator of the codec's own.
* Code that is not compiled: `elfdll.c` (`HAVE_LIBDL` is unset), `#if 0` blocks,
  and `dshow_adec.c`, which registers nothing. `DS_VideoDecoder_GetValue`,
  `SetValue` and `SetDirection`, and the quality levels: nobody calls them.
* The registers that the assembly glue saves; GUIDs, SDK and Wine headers.
* Data races below the level of one memory access, torn reads among them.

## 7. What could follow

* The composition of two elements of different kinds over one `ModuleLoader`,
  rather than over its count.
