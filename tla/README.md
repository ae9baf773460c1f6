# Galaxy 5 device code in TLA+

Models, model-checking runs and proofs for the hardware abstraction libraries
of this repository (the Android device tree of the Samsung Galaxy 5, GT-I5500).
Everything here is read from the source; `PROJECT.json` ("map") says which lines
each definition stands for.

Contents: [the system](#the-system), [modules](#modules-and-code), [runs](#runs),
[fairness](#fairness), [bounds](#bounds), [findings](#findings),
[observations](#observations), [proofs](#proofs), [what is not modelled](#not-modelled),
[plan](#plan).

To check a run or a proof, in this directory:

    tlc -config FbPost.cfg MCFbPost
    tlapm Components_proofs.tla

## The system

The repository is a set of shared libraries that Android loads, a few programs
and configuration data. The libraries share nothing but the kernel: each is
entered by threads of Android's services, and some start threads of their own.

### Components

**`libgralloc/allocator`: SimpleBestFitAllocator.** State: a linked list of
chunks (start, size, free) and the heap's size. Operations: `setSize` (once),
`allocate` (best fit; the result starts on a page, so a chunk may be split in
two), `deallocate` (coalesces with both neighbours). All under one mutex. Hard:
any order of releases, the odd tail of the heap, requests of size 0. Correct
when the chunks tile the heap, no two free ones are neighbours, the chunks in use
are the regions handed out, and a request is refused only if no place fits.

**`libgralloc/mapper`: locking and mapping of a buffer.** State per handle: a
lock word (reader count, WRITE and MAPPED bits), `writeOwner`, a flush flag,
`base`. Operations: `gralloc_register_buffer`, `gralloc_lock`, `gralloc_unlock`,
`gralloc_unregister_buffer`. The lock word is changed by compare-and-swap without
a lock, the mapping is made on demand under `sMapLock`. Correct when a writer is
alone, the count is exact, whoever holds the buffer for software access can use
its address, and a writer is past its flush when it gives up the lock.

**`libgralloc/framebuffer`: posting.** State: lock counts of the slots,
`currentBuffer`, a queue, `is_avail` with a mutex and condition per slot. Two
threads: the composer (`fb_post`, `fb_setSwapInterval`) and `disp_loop`. Correct
when frames reach the screen in order and once, the composer is paced by the
display, locks balance, and no signal is lost.

**`libgralloc/pmemalloc` and `gpu`/`gralloc`: buffers.** State: the master
descriptor and its heap, `bufferMask` over the framebuffer's slots, the handles,
and the address space of the process. Operations: allocate and free of the
framebuffer, of pmem (user space and kernel allocator) and of ashmem; the lazy
`mapFrameBufferLocked`. Each is several kernel calls of which any may fail, and two
threads interleave. Correct when what was taken is accounted for, regions
of different clients never overlap, and nothing is unmapped that is another's.

**`libcamera/QualcommCameraHardware`.** State: `mCameraRunning`, the preview and picture
heaps, a flag with condition variable per thread; `mParameters` and what the driver was
told of them; the weak reference `singleton` with `singleton_releasing`. Operations:
start and stop of preview and recording, autofocus and its cancellation, `takePicture`,
`setParameters`, `createInstance`, `release`, callbacks of driver and encoder. Five
threads beside the camera service: two generations of the frame thread, autofocus,
snapshot, encoder. Hard: the threads are detached, locks are held over callbacks, the
last reference to a released object may be a thread's, messages are enabled and disabled
in the middle of a picture, and the driver may fail or time out. Correct when buffers
are there while they are used, HAL and driver agree, calls return, and one object has
the device.

**`libaudio/AudioHardware`.** State: mode, microphone, TTY, dual microphone, FM;
`mCurSndDevice`; the postprocessing mask; the state of the two streams; the tables read
from `AudioFilter.csv`. Operations: `setMode`, `setMicMute`, `setParameters`, opening
and closing of streams, `write`, `read`, `standby`, all of which lead to `doRouting`.
Three threads. Hard: only `doRouting` holds the lock, the settings it reads are changed
without; a route may have no device; the tables are filled a record at a time, from
counts the record announces. Correct when the driver's route is the remembered one, the
filters fit the device, and no half-read table is switched on.

**`libaudio/AudioPolicyManager`.** State (in a base class that is not here): the
available devices, the mode, forced uses, and the cached device per strategy.
Operation: `getDeviceForStrategy`, called for all strategies after every change.
Hard: one strategy is computed from the cached result of another. Correct when no
other sound takes the hardware's route away from a call.

**`libsensors`.** State: three drivers, each with a descriptor of the same input
device, a ring of events, and an enabled flag; a wake pipe; the kernel's flags; the
daemon. Operations: `activate`, `pollEvents`, closing. Two threads. Hard: events
already read into a ring do not wake `poll()`; enabling starts and kills another
process. Correct when nothing that was read is forgotten, all parties agree what is
switched on, and a sensor that is on reports.

**`g5sensord`.** State: the calibration file, the constellation of readings per
attitude, counters. Operations: start, a reading, the periodical fit, being
killed. Hard: it is killed at any point; the fit picks its readings through a
hand-written heap sort; the attitude is an array index. Correct when a calibration
is never lost and a fit has the newest readings.

**The rest**: `recovery` (keys and drawing), `setup_fs`, `UsbController`, the
`EuropaParts` settings application, headers, overlays and prebuilt files.
`PROJECT.json` lists all of them with a reason where there is no module.

### How they interact

`gpu.cpp` calls the pmem allocators, which call the best-fit allocator, and
`framebuffer.cpp` for the first framebuffer allocation; `mapper.cpp` locks the
handles they made and ends them (`terminateBuffer`). The handles the buffers are
passed in are the only shared state. The camera takes its preview and picture
heaps straight from the pmem driver. The audio policy manager tells the output
stream its device through `setParameters("routing=...")`. `g5sensord` gives its
result to the kernel, where `libsensors` reads it as input events; `libsensors`
asks init to start it and kills it.

## Modules and code

| module | code | state and actions |
|---|---|---|
| `ChunkList` | allocator.cpp, `LinkedList` | operators: the list is a sequence of chunks in order of address; `Carve` is what `alloc` does to it, `Release` what `dealloc` does, both through `Splice` |
| `BestFitAllocator` | allocator.cpp | `mList`, `mHeapSize`; `live` (what callers hold) and `ret`; one action per method, since all hold the mutex throughout |
| `RegionHeap` | (promise) | the abstract allocator: a set of regions; places are any page-aligned gap |
| `HandleLock` | mapper.cpp | one handle and the threads of one process; one action per access to shared memory, `call` has the locals |
| `FbPost` | framebuffer.cpp | composer `pc`, display loop `dpc`; the lock and condition of each slot, the queue, what is on the screen |
| `PmemUserspace` | pmemalloc.cpp, gpu.cpp | lazy initialisation, allocation, mapping and release; `open` and `windows` are the kernel's view |
| `GpuContext` | gpu.cpp, framebuffer.cpp, pmemalloc.cpp, mapper.cpp | slots and their mask, kernel pmem and ashmem buffers in one address space that other code maps into |
| `CameraHardware` | QualcommCameraHardware.cpp | one `pc` per thread, `held` for locks that are kept over a call, the flags by their names in the source |
| `CameraInstance` | QualcommCameraHardware.cpp | `createInstance`, `getInstance`, `release`, the destructor: who refers to which object, and where it lies |
| `CameraParameters` | QualcommCameraHardware.cpp | `setParameters` and its setters in their order; `mParameters` beside what the driver accepted |
| `AudioRouting` | AudioHardware.cpp | one `pc` per thread, `call` has its locals and where `doRouting` returns to; `driver` and `audpp` are what the kernel was told last |
| `AudioFilter` | AudioHardware.cpp | the reading of the two files line by line, the tables as the parts stored so far, preprocessing of recorded sound |
| `DeviceForStrategy` | AudioPolicyManager.cpp | the decision as a function of the state; the base class's updates as actions |
| `EventQueue` | (promise) | a bounded queue of events |
| `InputEventReader` | InputEventReader.cpp | the ring with its two pointers as indices; `fill`, `readEvent`, `next` |
| `SensorsPoll` | sensors.cpp, the three drivers | the loop of `pollEvents` a driver at a time, `activate` in three steps (switch, driver, wake-up); kernel, init and daemon around it |
| `G5Sensord` | g5sensord.c | start, sample, calibration, kill; bins of the constellation; gravity as a small vector |

`PmemUserspace` EXTENDS `ChunkList`, so the sub-allocator it composes with is the
one that is proved, and its own proofs use those of `ChunkList`. `BestFitAllocator`
INSTANCEs `RegionHeap`, `InputEventReader` INSTANCEs `EventQueue`, which is also
what `SensorsPoll` takes a driver's ring for; `SensorsPoll` has the daemon of
`G5Sensord` as a process that runs, dies or is stopped. An `MC` module has the
values of constants; `MCComponents` puts eight components that share no state into
one specification, of which a behaviour runs one. The theorems are in the `_proofs`
modules: one each for `ChunkList`, `FbPost`, `PmemUserspace`, `GpuContext` and
`CameraHardware`; `AudioHardware_proofs` has those of `AudioRouting` and
`AudioFilter`, `Sensors_proofs` those of `SensorsPoll`, and `Components_proofs` those of
the other parts of `MCComponents` (`BestFitAllocator`, `HandleLock`, `CameraInstance`,
`DeviceForStrategy`, `InputEventReader`, `G5Sensord`, `CameraParameters`). An operator
named `..._X1` in a module is a mutation of the definition after it and is used by
nothing: `PROJECT.json` ("mutants") pairs it with the property that catches it.

Granularity. Code under a mutex that no other code bypasses is one action. Where
data is read or written without a lock (the lock word, `bufferMask`, the settings
of the audio HAL, the postprocessing mask, `singleton`) each access is an action, and the
locals between two accesses are kept in `call`. A lock that is held over something
that can block is part of the state.

What conditional compilation selects is read from `BoardConfig.mk` and the
sources: `TARGET_MSM7x27` is defined, `USE_ASHMEM` and `HDMI_DUAL_DISPLAY` are not;
`storeTargetType` always selects `TARGET_MSM7627` (QualcommCameraHardware.cpp:805),
so the video thread and the postview code never run; `HAVE_FM_RADIO` and
`COMBO_DEVICE_SUPPORTED` are defined.

## Runs

| run | shows |
|---|---|
| `components` | eight components, one per behaviour: the allocator (heaps of one, four and five pages and six sizes) tiles, coalesces and implements `RegionHeap`; two threads lock a handle of each origin and kind of memory with exclusion, exact counts, one mapping, and progress of the retry loops; the ring implements `EventQueue`; the daemon keeps its calibration and fits the newest readings; a call keeps its route; there is one camera and `createInstance` answers; settings agree with the driver and survive a round trip; no half-read filter is switched on |
| `fb_post` | two slots, any sequence of frames, two changes of the interval, a wait that returns early, failing flip: order, balance, pacing, every post returns, every queued frame is shown |
| `fb_early_unlock` | finding 1 |
| `pmem_userspace` | two threads, three pages, four descriptors, every kernel call failing: windows disjoint, heap and descriptors accounted for; no deadlock, so every call can return |
| `gpu_context` | two threads and either three handles of framebuffer slots and regular buffers, with a first mapping that fails at each of its steps, or two of ashmem and ADSP memory in five pages, with one foreign mapping: mask and slots, one display loop, mappings intact but for the second `munmap` of an ADSP buffer, nothing left behind |
| `camera_preview` | preview, recording, autofocus, time-out and release with five kinds of failure: one frame thread, heap in use, HAL and driver agree, focus while running, calls return |
| `camera_picture` | JPEG and raw pictures between previews, with `COMPRESSED_IMAGE` enabled and disabled and the camera released at any moment of a picture, and seven kinds of failure: buffers in use, no preview during capture, pictures end |
| `camera_snapshot` | finding 2 |
| `camera_callback` | finding 3 |
| `audio_routing` | mode, microphone, radio, TTY, dual microphone, routes (headset, car kit), play and record with one driver failure: the driver's route is the remembered one, postprocessing fits the device, the lock is released |
| `sensors_poll` | two drivers, three activations or closes, one failing kernel call: nothing read is forgotten, drivers, kernel and daemon follow the switches, sensors that stay on report |
| `g5_facedown` | finding 4 |

Runs that `expect` a violation check one property that a comment or a log message
of the code states. The type invariants are not checked as properties of their own;
those the proofs need are part of the inductive invariants.

Deadlock is checked wherever the modelled system cannot stop. It is switched off
for the camera, where the object ends with `release`, where the two findings and two
named exemptions stop threads, and where a step that would use a heap or a library
that is gone is not taken, since it ends the process; for posting, where a display
loop that has taken from the empty queue is not followed further; and for the
sensors, where `poll` may wait for ever with nothing switched on.

Exemptions. Some properties except states in which the code is known to go wrong,
so that they can say what holds otherwise. Each exemption is a named operator or
variable, and each has a hazard in `PROJECT.json` that says what goes wrong there:

- `early`: `QueueHeld` is claimed until a wait of posting returns early, and while the
  interval is 1 (`Paced`). `Adrift`: the liveness of posting is claimed until the
  display loop has taken from the empty queue.
- `torn`: `MappingsIntact` leaves out the pages that the second `munmap` of an ADSP buffer
  took. `abandoned`: `NothingLeftBehind` counts the descriptors that a failed first
  mapping of the framebuffer leaves open.
- `strayed`: `OneInstance` is claimed until a thread that began after its object had
  gone has found another one.
- `overrun`: `FiltersWhole` leaves out the tables that a record with too large numbers
  was stored over.
- `unrouted`: `RouteAgrees` leaves out the earpiece while the last route had no device.
- `wanted`: `PictureInUse` claims thumbnail, JPEG and displayed heap for a picture that
  was allocated with `COMPRESSED_IMAGE` enabled.
- `parted` in `PictureInUse`: a `release` that came before the snapshot thread waited
  for its encoder frees the picture under it. `PictureEnds` excepts a picture of which
  something is gone (`InPlace`), and a failed encoding (`EncoderFailed`).
- `FrameForgotten` and `CallbackWaits` (finding 3) in `CallsReturn`;
  `camframe_timeout_flag` in `DriverFollows`.
- `misrouted`, `modeLost` and `unfiltered` in the audio properties; `phoneMoved` in
  `CallKeepsItsRoute`; `failed`, `startIgnored` and `orphan` in the sensors'; `refusals` in
  `SettingsAgree` and `RoundTrip`.

One constant states what callers do: `AloneKinds` in `GpuContext` says which buffers are
freed only while no other call runs: the framebuffer's slots, since `free_impl` changes
`bufferMask` without the lock and SurfaceFlinger frees them at the end of its display;
and no other kind.

## Fairness

| module | assumed | why |
|---|---|---|
| `BestFitAllocator`, `GpuContext`, `PmemUserspace`, `InputEventReader`, `G5Sensord`, `DeviceForStrategy`, `CameraParameters`, `AudioFilter` | none | only safety is claimed |
| `HandleLock` | weak, of each thread inside a call | a thread runs on; nothing is assumed of who wins a swap, so only the progress of some thread is claimed |
| `FbPost` | weak, of a post that began and of the display loop | kernel scheduling; the composer need not post again |
| `CameraHardware` | weak, of each thread and of the recorder giving frames back | driver calls return; the recorder releases what it was given, which the media recorder does in the same thread |
| `CameraInstance` | weak, of a call of the service that began and of each thread | driver calls and callbacks return; the service need not call again |
| `AudioRouting` | weak, of each call that was made | driver calls return; nothing is assumed of who gets `mLock` |
| `SensorsPoll` | weak, of the polling thread, of an activation that began, of the device's reports, and of init reaping the daemon | the service polls in a loop; reports come at the rate the driver was set to |

Strong fairness is assumed nowhere.

## Bounds

- `BestFitAllocator` has none but the constants: the state space is finite since
  the heap is. With four units to a page all cases of the split occur (exact fit,
  remainder smaller than a page, odd tail of the heap: size 19 is rounded to 20).
- `HandleLock`: `MaxFailures` failing maps. Two threads suffice for each pair of
  racing accesses; readers and writers mix freely.
- `FbPost`: `Frames` numbers the frames modulo 8, more than can be in flight with
  two slots; `MaxSets` is the number of interval changes: to 0 and back; `MaxEarly`
  of the condition waits return early.
- `PmemUserspace`: three units and four descriptors let both run out with two
  threads; error numbers are one of each kind.
- `GpuContext`: slots and memory of their own share no state but the count of
  descriptors, so each behaviour has callers of one kind (`Callers`). With one or two
  screens two threads and three handles run out of slots and race for the first
  mapping, which fails up to `MaxAbandoned` = 2 times with the device open. Five pages
  hold two buffers or a buffer and a foreign mapping, so that allocation after
  failure meets every refusal; sizes 1 and 3, because the kernel's allocator rounds 3
  up to 4. Threads and handles are symmetric.
- `CameraHardware`: `Calls` and `Fail` select the operations of a run; `MaxOwed`
  frames are with the recorder at a time; two frame-thread slots show two
  threads at once if they ever exist.
- `AudioRouting`: two routes, the headset and the car kit, and the microphone, with
  which sound goes to the handset; `MaxRequests` = 2 settings beside any number of writes,
  standbys and reads, `MaxFailures` = 1. A property of two requests needs a
  setting and a routing that overtake each other.
- `CameraInstance`: two places for objects, two threads: an object's end can
  overlap the next one's creation, with a thread of each.
- `CameraParameters`: two values of each of six settings and one unsupported,
  `MaxChanges` settings a call, `MaxRefusals` refused commands; the settings
  chosen are those whose setters look at each other.
- `AudioFilter`: files of `MaxLines` = 3 lines out of complete, cut, garbled and
  disabled records of each kind, and of multi-band records that reach two or three
  tables beyond their own: two of a kind and one that ends the reading.
- `InputEventReader`: three cells, so that reads of one to three events run
  over the end at each place; two events tell order apart (the proof is for any).
- `SensorsPoll`: `MaxQueued` = 3 events wait in a descriptor, a caller has room
  for two, so a ring is left half read; `MaxActivations` = 3, `MaxFailures` = 1.
- `G5Sensord`: bins of 3 by 2 by 1, fits of two to three equations every two of
  `MaxSamples` = 6 readings, six attitudes.

## Findings

1. **fb_early_unlock** (`framebuffer.cpp:168`). The comment at 424 says the
   previous buffer is unlocked once the display has the new one. The loop marks
   the slot of its very first frame available when it shows it, so the second
   post unlocks the buffer that is still on the screen.
2. **camera_snapshot** (`QualcommCameraHardware.cpp:3027`). `takePicture` sets
   `mInSnapshotMode` after it has started the thread that clears it. If the
   thread is faster the flag stays set, and the next `startPreview` waits for ever.
3. **camera_callback** (`QualcommCameraHardware.cpp:2156`). `startPreview` waits,
   with `mLock` held, for the old frame thread; that thread's callback may be in
   `release`, which waits for `mLock`. The comment at 2271-2276 says the wait was
   designed to avoid this deadlock.
4. **g5_facedown** (`g5sensord.c:437`). The comments at 439 and 523 say the pitch
   is between -90 and 90 degrees. Its denominator keeps the sign of gravity, so for
   a phone on its face it is not, and the reading goes to a bin that is not there.

## Observations

What was met while reading and no property speaks of (the hazards that do have
properties are in `PROJECT.json`):

- `framebuffer.cpp:463`: a regular buffer posted to the main screen is never copied
  to it; the `memcpy` is commented out and `msm_copy_buffer` copies the framebuffer
  onto itself. `framebuffer.cpp:513` ff.: every failure of `mapFrameBufferLocked`
  between the open and the mapping leaves the device's descriptor open, and where
  `errno` is 0 (654, 693) its caller goes on as if all were well (`abandoned`).
- `framebuffer.cpp:429`: the composer's wait is an `if` too; when it returns early the
  current buffer is unlocked while it may still be shown.
- `framebuffer.cpp:141`: "wait (sleep) while display queue is empty" (140) is an `if`;
  when the wait returns early the loop shows and signals whatever slot an entry of an
  empty queue names.
- `mapper.cpp:291`: a software write is flagged "for flushing at unlock" (252), where
  memory of the kernel's allocator alone (`gpu.cpp:181-183`) has no ioctl; `err` is then
  uninitialised. The flag is cleared then, and after an ioctl that failed.
- `pmemalloc.cpp:131`: an error of -1 is taken for "not tried yet" (`MASTER_FD_INIT`
  is -1), so the area is initialised again against the comment at 134. After a failed
  `open` (`errno` 1) nothing was left behind. But without `TARGET_MSM7x27`
  `getPmemTotalSize` returns the -1 of `ioctl` (`gralloc.cpp:71`), by then the device is
  mapped, and each further call would map it again. This build defines the macro
  (`Android.mk:40`), and there the call cannot fail; the tests let it return `-EACCES`,
  which is what `SizeErrors` holds.
- `QualcommCameraHardware.cpp:2821`: a cancellation that comes before the autofocus
  thread has `mAfLock` is lost. 2866: a second `autoFocus` waits with `mLock` held,
  so that a cancellation waits too. 3692: the raw callback uses `mDisplayHeap`,
  which is null when `SHUTTER` is disabled, and when a picture beyond 2048, for which
  the thumbnail is displayed instead (3546), has no thumbnail because no JPEG is wanted
  (3000). 2502: `release` waits for the encoder, not for the snapshot thread, which
  then goes on without its heaps, and without the library it calls
  `LINK_jpeg_encoder_join` in (2940). 3185: a thread whose object is gone should find
  none ("the object went away!", 2128), but finds the next one when there is one. 2717: the
  autofocus thread reads `mParameters` without `mLock`.
  3143 ff.: `singleton` is promoted and assigned without a common lock, which is a
  data race; a `startCamera` that fails after the control thread began leaves its
  descriptor and thread, and one that fails at `dlopen` leaves `w_thread` unjoined.
  The brightness is never put into `mParameters`, so that setting what was got
  sets it back to its first value; a frame rate or brightness that the driver
  refused is remembered and not told again; until the first preview `mMaxZoom` is
  0 and no zoom is taken; the EXIF table has room for seven entries.
- `mapper.cpp:190-196`: a buffer of the kernel's pmem allocator is unmapped by
  `free_pmem_buffer` and again by `terminateBuffer`, although the comment exempts
  buffers mapped where they were allocated; a mapping another thread makes in
  between is torn down (`torn`).
- `AudioPolicyManager.cpp:199`: media is compared with the phone's device as it was
  before the update (`phoneMoved`).
- `AudioHardware.cpp:94`: the device of a car kit is never looked up (193-210), so for
  it `doRouting` tells the driver nothing, not the mode either, although `setMode`
  clears the current device to make sure of that (1124). 530: a multi-band record
  says how many bands and how large a buffer follow, and they are stored over the
  tables of the next devices.
- `AudioHardware.cpp:1157`: `setMicMute` routes `SND_DEVICE_CURRENT`, to which the
  handset's workaround (1512) does not apply. 1384: `setVoiceVolume` reads the device
  before it takes the lock. 1896: a routing between the two statements of the
  output's `standby` leaves postprocessing on. 1116: the index survives the release of
  the lock. 143: the destructor skips every second input. 553: `samp_index` is
  assigned a comparison, so every preprocessing record goes to table 0. 636: the
  noise suppression record begins with `strtok(NULL)` and reads what the line before
  it left, so it normally ends the reading of the file. The flag of an equaliser or
  compressor record is looked at for device 0, and a later 0 does not clear the mask.
  A preprocessing table that the driver refuses is only logged. `audpre_index` is
  shared between two record streams. `mTtyMode` is never initialised.
- `sensors.cpp`: with room for one event the first driver starves the others when
  its events come faster than they are read.
- `g5sensord.c:274`: `fclose` of a file that was never opened. The sign of `fGpz`
  flips in every iteration in which the acceleration is not read again.

## Proofs

Each theorem is for every value of the constants that the module's assumptions
allow: any page size, heap and request sizes (`ChunkList`, `BestFitAllocator`), any
finite set of threads (`HandleLock`), a finite set of threads and of descriptors
(`PmemUserspace`), any threads, finitely many handles, any number of pages, any sizes
and screens (`GpuContext`), two or more slots (`FbPost`), any capacity
(`InputEventReader`), any objects and threads (`CameraInstance`), any calls, failures,
messages and calls of the preview callback, and any number of frames with the recorder
(`CameraHardware`), any routes, requests and filter tables, any number of settings and
of driver failures (`AudioRouting`), any set of lines (`AudioFilter`), any pluggable
devices (`DeviceForStrategy`), any number of drivers, ring capacity and room of the
caller (`SensorsPoll`), any bins, attitudes and number of rows (`G5Sensord`), any set of
settings, values, requests and refusals (`CameraParameters`). The threads of
`CameraHardware`, `AudioRouting` and `SensorsPoll` are those the code has.

| module | theorem | states |
|---|---|---|
| `Components_proofs` | `HeapInvariance` | `Spec => []HeapInv` (`BestFitAllocator`) |
| | `HeapTypeCorrect` | `Spec => []TypeOK` |
| | `HeapTiled` | `Spec => []Tiled` |
| | `FullyCoalesced` | `Spec => []NoAdjacentFree` |
| | `HandsOutPages` | `Spec => []PageAligned` |
| | `ListKnowsRegions` | `Spec => []LiveIsUsed` |
| | `RegionsDisjoint` | `Spec => []LiveDisjoint` |
| | `ImplementsRegionHeap` | `Spec => HeapSpec` |
| | `LockInvariance` | `LockSpec => []LockInv` (`HandleLock`) |
| | `WriterIsExclusive` | `LockSpec => []ExclusiveWriter` |
| | `CountIsAccounted` | `LockSpec => []CountAccounted` |
| | `HolderIsMapped` | `LockSpec => []HolderMapped` |
| | `InstanceIsOne` | `InstanceSpec => []OneInstance` (`CameraInstance`) |
| | `ReleaseIsDue` | `InstanceSpec => []ReleaserRuns` |
| | `CallIsRouted` | `PolicySpec => []CallKeepsItsRoute` (`DeviceForStrategy`) |
| | `RingStaysSound` | `ReaderSpec => []RingSound` |
| | `ReaderImplementsQueue` | `ReaderSpec => ReaderIsQueue` (`EventQueue`) |
| | `HeapSorts` | `heapSort(s0, NumBins)` is `s0` in ascending order, for any array of numbers |
| | `CalibrationIsKept` | `DaemonSpec => []CalibrationKept` (`G5Sensord`) |
| | `NewestAreFitted` | `DaemonSpec => []NewestEquations` |
| | `DriverAsTold` | `ParametersSpec => []SettingsAgree` (`CameraParameters`) |
| | `SettingTheSame` | `ParametersSpec => RoundTrip` |
| `PmemUserspace_proofs` | `SurfacesApart` | `Spec => []WindowsDisjoint` |
| | `HeapIsAccounted` | `Spec => []HeapAccounted` |
| | `DescriptorsAreAccounted` | `MASTER_FD_INIT \notin SizeErrors` implies `Spec => []DescriptorsAccounted` |
| `GpuContext_proofs` | `InductiveInvariant` | `Spec => []IInv` |
| | `SlotsAreHeld` | `SlotsFreedAlone` implies `Spec => []MaskIsHeld` |
| | `MappingsStayIntact` | `Spec => []MappingsIntact` |
| | `NothingIsLeftBehind` | `Spec => []NothingLeftBehind` |
| `FbPost_proofs` | `LocksBalance` | `Spec => []LockBalance` |
| | `FramesInOrder` | `Spec => ShownInOrder` |
| | `QueueIsHeld` | `Spec => []QueueHeld` |
| | `NoWaitIsInVain` | `Spec => []EachIsWoken` |
| `CameraHardware_proofs` | `InductiveInvariant` | `Spec => []IInv` |
| | `FrameThreadIsAlone` | `Spec => []OneFrameThread` |
| | `HeapOutlivesDelivery` | `Spec => []HeapInUse` |
| | `CameraFollowsDriver` | `Spec => []DriverFollows` |
| | `PreviewWaitsForPicture` | `Spec => []NoPreviewInSnapshot` |
| | `PictureOutlivesEncoder` | `Spec => []PictureInUse` |
| | `LocksInOrder` | `Spec => []NoCircle` |
| `AudioHardware_proofs` | `InductiveInvariant` | `Spec => []IInv` (`AudioRouting`) |
| | `RouteFollows` | `Spec => []RouteAgrees` |
| | `FiltersFollow` | `Spec => []MaskFits` |
| | `FiltersAreWhole` | `FilterSpec => []FiltersWhole` |
| `Sensors_proofs` | `InductiveInvariant` | `Spec => []IInv` (`SensorsPoll`) |
| | `NoEventIsForgotten` | `Spec => []NothingForgotten` |
| | `SwitchesAgree` | `Spec => []SwitchAgrees` |

The inductive invariants were checked by TLC, on the constants of the runs, before
they were proved.

**The allocator.** None of its invariants is inductive alone. Tiling is preserved by
a release only if the neighbours that are merged really touch; coalescing is
preserved only if the list was coalesced before (the code looks at one neighbour on
each side); the callers' regions and the used chunks agree after a release only
because used chunks are distinct, which follows from tiling and from no chunk being
empty. And page alignment of used chunks is needed for `Extra` to be 0 where a chunk
is reused. `HeapInv` is the conjunction, stated on the list by local relations
(`Adjoining`, `Coalesced`, `NoneEmpty`) and by `Ordered`. Both operations replace one
stretch of the list, so both are a `Splice`. `SpliceElements` says what stands where
after it; `SpliceSegment` that the local relations survive if they hold inside the
new stretch and at its two ends; `SpliceUsed` which regions come and go.
`CarveReplaces` and `ReleaseSegment` describe the new stretches of `alloc` and
`dealloc`. The refinement adds the other way round: if any page-aligned place of the
heap is free for the request, it lies in one free chunk (`ChunkOfUnit`), the least
aligned start of that chunk is no later (`ExtraLeast`), so the chunk is `Fitting`
(`PlaceFits`). Hence a refusal is justified, and whatever best fit chooses is a place
(`ChosenPlace`).

**Surfaces of different clients.** A window is the region of its buffer or of the
call that is about to unmap it (`WindowsAre`); that region is in use in the list
(`Backed`); no two owners have the same one (`Apart`), because `Carve` gives out a
region where none in use starts (`CarveIsNew`) and `Release` takes just the one of
the caller (`ReleaseOfRegion`); and regions in use do not overlap (`UsedDisjoint`).
`FdsApart` is needed so that unmapping through a descriptor ends the window of the
region that is given back. The steps fall into a few effects (`Onward`, `Opens`,
`GivesBack`), each proved once. No region in use lacks an owner either (`Owned`, the
reverse of `Backed`); since regions differ, they are as many as their owners.

**Descriptors.** Only the holder of the mutex changes `master_fd`, and it starts to
open the device only where nothing is mapped (`InitialisesOnce`), so `areas` is at
most 1. A step keeps, closes or opens one descriptor of its own call (`FdStep`), hands
it to a buffer or back, or stores an error over the one of a mapped device: then that
one is without an owner, and no second can be (`OneLost`). The hypothesis about
`SizeErrors` is needed: see the observation about `pmemalloc.cpp:131` above.

**The gpu context.** `IInv` needs no hypothesis: who is in which place with which buffer
(`PlaceTypes`), who has the module's lock, that a framebuffer which is not mapped has no
slots, no handles and no display loop (`FirstMapping`), that open descriptors are as
many as handles and calls that will close one (`Accounted`), and that each page mapped
for a buffer is part of a handle's buffer or of one a call will unmap (`PagesOwned`).
`NothingLeftBehind` follows from the last two. `MemoryIntact` adds that no two of these
owners share a page and that a page of a buffer is mapped for it unless it is in `torn`,
which only the second `munmap` of an ADSP buffer adds to; `OthersIntact` says so of
other code's pages. Only the slots need a hypothesis about callers, `SlotsFreedAlone`:
`free_impl` loads and stores `bufferMask` without the lock that `gpu_context_t` holds
for its own load and store; with it the value a thread has loaded is still that of the
mask (`SlotsHeld`). The run's `AloneKinds` satisfy it. `RoundingAssumption` says that
`clp2` does not make a size smaller; it is an assumption because the provers know
nothing of powers, and TLC evaluates it for the sizes of the run.

**The lock word.** Between the load and the swap of a loop the word may change; what
helps is that a swap succeeds only on the value that was loaded, and that this value was
judged (`LockSwap`, `UnlockSwap`). A writer's count is then 1, and with the exact count
nobody else is inside (`Alone`); from being alone follows that `writeOwner` and the
flush flag are its own (`Owned`, `FlushPending`), so the write bit is kept until the
unlock is past its flush; what the flush does is not claimed. `MapLocked`, `MappedOnce`
and `Given` follow the mapping through `sMapLock`.

**Posting.** `Counts` says which slots are locked at each place of `fb_post`: the
current one, both, the new one, or, for a dropped frame, none for a moment. It holds
although the display loop and the interval change at any time, and waits return early.
`Numbered` says that the queue holds the frames after the one shown last, from which
their order follows. `QueueHeld` needs to know what is in flight at each place of
`fb_post` (`PacedInv`): the current frame at most before a push, that and the new one
after it, and the new one at most once the wait is over. The wait ends when
`avail[currentIdx]` is set; that this never happens while the current frame still waits
behind an earlier one, as long as no wait returns early, is the heart of it, and it is
not obvious with two slots, where the slot released may be the one just queued. Two
frames in flight are at most `NumBuffers`. `EachIsWoken` is what the two liveness
properties need beside scheduling: until the display loop is `Adrift`, it waits
unsignalled only while the queue is empty, and `fb_post` only while a frame is on its
way; early returns take no signal away. For the second, `LinkInv` says which slot each
frame in flight will make available: the last one its own, the one before it the slot
`fb_post` waits for.

**The camera.** The threads are detached and say by a flag that they are there.
`LocksAgree` says at which places a call holds `mLock` and `mCameraRunningLock`;
`FrameAgrees`, `SnapshotAgrees` and `FocusAgrees` what each flag says of its thread.
What makes these inductive is `Claims`: what a call has found out and relies on
until it gives up `mLock`. From `wait_snapshot` on a start knows that no frame thread is
left, and that `mCameraRunning` is false; from `heap` on that no picture is with the
sensor; a stop knows that the camera runs; `takePicture` knows that no snapshot
thread is left. A second call cannot disturb a claim, since at most one holds `mLock`
(the frame thread's callback being one more caller), and a thread can only leave. So
`create` never meets a frame thread, and its heap is that of the thread it makes.
`DriverAgrees` holds while nobody has `mCameraRunningLock`, with the autofocus thread as
the one that holds it without changing either side.

`PictureInUse` needs more than locks: the snapshot thread allocates and the encoder
reads without `mLock`. `Provided` says at which places which heaps are there, from the
call that allocates them to the last thread that uses them; `PictureAgrees` that the
encoder works for the picture the snapshot thread has; `Undisturbed` that a `release`
which frees the heaps meets a thread that has only to join its encoder. The last is
what `parted` takes away: `release` waits for an encoder that is there and not for a
snapshot thread that may start one. `takePicture` frees nothing that is used because
it waits for the thread (`Claims`). There is no hypothesis about callers or messages.

`NoCircle` says that no set of threads is such that each of them waits for a lock another
of them has. `HeldWhere` follows the five locks that are taken within others to the
places where a thread has them; so who waits for a lock has only locks that come before
it in one order (`Rank`), and a set of threads that waited for itself would need a lock
after the last. This is about the locks alone and has no hypothesis. A wait for a flag
with `mLock` held can still end in a deadlock with a thread that waits for `mLock`: that
is finding 3.

**Routing.** A thread is inside `doRouting` exactly when it has `mLock` (`LockHeld`).
The driver is told of the device, of the microphone and of the earpiece in one call, and
`mCurSndDevice` is stored later, so `DeviceAgrees` speaks of the thread that has told
and not yet named (`Telling`), and `EarAgrees` excepts the earpiece, which its own
device routes; `FmAgrees` excepts the car kit, for which nobody is told (`unrouted`).
The radio is the hard part: `setFmOnOff` changes the radio's state before the route,
without a lock. `FmAgrees` says that whoever did is on its way into `doRouting`, with a
request that no early return passes over. That is so only because the TTY mode, never
initialised, has been set by the same request by then. `FiltersFit` follows a mask from
where it is computed to where it is given to the driver, past the playback thread that
does the same without the lock (`ApplyFits`).

**Filters.** The reading stops at the first record that is not stored whole, and
only a reading to the end sets `audpp_filter_inited`; so until then, or when it is
set, every flag and mask names whole tables; those a later record ran over are in
`overrun`, until a record of their own is read.

**The policy.** The cached devices are those that `getDeviceForStrategy` gives for the
present state and the phone's device as it was before the update (`CacheAgrees`),
because media is compared with that one. Each strategy's list ends with a device
that is always there (`BuiltIn`), so what it picks is not empty and is available.

**One camera.** Until a thread has strayed, the object `singleton` names is the only one
alive, every strong reference is to it, at most one holder runs its destructor, and
while a released object is still referred to `singleton_releasing` is set. The first
that strays is one whose object has gone before it began (`late`). `ReleaserRuns`, the
safe part of `CreateReturns`: while `createInstance` waits for a release, a thread that
still has the object, or is in its destructor, is there to end the wait. `Kept` is what
it adds: an object that is named is somebody's until its destructor is through. It does
not need that no thread is late.

**The ring.** `RingSound` ties the two pointers to the free count and says that what
waits are events of the device; `AfterRead` that a read and its copy back leave them.

**The sensors.** A ring that holds events keeps its `revents` flag (`Remembered`), and
the flags of the drivers that a scan has passed are clear unless the caller's room is
used up (`Passed`); `poll` is called only with room left, so all rings are empty then.
That a failed read clears the flag and leaves its events is the exception; it needs
`errnoAssumption` (an error number is positive, so that `-errno` is below 0:
InputEventReader.cpp:56). `FlagsAgree` and `DaemonAgrees` say what a call of `activate`
has done at each of its three steps.

**Recursive functions.** `siftDown`, `heapSort` and the run of the setters are recursive
functions, each a `CHOOSE` of which the prover knows nothing until a function with that
equation is shown to exist. `Induction` is proved from the library's well-foundedness of
`<` on the naturals (a least exception would have one before it), about a set and not
about an operator; from it `Iteration` and `IterationUnique`: a function with a first
value and a step from each number to the next exists and is the only one, the step being
given as a function. `Descent` is the same for functions that count down.

**The daemon.** `CalibrationKept` is inductive as it stands: only a fit replaces the
file, and it goes on with what it wrote. `NewestEquations` needs that `heapSort` sorts.
Sifting keeps a heap except at the moving value, above which nothing is smaller than
what is below; the largest value is then at the root and goes to the end; every step
is a reordering, so values that were different stay so. All samples in the bins are
different (`Distinct`: a new one has the number of its loop), so the value
`MAXEQUATIONS` places from the end of the sorted array separates just that many samples,
or it is that of an empty bin and there are fewer (`NewestCounted`).

**The settings.** Each setting has one setter among the twenty, so after a call its value
is what that setter made of the value before it (`RanOutcome`); of the others it may look
only at the effect and the white balance. `SettingsKept` says that the driver has what
is remembered, but for settings with a refusal, and that no white balance goes with a
colour effect; a round trip then gives every setter the value it already has.

Only model-checked, because liveness under fairness and `ENABLED` are out of the
prover's reach: `SomeCallReturns`, `CreateReturns`, `PostReturns`, `EveryFrameShown`,
`CallsReturn`, `PictureEnds`, `LockReleased` and `SensorsReport`. Of three of them the part
that is safety is proved: that somebody is left to end each wait (`ReleaserRuns`,
`EachIsWoken`). Neither checked nor proved is that the best fit is the *least* fitting
chunk, which no property needs. No module declares a `RECURSIVE` operator.

## Not modelled

Within the modelled components: `gralloc_perform` (builds a handle); the copy path
of `fb_post` for regular buffers and all screen geometry; the HDMI loop (not in this
build); of the camera the conversion of coordinates, the EXIF table, the thumbnail
and position settings, `dump` and the code of other targets, and what follows the use
of a heap or a library that is gone; of posting what follows an entry taken from the
empty queue; of the filters a record that reaches past the equaliser's tables; of the
audio HAL volumes,
stream formats, `closeOutputStream`'s deletion and the destructor; of the policy
manager `checkAndSetVolume`, which computes a volume for the base class; of the
sensors `setDelay` and the conversion of readings.

The daemon's fit and compass equations are floating-point linear algebra, out of
the reach of TLC and TLAPS; only the angles that index its arrays are computed, for
attitudes where they are exact.

Other components: `recovery`, `setup_fs` and `UsbController` are sequential input and
output; `EuropaParts` is preference screens; headers and configuration have no
behaviour of their own. `PROJECT.json` gives the reason for each.

## Plan

Done: the graphics allocators, buffer locking, posting, the gpu context, the camera's
threads, parameters and instance, audio routing, filters and policy, the sensors and
the daemon. Proved: every safety invariant and every action property the runs check, the
refinements of `RegionHeap` and `EventQueue`, and the order of the camera's locks.

Left: an abstract queue of frames that `FbPost` refines, and the failures inside the
daemon's save of its calibration.
