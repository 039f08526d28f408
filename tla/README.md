# Verification of openpnp-capture

TLA+ models of openpnp-capture (the raw-MJPEG fork), the TLC runs that check
them, and TLAPS proofs about them. Module, run and theorem names are those of
`PROJECT.json`.

## 1. Inventory

The library captures camera frames on Linux (V4L2), Windows (DirectShow) and
macOS (AVFoundation) behind one C API.

| Part | State | Operations | Interacts with |
|---|---|---|---|
| C API (`common/libmain.cpp`) | none | `Cap_*`: argument tests and wrappers | Context |
| Context (`common/context.cpp`) | `m_devices`, `m_streams`, `m_streamCounter`, `m_contextMutex` | open, open raw, close, lookups, probe, refresh, release | platform contexts enumerate devices; creates and deletes streams |
| Stream core (`common/stream.cpp`) | `m_frameBuffer`, `m_rawBuffer`, `m_rawFrameSize`, `m_newFrame`, `m_frames`, `m_rawMode`, `m_isOpen`, `m_bufferMutex` | capture thread: `submitBuffer`, `submitRawBuffer`; callers: `hasNewFrame`, `captureFrame`, `captureFrameRaw`, `getFrameSize`, `decodeFrame` | shared memory between the capture thread and the callers |
| Linux stream (`linux/platformstream.cpp`) | descriptor, `m_fmt`, `m_quitThread`, `m_helperThread`; the helper's mmap buffers | `open`, `close`, capture thread, frame rate, controls | V4L2 driver (ioctls, buffer queues), stream core |
| Windows stream (`win/platformstream.cpp`) | filter graph, sample callback handler | graph building, pin negotiation, re-application of the format, close | DirectShow threads call back into the stream core |
| macOS stream (`mac/platformstream.mm`) | AVFoundation session, borrowed device | session start and stop, delegate callback | dispatch queue calls into the stream core |
| Enumeration (`*/platformcontext.*`) | device and format lists | enumerate, availability | Context's device list |
| Pixel helpers (`yuvconverters.cpp`, `mjpeghelper.cpp`) | decoder handle | convert, decode | called under `m_bufferMutex` |
| Logging (`common/logging.cpp`) | sinks, client callback | log, install callback, set level | called from everywhere, also under `m_bufferMutex` |
| UVC control (`mac/uvcctrl.mm`) | IOKit handles | control transfers | macOS stream |

What makes each part correct, and what is hard about it:

- *Stream core*: a raw delivery is one frame, an RGB picture has older chunks
  only behind the end of a newer frame; no copy leaves its vector; the new-frame
  flag is exact; the mutex is given back on every path. Hard: the capture thread
  and any number of callers interleave, frames come in all lengths, and calls
  have early returns inside the critical section.
- *Raw capture by a client*: the size a refused capture reports may be stale
  when the client retries.
- *Stream table of the context*: an ID leads to the stream it was issued for
  until it is closed, and to nothing afterwards; every capturing stream can be
  closed; release stops everything. Hard: long sequences of legal calls, failed
  opens, calls with closed or unknown IDs.
- *Device list of the context*: no thread uses a device a refresh has deleted.
  Hard: most readers do not take the mutex that refresh takes.
- *Availability checks*: the answer tells whether the camera delivered a frame in
  time, and a camera that was opened is free again afterwards. Hard: the camera
  goes or is taken between the steps, `open()` fails half-way, sleeps end late,
  the counter of milliseconds has 32 bits.
- *Platform streams*: all three owe the Context the same: frames are stored only
  while the camera is held, and `close()` ends that. Hard: the frames come on
  foreign threads, any of a dozen system calls may fail, `open()` and `close()`
  run at any point of a callback. On Linux, driver and thread must not hold the
  same buffer; on Windows the size may change while the graph runs; on macOS the
  order of unlocking and starting decides which format runs.
- *Enumeration and formats*: an index leads to another camera only if cameras
  have come, gone or been left out since the list was made; every capability
  object is freed once, and the one applied is the closest.
  Hard: cameras come and go, and the names the platforms give them are reused.
- *Controls*: what a call reads is what the camera has. Hard: numbers of a fixed
  width with and without a sign; a Get and a Set with somebody else's step
  between them.
- *YUV conversion*: each pixel from its own samples, nothing beyond a buffer.
- *Logging*: a replaced callback is silent, the level is respected, nobody blocks
  for ever. Hard: two mutexes, messages logged while holding one of them, and a
  callback that may call the library.

The hazards are listed with their lines in `PROJECT.json`.

## 2. Modules

| Module | Models | Kind |
|---|---|---|
| `FrameMailbox` | what a stream promises its callers: a mailbox holding the newest frame, every operation one step | abstract |
| `CaptureSource` | what a platform's stream promises the Context: claim the camera, store frames, give it back | abstract |
| `Stream` | `common/stream.cpp`, chunk-by-chunk copies under `m_bufferMutex` | implements `FrameMailbox` |
| `RawCaptureLoop` | the client loop of the repository's `README.md` ("Usage Pattern") with `Stream` | composition |
| `Context` | the stream table of `common/context.cpp` and the C API calls on streams | detailed |
| `SharedContext` | the device list of `common/context.cpp` shared by threads | detailed |
| `DeviceCheck` | `Cap_isDeviceAvailable`, `Cap_probeDevice`, `Cap_verifyDevice` | detailed |
| `V4L2Stream` | `linux/platformstream.cpp`: API thread, capture thread, driver | implements `CaptureSource` |
| `DShowStream` | `win/platformstream.cpp`: API thread, DirectShow thread, graph | implements `CaptureSource` |
| `AVFStream` | `mac/platformstream.mm`: API thread, delegate queue, session | implements `CaptureSource` |
| `DeviceList` | enumeration, lookup and availability of cameras on the three platforms | detailed |
| `FormatSelection` | Windows: from capabilities to advertised formats and back | detailed |
| `CameraControls` | the property calls on the three platforms | detailed |
| `YuvConverters` | the loops of `linux/yuvconverters.cpp` | algorithm with reference |
| `Logging` | `common/logging.cpp` and the mutexes around it | detailed |
| `MCContext` | `Context` with interchangeable objects and devices | TLC |
| `MCPlatforms` | `DeviceList`, `FormatSelection`, `CameraControls` and `YuvConverters` side by side | TLC |
| `ContextProofs`, `V4L2StreamProofs`, `DShowStreamProofs`, `AVFStreamProofs`, `LoggingProofs` | theorems about the module each is named after | TLAPS |
| `StreamProofs` | theorems about `Stream` and `RawCaptureLoop` | TLAPS |
| `DeviceProofs` | theorems about `SharedContext` and `DeviceCheck` | TLAPS |
| `PlatformProofs` | theorems about the four modules that `MCPlatforms` puts side by side | TLAPS |

How they fit together: `Context` creates and deletes platform streams, of which
it relies on what `CaptureSource` says; the three platform modules show that
they keep it. Each of them stores a frame in one step. `Stream` shows that this
is sound: its chunk-by-chunk copies under the mutex implement one-step
operations. The exception is `DShowStream`, which opens the copy up again
because `open()` changes the sizes that the copy uses, without the mutex.

### Stream

State is that of the class: `m_newFrame`, `m_frames`, the two buffers, the
mutex, `m_rawMode`, and `phase` for `m_isOpen` plus the object's life. A buffer
is `[mem, size, len]`; sizes are chunks, a chunk holds the number of the frame
it came from. `m_rawBuffer.len` is `m_rawFrameSize`; the `len` of the RGB buffer
is history (the code has no such member): it says where the newest frame ends.
`captureFrame` copies by the size of the buffer, so behind that end the caller
receives the tail that an older, longer frame left, chunk by chunk in the
model as in the code (section 4).

The capture thread's submission is `submission`: want the lock, take it (growing
the raw buffer, or finding the frame too big for the RGB buffer), copy a chunk
per step, finish and unlock. A call of caller `r` is `call[r]`: the unlocked
tests of `m_isOpen`, `m_rawMode` and the buffer size happen in `Begin`, then the
lock, the copy, the return. Between `Begin` and the lock anything may happen,
including `close()`.

Assumptions: the capture thread calls `submitRawBuffer` exactly on raw streams.
That is true if the driver grants MJPG (section 4, "raw frames"). Nobody is
inside a call when the object is deleted (`Teardown`): a caller that violates
this uses a deleted object, which the C API cannot prevent and which this
project does not model. `decodeFrame`'s decoder succeeds or fails at will.
Frames have at least one chunk.

`m_isOpen`, `m_width` and `m_height` are read without the mutex; these reads are
modelled as atomic reads in the interleaving, and the width and height do not
change while the stream is open.

### RawCaptureLoop

`at` is the position in the loop; a loop step that calls the library starts the
call and the next one waits for its result. `used` records the last frame used.
The size of a frame may change from frame to frame; the loop is correct as long as
no frame is more than twice as large as another, and not beyond (section 4).

### Context

`m_streams` is a partial function from IDs to objects or `nullptr`. `Touched`
is the effect of `operator[]`. Objects are allocated, `open`, `shut` (open
failed and the object was not deleted) or `deleted`. `handed` and `issued` are
history. `StrictClient = TRUE` restricts the client to IDs it was given at some
time (closed ones included) and -1; `FALSE` lets it pass any ID up to `MaxId`.
One client thread calls, which is the only use the code supports: the map is not
locked. Calls on a stream's frames only look the ID up here.

### SharedContext

`pc`, `running` and `pointer` say where each thread is, in which call, and which
device it has fetched. A step ends at the mutex, after each device that is
deleted or added, and between fetching a pointer and using it. A size read while
the vector is cleared or filled is a data race; any value may be seen.
`KeptApart` is the set of calls the client keeps from running during a refresh;
the other calls that use a device and take no mutex are exposed to it
(`Exposed`) and may use a deleted one. `GuardedUseExists` is about all calls but
those.

### DeviceCheck

`step` is the position in a check, `waited` the counter of `probeDevice`, which
wraps at `WrapAt`; `elapsed` is the time that has really passed and exceeds it
when sleeps end late. Outside the library, other processes take and free the
camera, it is unplugged, and its first frame comes at any time or never. A failed
`open()` either leaves the camera as it was or, as on Windows once the source
filter is held, with the object that `openStream` does not delete: then the
library keeps it when the call has returned. `opened` is history: whether this
check's stream was opened, that is, got an ID. The device list does not change
during the call: the header excludes a refresh.

### V4L2Stream

`api` is the position of the API thread in `open()` and `close()`, `thread` that
of `captureThreadFunctionAsync`, which includes the helper's constructor and
destructor. The driver is external: it moves buffers from `incoming` to
`outgoing` while it streams, and the device may be unplugged at any time; every
ioctl may fail at any time. `m_quitThread` and `m_isOpen` are plain `bool`s
written by one thread and read by another; the model takes the outcome every
supported build produces, where the write becomes visible at some later step.

### DShowStream

`api` goes through the stages of `open()`, in each of which it may fail with what
it has acquired so far, then through the comparison of the resolution and
`close()`. A size stands for `width * height * 3`: `m_size` is that of `m_width`
and `m_height`, `m_frameBuffer` that of the buffer, `connected` that of the media
type. The camera may change its size whenever a format is negotiated: when the
graph is run, when the format is applied again while it runs, and by a change of
the frame rate. The callback takes the mutex, tests the sample against the buffer
and copies line by line, for the `m_size` at the beginning and, if `open()` changes
it meanwhile, for the new one too. `stored` and `got` are the sizes that the
frame in the buffer, and the one a client received last, are laid out for. Pointers
the constructor does not initialise hold garbage; what releasing one does is a
choice (`damaged`).

### AVFStream

`open()`, `close()`, the delegate's queue, a client and `Cap_refreshDevices`
interleave. The device object is kept alive by the list and by the session's
input; the stream only borrows it. The device may refuse to be locked for
configuration; `open()` does not look at the answer, which only the history
`granted` remembers, and sets the format all the same. External: starting a
session resets the device's format unless its configuration is locked, and
stopping it waits for the delegate.

### DeviceList, FormatSelection, CameraControls, YuvConverters

*DeviceList*: `slot` says which camera is plugged in where (the node number, or
the position in the enumeration), `failing` which cannot be opened. `m_devices` is
the set of cameras the last refresh listed, each with the name kept of it, and
`changed` (history) the cameras that came or went since, or that it left out.
`Find`, `IsAvailable` and `IsConnected` are the three lookups, each of which the
platforms do in their own way.

*FormatSelection*: one step is one turn of one of the three loops over the
capabilities. `obtained` and `deleted` count the media types on the heap.

*CameraControls*: a call is the steps it takes at the camera: one on Linux and
macOS, a Get and a Set on Windows, with the camera's or another program's step
between them. The sign bit of a USB request of 16 bits is `SignBit`, and the
conversions between signed and unsigned are modelled as they are.

*YuvConverters*: one step is one turn of a loop. A byte of a frame is known by the
sample V4L2 puts there; an output pixel remembers the samples it was made of.

These four have one thread and no common state beyond the platform, so
`MCPlatforms` explores them side by side: `part` says which one moves.

### Logging

`m_func`, the logger's level (`threshold`), the sink's mutex and `m_bufferMutex`;
`pc` says where each thread is, `given` what it has handed to the callback. A call
logs one message, some (`OnFrame`) while holding `m_bufferMutex`. `Behaviour` is
what the callback does: nothing, or a call of `hasNewFrame`. spdlog is external:
after an error it flushes its sinks, which takes the sink's mutex once more.

## 3. Runs

| Run | Question | Result |
|---|---|---|
| `stream` | are deliveries in layers and in order, copies inside, the flag exact, the mutex given back, and is the mailbox implemented? | holds |
| `raw_loop` | does the usage loop always use a complete, newer JPEG (sizes within a factor of 2)? | holds |
| `context` | does the stream table stay sound for a client that passes its own IDs? | holds |
| `context_unknown_id` | and for one that passes an ID too early? | violated (finding) |
| `v4l2` | buffer ownership, resource lifetime, cleanup, the contract, and does `close()` return? | holds |
| `v4l2_open` | is a stream that reports open capturing? | violated (finding) |
| `dshow` | has a callback what it uses, does the layout of delivered frames settle, the contract, and does `close()` return? | holds |
| `avf` | has the delegate what it uses, is the device kept alive, does the requested format run if the device was locked, the contract | holds |
| `device_check` | is a camera that was opened freed, does the answer tell of a frame in time, does every check return? | holds |
| `shared_context` | do the calls with the mutex, and those kept apart, use no deleted device, and is the list complete? | holds |
| `logging` | is a replaced callback silent, is the level respected, does nothing but one cycle block a call? | holds |
| `platforms` | a cause for each wrong camera, media types freed once, closest capability, controls as the camera has them, every pixel | holds |

### Bounds

- `stream`: two callers, two frames (`MaxFrames`), frames of 1, 2 and 3 chunks,
  caller buffers of 1 and 2, RGB buffer of 2. Two chunks are enough for two
  copies to interleave and for a short frame to leave the tail of a full one,
  three for a frame that does not fit the RGB buffer and for the raw buffer to
  grow more than once (its first size is 1). Two frames are the least that can
  be mixed. The theorems cover all other values.
- `raw_loop`: frames of 2, 3 and 4 chunks, so that every growth from one to the
  next is within a factor of 2; the first estimate of 1 makes the first capture
  fail. Four frames: two passes of the loop with a frame arriving between the
  two captures of each.
- `context`: four objects, two cameras, two formats (MJPG and another), IDs
  -1 to 3. `MaxId` is the highest ID four objects can receive, so every open,
  closed and never-opened ID occurs.
- `v4l2`: three buffers (the code asks for eight and accepts any number of at
  least two), formats that stand for the cases of `threadSubmitBuffer`: copied
  if it fits, always converted, compressed, unknown. `CounterMod = 2` makes
  `m_frames` (32 bits in the code) wrap.
- `dshow`: sizes below, at and above the requested one, any of them at each
  negotiation.
- `avf`: three frames, so that one arrives before, during and after each of the
  steps that matter (`MaxFrames`); the device's formats are the requested one
  and any other.
- `device_check`: a poll interval of 2 and a counter that wraps at 8 (50 ms and
  2^32 in the code); timeouts of 0 (the default is taken), below one interval,
  odd, and the largest that the counter reaches; sleeps up to 1 late
  (`MaxLate`). `MaxElapsed = 12` exceeds the longest wait.
- `shared_context`: two threads, at most two devices and two refreshes; the two
  readers are one that uses the pointer it fetched and one that opens a stream.
  `KeptApart` contains `getDeviceName`, which the repository's README lists under
  Thread Safety; `openStreamRaw`, which it does not list, is exposed to refreshes.
- `logging`: two threads, two callbacks, levels and severities on both sides of
  each other; under `m_bufferMutex` messages of the four severities that the
  code logs there (trace, info, warning, error); the callback calls `hasNewFrame`.
- `platforms`: three cameras in three slots, two of them without a path; at most
  two capabilities with rates 0 (unknown), 15 and 30; controls of 3 bits
  (`SignBit = 4`) with limits that need the sign, that do not, and that do not fit
  a signed number; frames of 2 and 4 columns and rows, with the extreme
  samples and the middle one.

Symmetry is used for objects and devices in `context`, whose properties are
about safety only. Deadlock is checked in every run but `logging`: the final states
have explicit stuttering steps. In `logging` the cycle of section 4 really stops
the system.

### Fairness

- `stream`: weak fairness of the capture thread inside a submission and of each
  call inside the library. Nobody is obliged to start a call, to deliver a frame
  or to close. Inside the library a thread only computes, or waits for the mutex.
- `v4l2`: weak fairness of the capture thread, whose only wait is a `select()` of
  at most 5 s, and of the join. Nothing is assumed of the device.
- `dshow`: weak fairness of a callback that has begun and of a `close()` that was
  begun; `Stop` waits for the callback and for nothing else.
- `device_check`: weak fairness of the client's thread and of time. No frame has
  to come.
- `logging`: weak fairness of a thread that can run and strong fairness of taking
  a mutex that becomes free again and again; no thread has to call anything. A
  thread that holds a mutex and is not part of the cycle gives it back after a
  bounded amount of work, and no waiter is passed over for ever on the supported
  systems' mutexes.

## 4. Findings and documented claims that do not hold

Two findings have a run of their own:

1. *Unknown IDs poison the stream table* (`context_unknown_id`). A lookup with
   an ID not issued yet leaves a null entry, and `storeStream` then stores
   nothing under that ID: the stream runs, cannot be used, closed or deleted.
2. *Open but not capturing* (`v4l2_open`): a capture thread that ends by an error
   leaves `m_isOpen` set.

The models state further claims of the header (`h`:
`src/include/openpnp-capture.h`), of the repository's README and of comments
that the code does not keep. Where a `.cfg` is named, TLC ends in a
counterexample (the module is the one the name of the `.cfg` begins with). The
other claims are stated at the end of their modules; the table says where they
fail.

| Claim | Code | Documented at | Definition, `.cfg` |
|---|---|---|---|
| `Cap_isOpenStream` answers for any ID; on a closed one that another call has touched it uses a null pointer | `common/context.cpp:264` | h:338 | `IsOpenStreamAnswers`, `MCContextClosedId` |
| raw frames are JPEG; the pixel format the driver substitutes is not compared with MJPG | `linux/platformstream.cpp:465` | h:359 | `RawFramesAreJpeg`, `V4L2StreamRaw` |
| the usage loop ends with a complete JPEG; the second capture may be refused as well | `common/stream.cpp:149` | README.md:100-102 | `UsedJpegIsComplete`, `RawCaptureLoopSpread` |
| a delivery is the most recent frame; a shorter RGB frame is handed out with the tail of the one before | `common/stream.cpp:68-71,99-103` | h:346-347 | `OneFramePerDelivery`, `StreamShort` |
| a sample is copied only if it fits; the copy goes by `m_width` and `m_height`, which `open()` changes meanwhile | `win/platformstream.cpp:791,1346` | the test at `win/platformstream.cpp:1339` | `WritesStayInside`, `DShowStreamWrite` |
| a frame of another size is never delivered; the final size is compared once | `win/platformstream.cpp:1346` | `win/platformstream.cpp:806-807` | `DeliversRequestedSize`, `DShowStreamSize` |
| an open stream captures; after the second negotiation the frame buffer may be too small for every sample | `win/platformstream.cpp:791` | h:338 | `OpenStreamCanStore`, `DShowStreamStore` |
| `close()` releases what `open()` acquired; it runs on pointers never set, and deletes the handler twice | `win/platformstream.cpp:164,168` | the code itself | `ReleasesOnlyItsOwn`, `DShowStreamRelease` |
| a probe closes the camera; `openStream` leaks the object whose `open()` failed | `common/context.cpp:161` | h:228,235 | `FailedProbeKeepsNothing`, `DShowStreamProbe` |
| the check holds the camera up to `timeoutMs`; with the leaked object the library keeps it | `common/context.cpp:161` | h:228,234-235 | `ProbeKeepsNothing`, `DeviceCheckLeak` |
| the format asked for runs; whether the device could be locked is not looked at | `mac/platformstream.mm:238-239` | h:316 | `RunsRequestedFormat`, `AVFStreamFormat` |
| the frame count is that of the stream's lifetime; it is reset after the session was started | `mac/platformstream.mm:299` | h:354 | `CountsLifetime`, `AVFStreamCount` |
| the probe's wait ends; the counter wraps before a timeout above 2^32 - 50 | `common/context.cpp:519` | h:246 | `CallReturns`, `DeviceCheckWrap` |
| the camera is held at most for `timeoutMs`; the wait is rounded up to whole polls | `common/context.cpp:518` | h:234-235 | `HeldUpToTimeout`, `DeviceCheckHeld` |
| an index out of range is `CAPRESULT_ERR`; it is `CAPRESULT_DEVICENOTFOUND` | `common/libmain.cpp:116` | `win/tests/availability_test.cpp:128-132` | `OutOfRangeIsErr`, `DeviceCheckIndex` |
| the calls named under Thread Safety are all that a refresh must not meet; `Cap_openStreamRaw` is missing there | `common/context.cpp:183` | README.md:247-249, `common/context.h:268` | `UsedDeviceExists`, `SharedContextRaw` |
| `CAPRESULT_DEVICENOTFOUND` means out of range; the count may be read while the list is rebuilt | `common/libmain.cpp:114` | h:224 | `NotFoundMeansOutOfRange`, `SharedContextCount` |
| the log callback is told the level of the API; it is told spdlog's | `common/logging.cpp:57` | h:488-511 | `CallbackIsToldApiLevel`, `LoggingLevel` |
| any function may be the log callback; one that calls `Cap_hasNewFrame` waits for `m_bufferMutex`, which a thread that waits for the sink may hold, or its own | `common/logging.cpp:57`, `common/stream.cpp:150` | h:506-513 | `CallsReturn`, `LoggingCycle` |
| an advertised format can be opened; the code of `BI_RGB` is advertised in one byte order and searched for in the other | `win/platformcontext.cpp:374,378`, `win/platformstream.cpp:345` | h:324 | `FormatSelection!AdvertisedIsFound` |
| the rate set is one the capability supports | `win/platformstream.cpp:378` | h:101-102 | `FormatSelection!AppliedSupportsRate` |
| an index keeps its camera until a refresh; a node number or a position may pass to another one | `linux/platformstream.cpp:418` | h:285-286 | `DeviceList!IndexKeepsItsCamera` |
| "still connected" means present; a camera without a path is looked up by position | `win/platformcontext.cpp:478` | h:306 | `DeviceList!ConnectedMeansPresent` |
| a camera ruled out cannot be opened | `win/platformcontext.cpp:530` | h:207 | `DeviceList!RuledOutCannotOpen` |
| unique IDs differ; two nodes of one camera share name and bus | `linux/platformcontext.cpp:128` | h:149-151 | `DeviceList!UniqueIDsDiffer` |
| limits and values are the camera's; unsigned ones that use the top bit come out negative | `mac/uvcctrl.mm:752` | the calls in h | `CameraControls!ReadsWhatCameraHas` |
| the control set is the one named; property ID 0 is pan on Windows | `win/platformstream.cpp:1124` | h, property IDs | `CameraControls!SetsTheControlNamed` |
| setting a value retains the mode; it may have changed since the Get | `win/platformstream.cpp:1131` | comment there | `CameraControls!SetRetainsMode` |
| setting the mode leaves the value intact | `win/platformstream.cpp:1224` | `win/platformstream.cpp:1222` | `CameraControls!SetAutoRetainsValue` |
| a mode that was not set is reported; the result of Set is not looked at | `win/platformstream.cpp:1206` | h, `Cap_setAutoProperty` | `CameraControls!AutoIsSet` |
| an invalid stream is `CAPRESULT_ERR`; it is answered like an unsupported property | `common/libmain.cpp:325` | h, property calls | `CameraControls!InvalidStreamIsErr` |
| the planar formats use the coefficients of YUYV; two pairs have changed places | `linux/yuvconverters.cpp:113,166` | the same lines | `YuvConverters!SameCoefficients` |

## 5. What is proved

Eight modules hold theorems; all are for every value of the constants that the
named assumption of the module allows. Every invariant and action property of a
passing run is stated by one of them.

- `StreamProofs`: `TypeCorrect`, `DeliveriesLayered`, `CopiesInside`,
  `FlagExact`, `StreamImplementsMailbox`, `DeliveriesInOrder`; `FullFramesUnmixed`
  (every delivery is one frame) under `FullFrames`: every frame fills the RGB
  buffer (`StreamShort.cfg` shows that it needs it); about
  `RawCaptureLoop`, `CapturesAreNew` for any frame sizes (if the second capture of
  a pass succeeds, it delivers a frame not used before), and `UsedJpegs` and
  `PassesUseNewFrames` under `WithinFactorTwo`: the sizes of two frames never
  differ by more than a factor of two (`RawCaptureLoopSpread.cfg` shows that they
  need it).
- `ContextProofs`: `TypeCorrect` and `StaleIdsAreHarmless` for any client;
  `HandedStored`, `CapturingReachable`, `NothingDangles`, `ReleaseIsComplete`
  under `StrictClient` (`context_unknown_id` shows that they need it).
- `DeviceProofs`: about `SharedContext`, `CompleteList` and `UsedDevicesExist`,
  whichever calls the client keeps apart from a refresh; about `DeviceCheck`,
  `CameraFreed`, `OkNeedsFrame`, and `FrameSeen` under `ClockRuns`: the bound on
  the model's clock does not end the run before the counter's range does.
- `V4L2StreamProofs`: `TypeCorrect`, `BufferOwner`, `ThreadResources`,
  `DeadThreadIsClean`, `V4L2ImplementsSource`.
- `DShowStreamProofs`: `TypeCorrect`, `CallbackSafe`, `DShowImplementsSource`, and
  `LayoutIsFinal`, whatever sizes the camera changes to.
- `AVFStreamProofs`: `TypeCorrect`, `DelegateSafe`, `DeviceSafe`, `FormatKept` (if
  the device could be locked), `AVFImplementsSource`.
- `LoggingProofs`: `ReplacedIsSilent`; `CallbackWithinLevel` if the client uses no
  level without an equal in spdlog (`LOG_EMERG`, `LOG_ALERT` and `LOG_NOTICE` are
  rounded).
- `PlatformProofs`: `WrongCamerasHaveCauses` for any finite set of cameras, with or
  without paths, and any slots; `DeletesEach` and
  `AppliesTheClosest` for any list of capabilities (rates go up to 10000000, one
  frame per 100 ns); `SignedAreRead` for limits that fit a signed number of the
  request's width; `ConvertsEach` for all even sizes and samples of eight bits.

The inductive invariants, and why they are needed:

- `Stream`: what is delivered depends on what a call has copied so far, that on
  the contents of the buffer, and that on who may write it. `IInv` consists of
  `TypeOK`, `CopiesStayInside`, `NewFrameFlagExact` and these layers: `MutexInv`
  (the owner of the mutex is the thread whose critical section is under way),
  `ContentInv` (the newest frame is whole in its `len`; during a copy the chunks
  copied are those of the frame to come), `LayersInv` (no chunk of a buffer is
  followed by a newer one, none is newer than the newest frame), `CallInv` (what
  a call holding the mutex has copied is the buffer's beginning), `TakenInv` and
  `GotInv` (what was taken is not newer than the newest; no place of a delivery is
  newer than the same place of the buffer, and all are the same as there while
  both begin with the same frame). `WholeInv` adds, for full frames, that
  the buffer holds one frame outside a copy. Each layer has a lemma `Next...` with
  one step per action; lemmas `...Effect` say what a caller's step does to the
  calls. In the refinement a submission is `Publish` at the moment its copy begins
  under the mutex, since nobody sees the buffer until it has ended; the return of
  a capture is `Take`, that of a successful decode is `Peek`, an open in raw mode
  is `OpenRaw`, and all others stutter.
- `RawCaptureLoop`: `LoopPlaces` (which call is under way at each place of the
  loop), `LoopUsed` (what was used had been captured) and `LoopFresh`: from the poll
  that succeeds to the capture that does, there is a frame nobody has captured,
  since the client is the only caller; after it, the client holds a frame it has not
  used. For `UsedJpegs`, `StoredSizes` and `RetryFits` (the retry's buffer is twice a
  frame's size, so the frame stored meanwhile fits).
- `Context`: `KeysInv` (every key, and every ID a client has, is below the next
  ID) makes `storeStream`'s insert take effect; `EntriesInv` then keeps open
  streams and their IDs in one-to-one correspondence.
- `SharedContext`: `MutexInv` (one thread between taking and releasing the
  context's mutex), `ListInv` (the list is the set of devices that exist, except
  while a refresh deletes them), `PointerInv` (the device of a pointer fetched by a
  call that is not exposed exists).
- `DeviceCheck`: `HeldInv` (a camera the check has opened is held in its poll loop
  only),
  `FlagInv` (the flag is set from the first frame until the stream is closed),
  `TimeInv` (no less time has passed than the loop has counted).
- `V4L2Stream`: `LifeInv` (where `open()` and `close()` are bounds where the
  thread can be), `HelperInv` (where the thread is says what is mapped and
  queued), `QueuesInv` (each buffer is in one queue, once, or with the thread).
- `DShowStream`: `BuiltInv` (what each stage of `open()` holds), `SampleInv` (a
  callback runs only between Run and the return of Stop), `LayoutInv` (until the
  final check, sizes are those read back and everything stored or being copied is
  laid out for them; after it they are the requested ones, and what is laid out
  otherwise is older than what is laid out so).
- `AVFStream`: `SetUpInv` (what has been set up at each point of `open()` and
  `close()`, that a lock that was granted is kept until the session runs, and that
  a delegate call finds what it uses).
- `Logging`: `SinkInv` (a callback runs under the sink's mutex, and is replaced
  under it), `LevelInv` (a message got past a level that was in force since its
  call began).
- `DeviceList`: `ListInv` (a node leads to its camera until that is pulled out, a
  position as long as no camera came, went or was left out, a path or an object
  always). That a position does so rests on `EarlierIsLess` and `PositionsDiffer`:
  two cameras that are present never share one.
- `FormatSelection`: `DeletedInv` (before the end, a media type obtained has been
  deleted unless it is selected) and `ClosestInv` (what is selected is a candidate
  of the smallest distance so far; the first candidate is closer than `INT_MAX`).
- `CameraControls`: `CameraInv` (the value is within the limits, the mode among the
  camera's, and so is what was read before a Set) and `ControlsInv`, which adds the
  property itself; `SignedComeBack`
  says that a signed number survives its way through an unsigned one, `ModesAreTold`
  that each platform's code of a mode is decoded to that mode.
- `YuvConverters`: `ConversionInv` (the pixels written are those before the loop's
  position, each right). That one pixel is right rests on lemmas about `\div` with
  variable divisors (`Products`, `Quotients`, `Euclid`), which lead from an index to
  the row and column of its block, and on `Int16Fits` and `NearColours`: no sum
  leaves 16 bits before it is clamped, and truncation costs less than 8 of 255.

The three refinements of `CaptureSource` compute `phase` from where the API thread
is; the camera is held as long as the descriptor is open (`V4L2Stream`), the
source filter is held (`DShowStream`) or there is a session (`AVFStream`).

## 6. What is only model-checked

Liveness: `MutexReleased` (`Stream`), `CloseReturns` (`V4L2Stream`, `DShowStream`),
`CallReturns` (`DeviceCheck`) and `OnlyTheCycleBlocks` (`Logging`). Liveness under fairness
is out of the proof system's reach. Conversely, `FullFramesUnmixed`,
`CapturesAreNew`, `OkNeedsFrame` and the type correctness of `Context`, `V4L2Stream`,
`DShowStream` and `AVFStream` are proved and not part of a run.

## 7. What is not modelled, and why

- JPEG decoding (`mjpeghelper.cpp`): it hands a frame to libjpeg-turbo and copies
  lines; that it succeeds or fails is in `Stream` and the platform modules.
- The vendored libjpeg-turbo, which is by far the largest part of the source
  tree, and the other vendored libraries.
- The test programs and the Qt demo.
- Enumeration of formats on Linux and macOS: a list built once, without choice.
- IOKit and the transfers of UVC control requests; V4L2's and DirectShow's
  inside. Printing, dumping and formatting helpers.
- Several threads that open or look up streams at once: `m_streams` has no lock,
  so a race on it has no outcomes to enumerate.
- Reuse of a `PlatformStream` after `close()`: `Context` makes a new object for
  each open, so `open()` on an active stream does not occur.
- The `read()` capture thread: compiled only with `__V4L2_NO_STREAMNING_SUPPORT`.
- The order of `CoUninitialize` and the release of the last COM objects.
- Wrap of `m_streamCounter` (2^31 opens), of `m_frames` except in `V4L2Stream`,
  and of 32-bit size products.
- Frames of zero bytes; YUV frames shorter than their format says, and rows with
  padding.

The mutants in the modules (definitions marked "Mutant") are faults of the kind
the properties are for; no specification uses them. Each property of a passing
run is violated when one of them takes the place of the definition it follows.

## 8. Plan

1. A composition of `Context` with the three instances of `CaptureSource`:
   `openStream`'s leaked object while another stream opens the same camera.
2. `DeviceList` with a second thread, on top of `SharedContext`.
3. Theorems about the composition of item 1, from what `CaptureSource` promises.
4. The strides and short frames of the YUV formats, if the code comes to look at
   `bytesused` and `bytesperline`.
