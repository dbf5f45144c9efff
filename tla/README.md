# XVision2 in TLA+

XVision2 is a C++ library for real-time vision: frame grabbers deliver images,
trackers and segmentation work on them, windows show the result, and a library
for functional reactive programming (FRP) composes such programs.  This
directory holds TLA+ modules of the parts of it that are hard to test, the TLC
configurations that check them, and theorems that TLAPS proves about them.
Paths below are relative to the repository's `src/`.

Contents: [what the library consists of](#the-system), [the modules](#the-modules)
and how their state and actions correspond to the code, [the runs](#the-runs),
their [bounds](#bounds) and [fairness](#fairness), [the theorems](#the-theorems),
[what the work has turned up](#findings), [what is not modelled](#not-modelled),
[the plan](#plan).

## The system

| Component | State | Operations | Interacts with |
|---|---|---|---|
| `Consoles/XVRemoteWindowX` | five `Requests` objects, `data->next`, `current`, `last`, `pre_last`, events, two mutexes, a condition variable | drawing calls, `flush`, `getLastImage`, `getEventsImage`, `check_events`, the destructor; the supervisor thread | the X server, through a worker window |
| `Devices/XVVideo` | `current_buffer`, `frame_count`, capture mode, ring of images | the next-frame functions of continuous and polling mode | the device, through `initiate_acquire` and `wait_for_completion` |
| `Devices/XVFlea2G`, `XVDig1394_v2` | request list, one mutex per buffer, stop flag | the two virtual functions, the destructor; the grab thread | XVVideo, libdc1394 |
| `Devices/DV1394` | queues of unused and complete `DVFrame`s, ring of frames shown | the two virtual functions, `open`, `close`; the reader thread | XVVideo, libraw1394, libdv |
| `Devices/VideoManager` | deques of free and ready buffers, lock counts | the two virtual functions; the acquisition thread | XVVideo, the grabber it is derived from |
| `Images/XVImageBase`, `XVPixmap` | window of each image; list of users, lock and memory of each pixmap | construction, assignment, `resize`, `remap`, `setSubImage`, `reposition`, lock and unlock, destruction | every part that has images |
| `Images/XVImageIterator` | pointers, and the lock taken by a write iterator | construction, `close`, destruction | the pixmap |
| `Devices/XVV4L2`, `XVPwc` | the driver's queues, one memory per buffer, an image per buffer | `open`, the two virtual functions | XVVideo, the Video4Linux 2 driver |
| `frp` Behavior, Event, Task | graph of modules, each with a cached value and the sample it is of; switches and delays | `update`, `next`, `run` | images, trackers, robots |
| `frp` Collectable | sets of heap and stack objects, marks | `alloc`, `free`, `enroll`, `collect` | FRP objects |
| `Consoles` interactive windows | the X event queue and mask, the corners found so far | `selectPoint`, `selectLine`, ...: loops that poll for events | Xlib, the user |
| `Tracking`, `Segmentation` | states of features; none | `step`, `segment`, `regionGrow`, ... | XVVideo, windows |
| `Images` pixels and filters, `Tools` | none | numerical | - |
| other devices | a driver's | one `ioctl` per function | XVVideo |

A program has one client thread that asks an `XVVideo` for frames, has features
step on the image it gets, and draws into a window.  Behind the two virtual
functions of `XVVideo` and behind the window there may be a thread each.  What
is hard in this code are those threads:

* **XVRemoteWindowX**: pointers circulate between two threads under two mutexes
  of which no thread ever holds both; requests may be skipped, so "nothing is
  lost" is false and the right statement is subtle; the wait is on a third mutex.
  It is correct if no `Requests` object is in two hands, frames stay in order, the
  newest frame survives, and a frame that is published is sent or replaced.
* **Frame grabbers**: mutexes serve as semaphores, locked by one thread and
  unlocked by another; lists are read without a lock; one acquisition is always
  under way while the client works on the frame before, so the frame that was
  handed out must not be the one that is filled.  They are correct if
  acquisitions complete once and in order, handed-out frames stay put, buffers
  are neither lost nor doubled, and calls return.
* **Images**: sharing by pointer swinging, with cached addresses.  They are
  correct if lists, memory and locks match the images, the cached members agree
  with each other, and no call changes another image.
* **XVV4L2**: no thread, but a driver that gives back whichever buffer is done,
  while the client copies from the buffer it asked for.  It is correct if these
  are always the same.
* **FRP**: a cyclic graph evaluated in place by mutually recursive virtual
  functions, whose recursion is cut by a flag, and a collector that learns of
  objects in their constructors.  The evaluation is correct if a call of `next()`
  returns and brings every behaviour to the same sample, whatever the order in
  which they are reached.

`PROJECT.json` has the list of hazards, each at its line, with the properties
that would catch it.

## The modules

| Module | Models | Extends or uses |
|---|---|---|
| `RemoteWindow` | XVRemoteWindowX and its supervisor | - |
| `VideoClient` | XVVideo's next-frame functions | - |
| `Acquisition` | abstract: what a queueing grabber promises | - |
| `GrabThread` | grab thread of XVFlea2G and XVDig1394 v2 | `VideoClient`; implements `Acquisition` |
| `FrameMailbox` | abstract: a mailbox of one frame, which newer frames replace | - |
| `DV1394` | DV over FireWire | `VideoClient`; implements `FrameMailbox` |
| `VideoManager` | the acquiring thread and its deques | `VideoClient`; runs on top of `Acquisition` |
| `V4L2` | XVV4L2 and XVPwc | `VideoClient` |
| `ImageBase` | XVImageBase, XVPixmap, write iterators | - |
| `BehaviorNetwork` | the combinators of FRP: kinds of modules and what their constructors take | - |
| `SampledNetwork` | abstract: a synchronous data-flow machine | `BehaviorNetwork` |
| `BehaviorUpdate` | `update()`, `compute()`, `next()`, `clean_up()` on a call stack | `BehaviorNetwork`; implements `SampledNetwork` |
| `MC...` | the same with finite constants | one each |
| `..._proofs` | theorems about all of these but the abstract ones; `VideoClient_proofs` has the lemmas about calls and queues | the module; the four devices' also `VideoClient_proofs` |

A step is what a thread does between two points at which another one can
interfere: a critical section is one step when all the data it touches is only
touched under its mutex, and otherwise it is cut at every access that another
thread can observe.  Variables whose comment begins with "history" are not in
the code.  A definition that follows the comment "mutation" is a plausible bug,
kept to show that a property notices it; nothing else uses it.

### RemoteWindow

`next`, `dnext`, `current`, `last`, `prelast` are the five pointers
(`XVRemoteWindowX::next`, `Data::next`, ...), `req` the objects, `carrier` each
thread's local variable during an exchange.  A drawing is its kind and a serial
number; an image is the serial number of the call that wrote it.  `flush()` is
the four steps `FlushLock`, `FlushSwap`, `FlushClear` (which on the first call
creates the thread), `FlushSignal`.  `supervising()` is `SupLockNext`, `SupDie` or
`SupMove`, `SupSend` for each drawing, `SupFlush`, `SupLockLast`, `SupRotate`,
`SupTest`, `SupSleep`.  A signal (`Signalled`) wakes a sleeping supervisor and is
otherwise lost; `SpuriousWakeup` is what POSIX allows.  The step from `SupTest`
to `SupSleep` is the window between the release of `access_next` and the wait.

### VideoClient, Acquisition, GrabThread

A call of the client is the list `todo` of the virtual calls it will make,
computed when the call begins from private state: `ContinuousPlan`, `PollPlan`,
`Drain`.  The device modules say what each does and when it returns.

`GrabThread` adds the request list, the `wait_grab` mutexes and the grab thread:
`GrabTest` (loop condition and dequeue of a captured frame), `GrabLook`
(`empty()` and `back()`, without the lock), `GrabPop` (under the lock),
`GrabFill`, `GrabUnlock`.  Two constants choose between variants.  `Stoppable`
is TRUE for XVFlea2G, which has a `stop_flag`, and FALSE for XVDig1394, whose
thread runs `while(1)`.  `TornReads` says whether the unlocked reads can observe
`push_front` half done: the C++ program has a data race there, and what the
library's list does is that the first node is linked from one side before the
other (`InitiateHook`), whereupon `back()` reads the list's own header as a node.
`torn` records that this has happened.  With `TornReads = FALSE` the list is
atomic, and the rest of the protocol can be judged by itself.

`Acquisition` is the specification of `initiate_acquire` and
`wait_for_completion`: a queue of buffers, completed in order, each once, with a
newer frame each time.  `ImplementsAcquisition` maps the queue to what the
thread holds followed by the list from back to front.

`current_frame_continuous()` is part of XVFlea2G only.  It schedules buffers 0 and
1 and never moves on, so buffer 1 stays scheduled behind the back of the other
functions.  `HandedOutStable` and `EachFrameNewer` exclude what comes after its
first use (`nowait_flag`); the other properties hold across it.

The model has one object of the class.  The static flag that its destructor shares
with all others is the variable `first`: initially FALSE, if an object was
destroyed before.  `Delete` is the destructor that stops and joins the thread, and
`DeleteLater` the one that returns at once and leaves the thread running.

### FrameMailbox, DV1394

`DVFrame`s are numbers with, per packet position, the number of the camera's
frame the data is from.  The reader is `ReaderStart`, then per packet `Receive`,
for the first packet of a frame `StartOfFrame` (under `g_mutex`), and
`CopyPacket` (without it), and at the end `ReaderPutBack` and `ReaderEnd`.  The
client is `InitiateAcquire`, `WaitForget`, `WaitTake`, `Decode`.  `Close` and
`CloseDone` are the two ends of `close()`; `Open` may follow.  `LosePacket` is
the bus.  Frame numbers are counted to `MaxShots`, which then stands for all
later ones.

The mailbox of `FrameMailbox` holds one complete frame: what is taken is taken
once and in order.  It does not say that every frame is delivered, because the
code drops a frame that starts when no `DVFrame` is unused (DV1394.cc:117-123,
`g_buffer_underrun`).  `NewestTaken` adds what the code then does: a call takes the
newest of the frames received that were not dropped for this reason (`dropped`).
Without that exception, which is how the comment in `wait_for_completion` has it
(DV1394.cc:290), it does not hold: finding 6.

### VideoManager

Every call of `front()`, `push_back()`, `pop_front()` and so on is a step of its
own, so the other thread comes between any two of them: `ReleaseBuffer`
(`lock_count--`) before `GiveBuffer` (`push_back`), `WaitFront` before `WaitPop`
before `WaitPutBack`, `TaskQueue` before `TaskPop`.  No lock is held by both
threads around the calls on one deque.  When each of them is about to
call a function on the same deque (`Racing`, for instance lines 106 and 130), the
calls may happen one after the other, or overlap: `DequeRace` ends the behaviour
(`undefined`), since nothing can be said of a `std::deque` after that.  TLC reaches
it; all properties of the module are claimed up to that point, and the runs and
theorems therefore do *not* show that the program is safe without locks, but
that overlaps are the only thing that can go wrong with the deques besides
`front()` of an empty one, which ends the behaviour in the same way.

The loop `while(!pthread_mutex_trylock(&flag)) pthread_cond_broadcast(...)` is
modelled as what it does (`Nudge`, `TaskNudge`, `TaskNudgeFails`): with the mutex
free it broadcasts once; with the mutex taken it broadcasts nothing and unlocks
the other thread's lock.  The grabber underneath is an instance of
`Acquisition`: what `GrabThread` is proved to implement is what `VideoManager` is
checked upon.

### V4L2

`InitiateAcquire` is `QBUF`, `WaitForCompletion` is `DQBUF` (whose index the code
does not look at), `CopyPixels` the conversion from the memory of the buffer that
was asked for.  `remapped` chooses between images that show the driver's memory
(XVPwc, and XVV4L2 with YCbCr pixels) and images that are copied.  The driver is
external: it fills queued buffers in order (`Capture`).  Faults: `DequeueFails` is
a `DQBUF` interrupted or in error, which XVVideo does not notice; `Open` is
`open()` of an open device, which leaves the ring and mode of XVVideo as they
were; and the driver may grant fewer buffers than asked (`granted`).  `troubles`
is history: which of these have happened, and in which mode.

What holds depends on them, and each property names the ones it excludes because
they break it: after a `DQBUF` that failed, the driver has one buffer more than
the client waits for, so that later frames are one buffer off; continuous mode
then schedules a buffer the driver still has, and leaving it waits for ever.
Reopening in continuous mode forgets the buffer scheduled ahead.  In polling mode
both are harmless to progress, which `EveryCallReturns` says.

### BehaviorNetwork, SampledNetwork, BehaviorUpdate

A network gives every module its kind and the arguments of its constructor; the
C++ objects `BehaviorModule`, `DelayModule` and so on are records in `node` with
the members they have (`last`, `flipping`, `updated`, the cached value, `prefetch`,
`minors`, `p`, `e`).  A step is what an activation of `update()` does between two
virtual calls; `stack` holds the activations.  `todo` and `at` are the list of
delays whose input was not ready and the iterator of `clean_up()` over it.  Values
are numbers, 0 being "false" and "does not occur"; the lifted functions are the
constant `Fn`.  The behaviours that an event brings (`fresh`) exist from the
start; the code makes them when the event occurs.  `net.late` is a choice that
the language leaves to the compiler: whether `updated |= p->update(now)` reads the
member after the call (as C++17 requires) or before it.

`SampledNetwork` knows no order of evaluation: in one step the values of all
behaviours the root needs solve their equations together.  `NextIsASample` is the
refinement, with the state when the client last had control as the mapping.

The networks are those for which the code gives one answer.  Left out, because
the code does something else there: cycles without a delay (they are never
updated), cycles of delays only (endless recursion), cycles through the current
behaviour of a switch (it may read the sample before; finding 8 is another case),
a `Delay1` at the root (it gives its first sample twice), and several roots that
are advanced out of step.  The envelopes `Behavior` and `BehaviorRef` only forward.  `sampleB` and the timer of
`run()` are not modelled.

### ImageBase

Each member function is one step, since an image belongs to one thread.  Images
and pixmaps are records of their members; `memory` is what `new T[]` has
allocated.  Write iterators are automatic variables, so they form a stack.
`misused` records two uses that break the locking: an image moved to another
pixmap while it is being written, and an iterator without a lock of its own
whose destructor unlocks all the same, at the expense of another one.  Such an
iterator was refused the lock, was closed by name, or is a copy (`CopyWriter`).
`LocksMatchWriters` holds until then; what the header says without that
condition does not (finding 9).

The model is of the default build, where `ASSERT` is empty: `SetSubImage` and
`Reposition` put a window anywhere among `Offsets`, also outside of the pixmap.
No property says that windows are inside; `RowsMatch` says that size and line
skip agree wherever they are, and `AddressKept` that the cached `win_addr` stays
that of the window's position, with the exception of the calls of `resize` and
`remap` that get it wrong (finding 7).
The constructor of XVPixmap does not set `master_image`, so a new pixmap has any
of `Masters`.

## The runs

| Run | Question | Answer |
|---|---|---|
| `remote_safety` | Do the five objects stay exclusive (`Exclusive`), frames in order (`PipelineOrder`), the newest frame kept (`NewestKept`), each drawing sent after, and not again after, the one before (`SentInOrder`)? | yes |
| `remote_live` | Is a frame published anywhere but in the window between test and wait sent or replaced (`WokenForFrame`)? | yes |
| `remote_submitted` | And in that window (`EverySubmitted`)? | no |
| `grab_safety` | Is each lock owed one unlock, does the thread remove the request it read, do frames stay put and get newer, is `Acquisition` implemented? | yes, with an atomic list |
| `grab_live` | Does every call return, also across mode changes, unless a half linked list was read (`EveryCallReturns`)? Does the destructor? | yes |
| `dv_frames` | Is every `DVFrame` in one place (`Conservation`), every image of one capture (`Whole`), `FrameMailbox` implemented (`ImplementsMailbox`), the newest frame received and not dropped taken (`NewestTaken`); do calls and `close()` return? | yes, if the thread has begun |
| `manager_safety` | Is every buffer in one place, the thread's alone captured into (`Conservation`), do acquired frames stay put, for every order of the threads' calls on the deques? | yes, until two calls overlap |
| `manager_standoff` | Can the client wait for a frame that the thread holds back (`CompletionReturned`)? | it can |
| `v4l2_driver` | Is the buffer that comes back the one asked for (`GivesWhatIsAsked`), is memory that is read not the driver's (`ReadsItsOwn`), do frames get newer and calls return? | yes, up to the faults each names |
| `images_safety` | Do lists (`Registered`), memory (`Owned`), line skips (`RowsMatch`) and locks (`LocksMatchWriters`) match the images; does only a call on the image itself change what it shows (`Undisturbed`); are cached addresses kept (`AddressKept`)? | yes; locks while no iterator is undercut, addresses but for two operations |
| `frp_networks` | Is `next()` one sample of what the network denotes (`NextIsASample`), for one sample only (`OneSample`), without a flag left behind (`FlippingOnStack`) or an iterator invalidated (`NoGrowth`), and does it return? | yes |
| `frp_mealy` | Are all dependencies updated (`AllUpdated`) in a Mealy machine whose output is the root? | not when the member is read after the call |

Deadlock is not checked in any run: clients make a bounded number of calls and
may stop, and a supervisor may sleep for ever.  "Everyone waits" is stated
instead by the liveness properties and by `CompletionReturned`.

### Bounds

| Run | Bounds | Why they are enough |
|---|---|---|
| `remote_safety` | 3 frames, 2 drawings a frame, no X events | with three frames one is in `last`, one being sent, one in `data->next`, and the first object comes round to be reused; two drawings make the reversal visible. Events touch none of these properties. |
| `remote_live`, `remote_submitted` | 2 frames, 1 drawing, 1 event or none | one frame being sent while the other is published is every case of the wakeup |
| `grab_safety` | ring of 3, 5 calls | the ring wraps in both modes, and each mode is entered from the other and left again; 3 buffers make front and back of the list differ |
| `grab_live` | ring of 2, 3 calls, torn reads | a request made while the list is empty, with one being served |
| `dv_frames` | 2 `DVFrame`s, 2 packets, 3 numbers, 3 calls, 1 lost packet, 2 opens | with as many `DVFrame`s as buffers all can be in the ring or in the output queue, so the pool runs empty; the reader is stopped in the middle of a frame and started again |
| `manager_safety`, `manager_standoff` | 3 buffers, 4 (3) calls, 6 (5) captures | three is the least number with one in the grabber, one queued and one with the client; four calls lock and release each |
| `images_safety` | 2 images, 2 pixmaps, 2 heap blocks, 1 driver buffer, sizes up to two pixels, offsets 0 and 1, 2 iterators; symmetry in images, pixmaps and heap. A state constraint (`Followed`) separates two parts: states with iterators, locks or leftover masters are followed while all images are whole pixmaps of one row, the others for all windows | two images are enough to share and to part; two pixels give windows that do not fit, are off the origin, have a line skip, and pixmaps that are not squares; offset 1 puts windows outside; two iterators nest or compete. Locking reads no position and no size, and windows no lock, so the parts do not influence each other. |
| `v4l2_driver` | 2 buffers (the default of XVV4L2), 5 calls, 2 failures, 2 opens | five calls go through both modes and back; with two failures the driver is ahead by more than it has buffers |
| `frp_networks` | ten networks of the library and its tests with up to 6 modules, and all 118 wirings of 3 lifted or delay modules with a cycle, 5 samples; each in both builds, but for eight wirings | every kind of module occurs, every cycle through delays of three modules, entered from each side; the longest chain of delays needs three samples to fill. In no network of the library is a delay entered again while its input is updated, so that both builds do the same there; it is in 64 of the wirings. Of these, 56 are run in both builds and give the same samples. The other eight are the Mealy machines of `frp_mealy`, run here only in the build that reads the member before the call. |
| `frp_mealy` | the eight Mealy machines among the wirings, both builds, 4 samples | the first sample shows it |

The symmetry sets contain only objects that the specification treats alike
(addresses); no run with symmetry checks liveness.

### Fairness

`RemoteWindow`: both threads run (`WF` of the steps that finish a client's call
and of the supervisor), and a mutex released again and again is granted to a
waiting supervisor (`SF` of its three acquisitions); a client that keeps
flushing would starve it otherwise.  Nothing makes the client draw, the user
cause events, or a wait return without a signal.
`GrabThread`: both threads run, and the camera is free-running, so dequeuing a
frame returns (`WF` each).  `DV1394`: both threads run and packets keep coming.
`V4L2`: the client's call goes on when it can, and the camera fills queued
buffers.  Nothing makes `DQBUF` fail.  `BehaviorUpdate`: sequential code goes on
once called; nothing makes the client call.
These are weak fairness of a whole thread, which any scheduler that runs every
ready thread gives.  `VideoManager` and `ImageBase` have no fairness: for the
first the wakeups it loses defeat every liveness property short of "unless", and
the second has none to state.

## The theorems

| Theorem | Says, for every value of the constants |
|---|---|
| `RemoteWindow_proofs!TypeCorrect` | all variables keep their types |
| `RemoteWindow_proofs!ExclusiveCorrect` | the five pointers are always different |
| `RemoteWindow_proofs!PipelineInOrder` | of two frames in `data->next`, `current`, `last` and `pre_last`, the one further down is older |
| `RemoteWindow_proofs!NewestIsKept` | the newest flushed frame is never skipped |
| `RemoteWindow_proofs!SentInIssueOrder` | each step that sends a drawing sends one issued after all that were sent before (action property) |
| `GrabThread_proofs!TypeCorrect` | all variables keep their types, torn reads or not |
| `GrabThread_proofs!UnlocksBalanced` | until a half linked list is read, each locked `wait_grab` is owed one unlock |
| `GrabThread_proofs!ReadIsPopped` | until then, the request removed is the request read |
| `GrabThread_proofs!FramesStable` | until then, and with two buffers or more, the client's frame is not overwritten before its next call |
| `GrabThread_proofs!FramesGetNewer` | then, each continuous frame is newer than the frame before (action property) |
| `GrabThread_proofs!AcquisitionImplemented` | with an atomic list, the specification implements `Acquisition` |
| `DV1394_proofs!TypeCorrect` | all variables keep their types; nothing that is decoded is NULL |
| `DV1394_proofs!FramesConserved` | with two buffers or more, every `DVFrame` is in one place, in both modes, across `close()` and `open()` |
| `DV1394_proofs!FramesWhole` | then, while the bus loses nothing, complete frames and results are of one capture |
| `DV1394_proofs!MailboxImplemented` | with two packets per frame besides, the queues implement the mailbox `FrameMailbox`: what is taken is taken once and in order, losses, drops and reopenings included |
| `VideoManager_proofs!TypeCorrect` | all variables keep their types |
| `VideoManager_proofs!BuffersConserved` | with two buffers or more, as long as no two calls on a deque have overlapped, every buffer is in one place or the client's, and only the thread's are captured into |
| `VideoManager_proofs!FramesStable` | then an acquired frame stays until the next call |
| `V4L2_proofs!TypeCorrect` | all variables and the driver's queues keep their types |
| `V4L2_proofs!MemoryIsRead` | with two buffers or more, until a `DQBUF` fails, memory that is read is not the driver's |
| `V4L2_proofs!IndexNotNeeded` | then, while nothing goes wrong, `DQBUF` gives the buffer that was asked for |
| `V4L2_proofs!FramesGetNewer` | and each continuous frame is newer than the frame before (action property) |
| `ImageBase_proofs!TypeCorrect` | members of images and pixmaps keep their types |
| `ImageBase_proofs!ListsMatch` | a pixmap's list and count are the images that point to it; it lives while there are any |
| `ImageBase_proofs!MemoryOwned` | memory is freed once, by the pixmap that owns it, and never while shown |
| `ImageBase_proofs!RowsAligned` | width and line skip of every image make a row of its pixmap, wherever the window is |
| `ImageBase_proofs!OthersKeepTheirView` | what an image shows changes only in a call on this image (action property) |
| `ImageBase_proofs!LocksAreWriters` | until an iterator without a lock releases another one's, or an image moves under its iterator, locks count the write iterators that locked, all of the master's |
| `BehaviorUpdate_proofs!TypeCorrect` | the engine only follows pointers to modules, and stores values |
| `BehaviorUpdate_proofs!FlippingIsOnStack` | a module is updated at most once at a time and its flag is set exactly then |
| `BehaviorUpdate_proofs!MakesOneSample` | all activations within one `next()` are for its sample, and no module is ahead of it |
| `BehaviorUpdate_proofs!NothingAppended` | without switches and tasks, `clean_up()` appends nothing to the list it iterates over (action property) |

They rest on the assumptions named in the modules: bounds are naturals, the ring
is not empty, the two variants are Booleans.  Some of the theorems about devices
assume two buffers besides: with a ring of one, continuous mode schedules the
very buffer it then waits for and hands out, and the constructors of XVVideo's
subclasses default to more.  `MailboxImplemented` assumes two packets per frame
(the code counts 250 or 300, DV1394.cc:79): with one, a device opened between two
frames could not be told from one opened within a frame.

* **Exclusive** is not inductive: in the middle of an exchange the thread's
  `carrier` holds the only copy of a pointer.  `Locking` adds what the mutexes
  are for: a thread inside an exchange holds the mutex of the exchange, and its
  `carrier` is still the pointer it read.  `IInv` is types, `Locking` and
  `Exclusive`; each action preserves it (`IInvStep`).
* **PipelineOrder** and **NewestKept** are inductive only together and with
  `Numbered`: no object is numbered beyond the last `flush()`, between numbering
  and exchange only the client's object has the newest number, and an object
  asks for a rotation exactly when it has a number.  Without the last, a
  rotation could bring an unnumbered object before a numbered one.
* **SentInOrder** needs the order of all drawings under way (`Serial`): those
  already sent, those being sent, those that wait and those being filled, each
  after the one before.  The list being filled is in reverse order until
  `flush()` has reversed it (`ReverseOrder`).
* **OneUnlockOwed** is not inductive by itself, nor is **PopsWhatItRead**: that
  a buffer is owed its unlock once while it is served needs that the request
  removed is the one that was read, and that one is only still the last because
  no buffer is queued twice.  They are proved together (`Balance`), on top of
  the types and of `Links`, which says what can be under way in the list.  The
  unlocked read is harmless on an atomic list because only the grab thread
  removes, and the client adds at the other end.  The lemmas `PushFrontQueued`,
  `PopBackQueued` and `PushFrontNoRepeats` say what the list operations do to
  membership.
* **AcquisitionImplemented** uses both: `InitiatePush` is `Schedule`, because the
  buffer is not queued yet (`Balance`), `GrabPop` is a stutter, because the
  request it removes is the one that `GrabFill` then holds, and `GrabFill` is
  `Complete`.  `ReversePushFront` and `ReversePopBack` relate the reversed list
  to the abstract queue.

* **FramesConserved**, **MemoryIsRead**, **BuffersConserved**: what the client's
  next step does to a buffer depends on how far its call is and on the mode the
  call began in.  `VideoClient_proofs` therefore describes the calls once, for
  all devices, by *shapes*: in a round of the polling loop (`PollInit`,
  `PollWait`, `PollReturn`), or on the way to returning buffer b of continuous
  mode (`StreamFirst`, `StreamAhead`, `StreamWait`, `StreamReturn`).  `CallBegins`
  says that every call of XVVideo begins in one of them or where polling and
  continuous mode meet, and `StreamFirstDone`, `PollWaitDone`, ... which shape
  follows.  Each device adds what it has in each shape:
  `GrabThread_proofs` whose `wait_grab` mutexes may be locked (`LockedIn`: those of
  scheduled buffers; a frame is copied only to a buffer whose mutex is locked);
  `V4L2_proofs` the sequence of buffers that the driver holds (`HoldsNone`,
  `HoldsOne`, `HoldsTwo`), weaker after a failure;
  `DV1394_proofs` which entries of the ring may be without a frame, and
  `Placed`, which says where frames are in terms that survive moving one;
  `VideoManager_proofs` which buffers are scheduled (`Counts`: a lock count of 1
  means scheduled and stored somewhere, or the client's), that the deques and
  the thread's hands are disjoint (`Spread`), and that the thread gives away only
  buffers that are not pending (`Turns`).  A buffer that was read with
  `front()` and not popped yet is in the deque and in a thread's hands at once, but
  each deque is popped by one thread only, so that what is popped is what was read.
  **FramesStable** follows because the frame handed out is not stored and what
  is captured into is.

* **Whole** relates a frame being filled to the camera: it has the data of one
  capture up to the packet at hand (`PartWhole`).  `Expected`, that the reader's
  place in the frame is the camera's, survives losses, so it is proved without
  the assumption that nothing is lost.  That the packets copied do not
  reach a frame being decoded is `Placed`, from `FramesConserved`.
* **ImplementsMailbox**: the frame being filled becomes the mailbox's
  content when it is complete.  What must not happen is that a number comes twice;
  `Ages` says that every number in use is `Past`, of a frame that began before the
  packet the camera sends next, and that the frame in use is newer than the one
  that waits and the one taken.  Each step of the reader is then a delivery or a
  stutter, the client's taking of the whole queue a `Take`.
* **EachFrameNewer** (`V4L2`): the frames the driver has done are numbered in
  rising order, all beyond the result (`Rising`), and the frame that a call has in
  hand is between the result and those (`InHand`).  It rests on `HeldOnce`: the driver
  writes to no buffer that is done or in the client's hands.  Frames of
  the polling functions are not promised to be newer; `PolledStep` and
  `PolledResult` of `VideoClient_proofs` follow which calls are which.
* **EachFrameNewer** (`GrabThread`) is argued on the queue of acquisitions and not on
  the list: until a torn read, what happens to the list is a `Schedule` or a
  `Complete` at the two ends of `Pending` (`PushSchedules`, `FillCompletes`,
  `PopKeepsPending`).  A buffer is `Fresh` when it waits in the queue or holds a
  frame newer than the result; two are `InOrder` when the second one waits behind
  the first or its frame is the newer one.  `Course` says in each shape of a
  call what is fresh and what is in order: the buffer scheduled ahead is fresh between
  calls, and within a call comes after the one to be returned.

* **Registered**, **Owned** and **RowsMatch** hold between calls but not
  within one: `resize` first leaves a pixmap, perhaps deletes it, then makes
  another.  The proof therefore states them of any pixmaps and images
  (`RegisteredIn`, `OwnedIn`, `RowsIn`) and has one lemma for each part that
  the operations are composed of: leaving (`LeftRegistered`, `LeftOwned`,
  `LeftForOthers`), joining (`JoinRegistered`) and making a pixmap
  (`NewRegistered`, `NewOwned`, `DriverOwned`).  The invariant needs three facts
  more: lists are finite, a deleted pixmap has no memory, and an image before
  or after its life has no pixmap.  **Undisturbed** follows from it, because
  another image's pixmap is alive after the first one has left.
* **LocksMatchWriters** is proved pixmap by pixmap (`LockOK`): an operation on an
  image changes the locks of one pixmap at most (`LocksMoved`), and an image that leaves
  a pixmap leaves its lock and master as they are, or was alone on it and leaves it
  unlocked (`LeftLocks`).
* **FlippingOnStack** and **OneSample** are proved for every network, also those
  the runs leave out (cycles without a delay, several switches in a cycle), as
  long as the constructors got what they take (`WellFormed`).  They are not
  inductive: an activation that returns clears the flag of the module it is of,
  so the invariant has to know what an activation at each program point has
  done.  `IInv` is `TypeOK`, `Pointers` (a module that passes a behaviour on has
  one), `Shape` (only the top activation is at an entry, and what called it is
  where the code has a call), `FlippingOnStack`, and `Clock`.  All 18 actions
  of `update()` change at most the module and activation on top, and the proof
  that each preserves the invariant goes through that common shape (`Step`).
* **NoGrowth** is proved for every network without switches and tasks, also for
  cycles without a delay and cycles of delays.  There, what a module updates is
  fixed, so that a delay reached by `clean_up()` was reached by `update()` before.  The
  invariant says so with a set of modules (`Seen`): everything visited for this
  sample is in it, and what a visited module calls is in it as soon as the module
  has called it all.  A visited delay is `Settled`: it has this sample's stamp, so its
  `updated` is true, or it is a `Delay1` whose input answers yes.  `Ordered` is what
  the activations rely on (who called whom, what an answer says about the
  module that gave it).  All actions go through one shape of step again
  (`StaticStep`): what the module on top keeps (`Lasting`), and how its activation
  goes on (`Ends`, `Proceeds`, `Descends`).

Only model-checked:

* all liveness, which needs fairness, and the prover has no `ENABLED`;
* `NextIsASample`: it compares the values that the engine computes, one by one and in
  the order it meets them, with a solution of all equations of the network at
  once (`SampledNetwork`), over a set of modules found by iteration; that is an
  induction over the network, and holds only of the networks that the exclusions
  under BehaviorUpdate leave;
* `NoGrowth` with switches and tasks, where it depends on the network (finding 8).

## Findings

Three runs show the code doing something else than its comments say; each finding
in `PROJECT.json` quotes the comment.

1. `supervising()` (XVRemoteWindowX.cc:432-434) tests for work, releases the
   lock and then waits: a flush in between wakes nobody.  The same makes the
   destructor hang on a sleeping supervisor, which it does not signal.
2. `acquisition_task()` (VideoManager.cc:83) waits for a second free buffer
   before it delivers the frame it has; a polling client never frees one.
3. `DelayModule::update` (Behavior.h:263) re-enters itself in a cycle; when its
   member is read after the call, a delay that still waits for its input is taken
   for updated, and what it depends on is never computed.

Eight more were found with the models.  The properties that hold exclude them,
each by a named condition:

4. `grab_thread()` (XVFlea2G.cc:659) reads the request list without its lock
   (`TornReads`; `EveryCallReturns` holds until one is torn).
5. The reader of DV1394 sets `g_reader_active` itself (DV1394.cc:39), after
   `close()` may have reset it (`EveryCallReturns` asks `close()` to return only if the thread has begun).
6. `wait_for_completion()` of DV1394 is to "wait until the most recent frame"
   (DV1394.cc:290), but when all `DVFrame`s wait to be taken it is the new frames
   that are dropped (DV1394.cc:117-123): after a pause the next call gets an old one
   (`NewestTaken` leaves out the frames in `dropped`).
7. `resize()` computes the window's address before it resets the position
   (XVImageBase.cc:68-70), and `remap()` takes the height of the pixmap for its
   width (line 262).  The address is then not "The address of the image in the
   pixmap" (XVImageBase.h:346).  `AddressKept` shows that these are the only
   operations that lose it, and under which condition.
8. `clean_up()` (Behavior.cc:101) iterates over a vector that it may grow, which
   invalidates its iterator.  Let `x = lift(d)`, `d = delay(s)`, and `s` a switch on
   the event `lift(x)` over `y = lift(z)`, `z = delay(s)`.  When the client asks for
   `x`, the event has to wait for it, so `d` is put on the list.  `clean_up()` then
   runs `s` for the first time, which reaches `z`, whose input `s` is in progress,
   and `z` is appended.  `NothingAppended` shows that this takes a switch or a task.
9. A write iterator unlocks in its destructor also when it holds no lock: it was
   refused, was closed by name (XVImageFilters.icc:233), or is a copy
   (XVImageIterator.h:384).  The pixmap is then open to others before "All write
   iterators based on an image" are destroyed (XVImageBase.h:318-320), `misused`.
10. VideoManager changes its deques in two threads without a common lock
   (VideoManager.cc:106 and 130, 155 and 90-101): `DequeRace` is reachable.
11. XVV4L2 ignores that `DQBUF` has failed (XVV4L2.cc:112), and that `open()` was
   granted fewer buffers (`troubles`).

Seen while modelling, and not checked by a run because nothing says what should
happen or because the case is left out:

* `getEventsImage`: events collected after `worker->flush()` has shown the new
  frame and before the rotation (XVRemoteWindowX.cc:418) are paired with the
  frame before theirs; XVRemoteWindowX.h:153-154 promises the image displayed.
* `getLastImage` after a frame without `CopySubImage` returns an older image,
  because `clear()` keeps it.
* `next_frame_poll()` passes the count from before its increment, so it acquires
  nothing and returns the previous buffer again, and has no return value when
  that is buffer 0 (XVVideo.h:163).
* The destructor of XVDig1394 v2 joins a thread that has no exit, and that of
  XVFlea2G destroys a mutex that continuous mode leaves locked.
* The destructor of XVFlea2G tests a static flag (XVFlea2G.cc:732), which is one for
  all objects: a second object that is destroyed neither stops nor joins its
  thread, which goes on with freed members (`DeleteLater`).
* VideoManager loses wakeups (`trylock` is tested the wrong way round), reads
  the front of an empty deque after a spurious wakeup, and may complete the
  buffer scheduled second first.
* Debug builds of XVImageBase lock the pixmap in `resize` (`ASSERT(lock())`)
  and leave a shared one locked; the constructor that takes a region makes a
  pixmap of the region's size, in which the region's offset is outside.
* The collector (Collectable.cc:39) remembers addresses freed between two
  collections, and takes new objects at these addresses for dead ones.
* The selection functions of XVInteractWindowX take events by type: after a
  double click in `selectPoint`, a release and the press after it are in the
  queue, and the next `selectLine` takes the press first and ends at the older
  release (XVWindowX.cc:1176).
* XVThreadedWindowX, which would select in a thread, does not define the second
  `selectAngledRect` of XVInteractive and cannot be instantiated.
* A loop of tasks (Task.h:311) whose events occur when they start never gets to
  the next sample.

## Not modelled

`PROJECT.json` lists all components with reasons.  In short: numerical code on
pixels and matrices (TLC would compute samples, the prover has no reals), file
formats, thin device wrappers whose state is the driver's, example programs,
vendored libraries, generated documentation.

Left out of modelled parts: pixel data; the undefined return value of
`next_frame_poll` (a stamp stands for the image); camera set-up and errors of
the drivers; `remap` with `own_flag`; copying in `SLOW_COPY` builds; the
constructors of XVImageBase that take a pixmap or a region.

## Plan

Modules still to come, in this order:

1. **Interactive selection** (`XVInteractWindowX`): loops that take events by
   type, against a user who clicks at any time and ahead of the program.
2. **Garbage collector** (`frp/Collectable.cc`): addresses that are reused,
   objects enrolled in constructors.  `Behavior.h` includes `NoCollectable.h`, so
   that it is compiled in only by choice.  Theorem: no reachable object is
   freed, if nested allocation and reuse are excluded.
3. **Segmentation and group trackers** as operators: `findCentroid`,
   `findBoundingBox`, `regionGrow` on binary images of up to 3 by 3 pixels,
   against definitions by sets and connectivity.

Theorems still to come: `NoGrowth` for networks with switches outside of cycles,
where the behaviour a switch goes over to depends on nothing that waits.
