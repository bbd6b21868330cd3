# Verification of xorgxrdp

xorgxrdp is the set of X server modules behind an xrdp session: a device
(`xrdpdev`) that makes an X server without hardware, keyboard and mouse drivers,
and `libxorgxrdp` (`module/`), which watches what is drawn, captures it and sends
it to xrdp over a local socket. This directory holds TLA+ modules that model the
parts of it that decide *when* something happens, TLC configurations that check
them on small instances, and proofs, checked by TLAPS, of the invariants that
matter most.

All paths below are relative to `src/`; unless a file is named, functions are in
`module/rdpClientCon.c`.

## 1. The system

The X server is **one thread**. Its dispatch loop runs expired timers
(`DoTimers`), calls the wakeup handler or the `NotifyFd` callbacks, both of which
end in `rdpClientConCheck`, and serves X clients, whose drawing goes through the
wrapped GC operations. Every handler runs to its end. Concurrency comes from
outside: xrdp connects, sends and closes when it likes, sesman posts disconnect
requests and SIGTERM, and timers expire between any two handlers.

| Part | State | Operations | Interacts with |
|---|---|---|---|
| Client connections | list of `rdpClientCon`, `connected`, sockets; `idleDisconnectTimer`, `disconnectTimer`, `disconnect_scheduled` | `rdpClientConCheck`, `GotConnection`, `Disconnect`, `Recv`, the two timer callbacks, `Deinit` | everything that hangs on a client |
| Screen updates | `dirtyRegion`, `updateScheduled`, `rect_id`, `rect_id_ack`, `suppress_output` per client | `AddDirtyScreen*`, `rdpDeferredUpdateCallback`, `rdpCapRect`, region acknowledgements | capture, output stream, drawing |
| Screen sleep | `screen_sleep_active`, `..overlay_pending`, `..refresh_pending`, three timers | `rdpScreenSleepEnter`, `Wake`, `Activity`, three callbacks | updates, input, clients |
| Output stream | `out_s`, `begin`, `count` | `BeginUpdate`, `PreCheck`, orders, `SendPending`, `g_sck_send_fd_set` | updates, cursor |
| Shared memory, client info | `shmemstatus`, sizes, `client_info`, monitors | `ProcessMsgClientInfo`, `ResizeAllMemoryAreas`, `MonitorUpdate` | updates, RandR |
| Acceleration assistant | `use_accel_assist`, a child process, pixmaps it lends | start, shutdown, monitors, `rdpPutImage` | client info, capture |
| Capture (`rdpCapture.c`) | tile checksums `rfx_crcs` | `rdpCapture` by capture code | updates, shared memory |
| Keyboard (`xrdpkeyb`) | lock states, pause sequence, deferred sync | `KbdAddEvent`, `KbdSync` | XKB state of the server |
| Mouse (`xrdpmouse`) | buttons and place as last reported | `PtrAddEvent`, wheel events | event queue |
| Off-screen bitmaps | `osBitmaps`, use stamps | add, remove, update use | pixmaps |
| RandR (`rdpRandR.c`, `rdpLRandR.c`, `rdpRandRGrid.c`) | outputs, crtcs, monitors | set outputs, resize | client info, X clients |
| Video overlay (`rdpXv.c`) | scratch buffer and its timer | put image, clean-up | drawing |
| Drawing wrappers (`rdpGC.c`, `rdpDraw.c`, a file per operation) | tables of each graphics context, `dev->damage` | every drawing operation, validations | updates |
| Cursor, regions, pixel conversion, driver set-up | little or no state of their own | | |

What is **hard** here: a client is replaced in two steps with other handlers in
between; two timers of the *device* are set and stopped by events of *clients*;
flags, timers and regions that have to agree (`updateScheduled`, the dirty region,
the acknowledgement, three sleep timers); one frame in flight for several
monitors; outputs set by calls that fail one by one, or by a script that runs
later; pixmaps that three processes hold; drawing that has to be noticed through
contexts that are wrapped and unwrapped all the time. These are the hazards `PROJECT.json` lists, each at its line.

What makes each part **correct**: of the clients only the newest is heard and the
others leave; idle and kill timers do what their comments say; a client that
looks at an awake screen ends up seeing it, with at most one frame in its shared
memory; a sleeping screen is silent and wakes up complete; a stream is a sequence
of whole messages, each with its descriptor; locks, keys, buttons and the pointer
agree with the client; the desktop, its outputs and what others know of them are
what the client last asked for; whatever drawing changes becomes dirty.

## 2. Modules

| Module | What it is |
|---|---|
| `ClientCon` | the life cycle of client connections and of the two session timers |
| `MCClientCon` | small instance: three client objects |
| `ClientConProofs` | TLAPS proofs about `ClientCon` |
| `ScreenUpdate` | dirty regions, update timer, frame window and screen sleep |
| `FrameWindow` | what the updates promise: abstract specification that `ScreenUpdate` implements |
| `MCScreenUpdate` | small instances: two clients with two monitors, one client with three |
| `ScreenUpdateProofs` | TLAPS proofs about `ScreenUpdate`, the refinement included |
| `UpdateTimer` | the delay of the next update, with a clock that wraps |
| `UpdateTimerProofs` | TLAPS proofs about `UpdateTimer` |
| `OutStream` | messages, orders and descriptors to a client, and xrdp's reader |
| `OutStreamProofs` | TLAPS proofs about `OutStream` |
| `Keyboard` | the keyboard driver between the client's messages and the event queue |
| `Input` | extends it with the pointer driver, beside the same queues |
| `InputProofs` | TLAPS proofs about `Input` |
| `MCInput` | small instance of both |
| `Video` | the scratch buffer of the video overlay, and what conversions touch of it |
| `Drawing` | extends it with the wrapped drawing operations, the damage and the sleep |
| `MCDrawing` | small instance: a screen of 5 by 4 pixels |
| `DrawingProofs` | TLAPS proofs about `Drawing` and `Video` |
| `Outputs` | RandR outputs, the extension that replaces them, the script that sets them |
| `Desktop` | extends it with client info, screen size, shared memory and the assistant |
| `MCDesktop` | small instance: three ways of driving, two clients one after another, one with scripts |
| `DesktopProofs` | TLAPS proofs about `Desktop` and `Outputs` |
| `TileCapture` | what is captured, sent and skipped, and what the client then displays |
| `MCTileCapture` | small instance: three pixels, three arrangements of monitors |
| `TileCaptureProofs` | TLAPS proofs about `TileCapture` |

### ClientCon

`pc` is where the thread is: `loop` (the dispatch loop, where timers run) or a
phase of `rdpClientConCheck`: `sweep` (walk over the list that removes clients
with `connected == FALSE`), then `select()`, whose answer is kept in `rfds`,
`listen`, `disconnect` and `serve`. Phases are separate steps because the other
processes act between them (`ClientArrives`, `PeerCloses`, `RequestDisconnect`,
`Logout`), and because `select()`'s answer is used after the list has changed.

| Action | Code |
|---|---|
| `Sweep`, `Select`, `GotConnection`, `DisconnectRequest`, `GotMessage`, `GotEof`, `SkipMarked`, `EndCheck` | `rdpClientConCheck` and the functions it calls |
| `Disconnect` (`StopIdleTimer`, `KillSession`) | `rdpClientConDisconnect` |
| `IdleTimeout`, `DisconnectTimeout` | the timer callbacks |
| `SendFailed` | an error in `rdpClientConSend`, from an update or in answer to a message |
| `Deinit` | `rdpClientConDeinit` after SIGTERM |

Timers hold what is left of their delay and run down with `Tick`; a timer that is
due may run late. `idleAge` is the time since the last event, saturated at the
idle timeout because the code only asks whether it has been reached. `TimerSet`
with a delay of zero does not arm a timer (X server). A connection that fails to
be accepted is modelled as the code has it: the object joins the list, not
connected, and its predecessor is marked all the same. Disconnecting every client
(`EmptyList`) is one step: leaving twice does to the timers what leaving once does.

Abstractions: a message arrives whole. `rdpClientConRecv` waits for the rest of a
message inside the thread, so a peer that stops half-way stops the whole server;
that lies below the level of this module. What a message does is in other
modules; here it is user activity or it is not.

### ScreenUpdate and FrameWindow

One action per handler or timer callback. A dirty region is the set of monitors
it meets, the client list is a set (`ClientCon` has the details), timers are
armed or not and may expire at any moment, `rect_id` is reduced to what the code
asks of it: its remainder by the number of monitors (`frame`) and its distance
from `rect_id_ack` (`unacked`). `shown` is a history variable: what each client
displays of each monitor, `same`, `old`, `overlaid` (the black of screen sleep)
or `lost` (its capture failed, or a tile was skipped because its checksum had not
changed although black had been painted over it; no capture is due).

| Action | Code |
|---|---|
| `Draw` | `rdpClientConAddAllReg`, `rdpClientConAddAllBox` |
| `SendSolid`, `SkipUpdate`, `Capture` | the three ways through `rdpDeferredUpdateCallback` |
| `Ack` | `rdpClientConProcessMsgClientRegion`, `..RegionEx` |
| `SuppressOutput`, `Invalidate`, `ClientInfo`, `MonitorUpdate`, `Input` | the message handlers |
| `EnterTimeout`, `RefreshTimeout`, `ResumeTimeout` | the callbacks of screen sleep |
| `GotConnection`, `LoseConnection`, `RemoveClient` | what connecting and leaving do to updates and sleep |

Left out: `SHM_RESIZING`, which no code sets; the 300 ms between two wake-ups,
which never matter because falling asleep takes at least a minute without input;
a monitor update before the client info, which xrdp does not send; a change of
the number of monitors.

`FrameWindow` says the same without regions, timers and modes: a client is
served at a time, with one frame at a time and none while the screen sleeps;
only a frame brings a monitor up to date. `KeepsFrameWindow` checks that
`ScreenUpdate` implements it (refinement mapping in `Promise`).

### UpdateTimer

`ScreenUpdate` lets the update timer expire at any moment; here it has its delay.
Times are numbers below `Word`, 2^32 in the code, and `Plus` and `Minus` wrap as
its `uint32_t` does. `Schedule` is `rdpScheduleDeferredUpdate`, `Update` the part
of `rdpDeferredUpdateCallback` that the delay depends on, for one monitor of an
awake screen. `TimerSet` of the X server compares times as signed numbers: a
delay of half the range or more is over, and the callback runs inside `TimerSet`.

### OutStream

A handler that writes to a client is a list of steps (`Solid`, `Cursor`,
`Paint`, ...): begin of update, orders, send, descriptor, end of update. `todo`
holds what is left of the handler, `told` and `wire` what is left of the message
that it is sending, the header and the orders. The thread enters another handler,
and xrdp's acknowledgement is handled, only when both are empty (`Idle`), so the
steps are not interleavings but places where a send may turn out one way or
another: before each piece of a message the connection may be found broken, or
the rest be given up after 100 retries. xrdp's reader is external: it expects
after a header as many orders as the header says, orders inside an update, and the
descriptor that an order has announced. It reads each piece as it is sent, for a
stream keeps its order.

Orders are reduced to what they do to the stream. `large` is a frame with so many
rectangles that it fills `out_s` alone, so that `rdpClientConPreCheck` sends the
begin of the update first. `rdpClientConEndUpdate` has a second mode that defers
the send; `do_dirty_ons` is set before the first client exists, so it is never
taken. A captured frame is written for a client that has been marked as
disconnected as well: the deferred update does not ask.

### Keyboard

The state of the driver (`rdpKeyboard`, `g_initial_sync_completed`,
`g_deferred_sync_flags`) between two queues: the messages in the socket, and the
event queue of the X server, which `ProcessInputEvents` empties when the dispatch
loop comes round. Before it does, `rdpClientConCheck` has run for the descriptor
and once more from the wakeup handler, and each run handles a message:
`ChecksPerWakeup` is 2, or 1 when only the wakeup handler runs. A third run, for
the listening socket, accepts a connection first and reads nothing in that run
(`rdpClientConRecv` returns at once for the client that is replaced), so it is as
if it had been in the wakeup before. The part of the X server is external: a press of a key
that is down is not queued; a lock goes on with the press of its key and off with
the release; a new keymap (`reload_xkb`) starts the keyboard anew but leaves the
queue. Users type `Typed` keys, let them repeat, press pause (which a client sends
as ctrl and num lock), and change locks while another window has the focus; the
client then sends a synchronisation, with or without the tabs that mstsc puts
around it. A client that gets the focus holds no key. `Connect` puts another
client in the place of the first at any moment, also between the halves of a
pause key. Left out: the branch of `KbdSync` for a device without a keymap, which
`DEVICE_INIT` loads before any client can connect.

`clean` is a history variable: the last synchronisation read the locks as the
queued events leave them, and found no pause key half done.

### Input

`rdpInputMouse` (`xrdpmouse/rdpMouse.c`) shares the socket and the event queue
with the keyboard, and so does the module: `InputMouse` is a message, handled in
one of the checks of a wakeup. `pointer` is what the driver has last reported,
`sprite` the pointer as the X server has it. The driver reports what has changed
against `pointer` and is not told when that is wrong, which three history
variables keep track of: `astray`, buttons that a client held when it was
replaced, or whose event found no memory; `aside`, the sprite has been moved by an
application or another size of the screen, or a motion was lost.

| Action | Code |
|---|---|
| `InputKeyboard`, `InputMouse` | `rdpInputKeyboardEvent`, `rdpInputMouseEvent` and the drivers |
| `PtrAddEvent`, `PtrAddScrollEvent` | the same; events are queued, or lost |
| `Resize` | the screen's size, by which coordinates are bound (`l_bound_by`) |
| `TakeOver` | another client, from the middle of whatever the former did |

`device` says which device the user uses; it never changes. No property relates
keys to buttons, so this only keeps the two halves from being multiplied. Left
out: device initialisation, and `rdpUnregisterInputCallback`.

### Drawing and Video

A region is a set of pixels. An action is an operation on one of a few drawables
(a window that is covered in part, one that is not viewable, a pixmap, the pixmap
of the screen) through one of a few contexts: it changes what the X protocol says
(`...Ink`, external, generous where a shape is round), reports what its wrapper
works out (`Reported`, `rdpDrawGetClip`), and goes on with a context whose tables
have been exchanged and exchanged back. A wrapper reckons its region as boxes, of
plain numbers in the model; what it stores are 16-bit corners, so `Region` is made
of boxes that have been cut to 16 bits (`Stored`), or clamped where
`rdpRegionFromRects` does so. `gc` is the context's history: `ops` is
`rdp` when operations are wrapped, `saved` the table of the layer below.

| Action | Code |
|---|---|
| `ContextStep` | `rdpCreateGC`, `rdpValidateGC`, the other functions, `rdpDestroyGC` |
| `CopyArea` to `PolyGlyphBlt` | `module/rdp<Operation>.c`, each with its own region |
| `CopyWindow` | `rdpCopyWindow` in `module/rdpDraw.c` |
| `Composite`, `Glyphs`, `Trapezoids`, `Triangles`, `CompositeRects` | the Render functions of the screen, without a context |
| `RegisterDamage`, `Damaged` | `rdpDeferredDamage`, `xorgxrdpDamageReport` |
| `XvPutImage`, `XvPutImageGlamor`, `XvTimeout` | `module/rdpXv.c` |
| `EnterSleep`, `UserWake`, `RefreshTimeout`, `Connect`, `Disconnect`, `Capture` | the clients and the screen sleep, of which `ScreenUpdate` has the whole story |

Some wrappers report less than their operation changes:

- `rdpCopyPlane` takes the lower edge from the left edge;
- points relative to each other (`CoordModePrevious`) are read as if they were
  not, by `rdpPolyPoint`, `rdpPolylines` and `rdpFillPolygon`;
- lines, segments and arcs leave out what wide ones have beyond their box: the
  width of lines, the joins and projecting caps of arcs. How far these reach is
  left open: the ink of a wide line or arc may be the whole screen;
- `rdpPolyFillRect` and `rdpCompositeRects` cut a rectangle at the edges of the
  16-bit plane before they move it to its window;
- text in a font that writes to the left is reported to the right;
- glyphs that the layer below draws itself are not reported.

The damage object reports the same operations again, so this only shows in the
10 ms before it is registered, or when `DamageCreate` fails: `gap` remembers such
an operation (the first argument of `Paint`) only while `damage` is not set. It
also remembers, whatever the damage, one with a corner that did not fit 16 bits
(`Fits`): such a box may end up anywhere. `EveryChangeIsReported` excuses `gap`
and nothing else. The run has a rectangle that leaves the 16-bit plane, so that
the exception is met.

What becomes of operations that are dropped during the sleep
(`rdpScreenSleepBlockDraws`) is not stated: whether applications draw again after
`rdpScreenSleepWake` has resized the screen forth and back is up to them.
`UserWake` has that resize as the code does it: not for a screen of one column or
row, and, with glamor, without a look at whether it failed.

`Video` has no pixels either: a conversion is the places it reads and writes in a
buffer at an address of any alignment, for the C conversions and for those of
SSE2 (`xvSimd`, as `rdpSimdInit` chooses), which write eight pixels at a time.
The two layouts of colours agree only for widths that are multiples of 8 and even
heights, as `ColourFromItsPlane` says. `VideoStaysInside` is about pictures that
the code does well by (`Regular`):

- the part that is scaled lies in the picture. Neither the X server nor
  `rdpXv.c` compares it with the picture before `stretch_RGB32_RGB32` reads it;
- the bytes of both parts of the buffer can be counted in an `int`, as the sum
  that sizes it is one (`Needed` wraps);
- the planar conversions of SSE2 find at least eight columns, a multiple of
  four, and two rows: their loops count down to zero and their stores are
  aligned.

What a picture that is not `Regular` does to memory is not followed (`Beyond`);
it can leave a buffer behind, of whatever size was allocated, and the next
regular picture must do well with it. Sizes of zero or less, and sizes beyond what
`xrdpVidQueryImageAttributes` allows, are left out.

Left out: `rdpFillSpans`, `rdpSetSpans` and `rdpPushPixels`, which report nothing
and are called by other operations of the layer below, on unwrapped contexts; the
4 by 4 image by which the assistant registers (it is in `Desktop`).

### Outputs and Desktop

`Outputs` has the three ways in which X clients see monitors, one for each
`driver`, fixed at the start: `rr` for RandR (`rdpRandR.c`), whose update is a
chain of calls of which each may fail and leave the rest undone; `lrr` for the
extension that NVIDIA's driver needs (`rdpLRandR.c`), with the X clients that
asked to be told (`interested`, `window`, `knows`); `grid` for the script
(`rdpRandRGrid.c`), which sleeps before it runs while another may be written. A
write of the script may fail or be short, which `rdpRandRGridUpdateRunCmds` does
not notice: the script that is run, with success, is one of `Written`, whole or
`CutShort`. xrandr then leaves some outputs as they were (`Kept`), and one of them
perhaps with half of what it was to get (`Astray`).

`Desktop` adds what sets them. An action is a message or an event:

| Action | Code |
|---|---|
| `Start` | `rdpDeferredRandR`, `rdpLRRInit` from `xorgxrdpDeferredStartup`; nothing for GRID |
| `ClientInfo`, `MonitorUpdate` | `rdpClientConProcessMsgClientInfo`, `..MonitorUpdateMsg`: size, memory, monitors, outputs, answer, assistant |
| `XResize` | `rdpRRScreenSetSize` when an X client asks: refused, unless `allow_screen_resize` |
| `Accept`, `Leave` | a take-over with the removal that follows, and `rdpClientConDisconnect` |
| `HelperRegisters` | `rdpPutImage` with the mark `0xDEADBEEF` |
| `HelperCreates`, `HelperFrees`, `HelperDies` | the assistant as an X client (external) |
| `SelectInput`, `WindowGoes` | `ProcLRRSelectInput`, `LRRClientCallback` |

`torn` marks a screen that got no pixmap of its size; the device has the size all
the same. The shared memory is sized by the bytes of a pixel that the client's
colour depth gives (`Bpp`: 1, 2 or 4), and the lines of the capture by the format
that it asks for, by its kind of capture, or by the depth (`StrideBytes`). A
client that asks for a format wider than its pixels gets memory for less than the
capture fills, and for RFX that is every client of 8, 15 or 16 bits;
`DesktopFollows` leaves these out. `failed` marks outputs whose last update stopped half-way, or that have
never been updated; `raced` two scripts that have waited at once. A client keeps
the kind of capture, and of pixels, that it asks for first. The removal of a replaced client,
which belongs to the next check, is taken together with the accept: what happens
between the two is the subject of `ClientCon`. Left out: requests of the
extension with constant answers; outputs and crtcs that go away are not announced
to X clients (`Overlaid`), as in the code; capabilities of the client that nothing
reads.

### TileCapture

`ScreenUpdate` knows of a monitor only whether it is dirty; `TileCapture` has the
pixels. One row stands for the screen: a region is a set of pixels and its
rectangles are its runs (`Rects`), so the vertical half of the arithmetic, which
is the same again, is left out. A frame in `frames` maps the pixels that xrdp is
to paint to places in the shared memory `shm`, and to what they were when they
were captured (`was`, a history variable). xrdp and the client are external: they
read the memory, paint and acknowledge in one step.

| Action | Code |
|---|---|
| `CapRect` with `CaptureRects` | `rdpCapRect` with `rdpCaptureSimple`, `rdpCaptureSufA16`, `rdpCaptureGfxA2` |
| `CapRect` with `CaptureTiles` | the same with `rdpCaptureGfxPro`, also for `CC_SUF_RFX`; `SendTiles` and `RefuseTiles` are its two ends |
| `DropRest` | the end of the scan in `rdpDeferredUpdateCallback` |
| `Ack` | the acknowledgement, and what leads to it |
| `Draw` | an application, and `rdpClientConAddDirtyScreenReg` |
| `Sleep`, `SendSolid`, `Wake`, `Refresh` | screen sleep, of which `ScreenUpdate` has the timers |
| `MonitorUpdate`, `ResetState` | `rdpClientConProcessMonitorUpdateMsg`, `rdpCaptureResetState` |

A checksum is the function that it is computed from, so equal checksums mean equal
tiles: collisions of `wyhash` are left out. A tile that is dirty as a whole is
hashed without its rectangles; as a function it is the same, and no tile that is
dirty in part has it. `limit` is `RDP_MAX_TILES` in proportion to the screen:
4096 tiles are more than most screens have and fewer than the largest.

`CleanIsShown` is what the module is for. `rdpCapRect` takes a region out of
`dirtyRegion` whatever the capture has done with it: sent, skipped because of a
checksum, cut at an edge, given up. Pixels that are not dirty are nevertheless
what the client displays once the frame under way has arrived, but for these:

- `Uncopied`: `rdpCaptureSufA16` loses the first pixels of a rectangle as wide as
  a screen that is no multiple of 16 (1080 lines are not), `rdpCaptureGfxA2` the
  last pixel of a monitor of odd size;
- `refused`: a capture that fails because of `RDP_MAX_TILES` has stored the new
  checksums, its region is not dirty any more, and nothing has been sent;
- `overlaid`: the checksums do not know of the black of screen sleep. A tile that
  comes back as it was before is skipped, and stays black until something else
  is drawn on it.

The last two are history variables, and the exception ends when the pixel is sent.
Whether these are faults is for the authors: nothing in the repository promises
otherwise. `ScreenUpdate` shows the same as `lost`.

Left out: `CC_SUF_A2`, which reads `*out_rects` before anything has set it
(`module/rdpCapture.c:1283`); the branches of glamor and of the acceleration
assistant, which copy in video memory; a session of another size, for which the
memory is allocated anew; monitors that overlap. Memory that no frame refers to is
forgotten at the acknowledgement.

## 3. Runs

| Run | Instance | Shows |
|---|---|---|
| `clients` | 3 objects, idle timeout 0..2, kill timeout 0..1, backlog 1 | one client at a time, replaced clients silent, the idle timer keeps its deadline and an armed one disconnects an idle client, broken peers leave, the kill timer ends sessions |
| `timers_after_takeover` | same | **violated**: a take-over loses the idle timer, and arms the kill timer under the new client |
| `takeover` | 2 clients, 2 monitors, modes black and refresh | nothing drawn is forgotten, sleep is silent and its cycle goes on, refinement of `FrameWindow` |
| `monitors` | 1 client, 3 monitors, all modes | no dirty client without its timer, no monitor starved, the overlay is completed |
| `delay` | clock of 64 ms, interval 10, any time at the start | the delay is between 4 ms and the interval and the timer is never lost, but for the last 4 ms before the wrap |
| `stream` | every handler, every outcome of a send | headers, orders, updates and descriptors arrive where xrdp expects them; nothing is left over between handlers; an unacknowledged frame has arrived |
| `give_up` | same | **violated**: a client stays connected although its stream has lost its framing |
| `input` | num lock, scroll lock and tab; two buttons, two places, two sizes, a wheel; two checks per wakeup | locks, keys and buttons of the X server follow the client, presses land where the user points |
| `stale_sync` | the keyboard alone | **violated**: a synchronisation and the first key in one wakeup toggle a lock twice |
| `capture` | 3 pixels, 2 colours, tiles and grid of 2, every mode, limit below and above the number of tiles | what is not dirty is displayed or under way; checksums are of what is displayed; no capture writes over a frame |
| `drawing` | 5 by 4 pixels, 5 drawables, contexts with and without clip, inferiors, wide lines, a rectangle that does not fit 16 bits; 5 pictures, 2 of them not regular, in C and SSE2; one operation between captures | what changes is dirty, but for the known gaps; conversions of regular pictures stay inside the buffer and find their colours |
| `desktop` | plain, NVIDIA and GRID drivers, two clients (one with GRID), pixels of 2 and 4 bytes, layouts with none to three monitors, also with negative places, two pixmaps, one X client | the desktop and its outputs are what was asked for, X clients and the assistant know them, pixmaps are counted |

Why the bounds are enough: three objects let a third connection arrive while a
replaced client has not been removed; two ticks of idle time give a timer that is
re-armed with a rest between zero and the whole; one connection in the backlog is
as good as more, for one is taken at each check. Two clients are the most the
list holds (`ListBounded`, proved and not among the runs' properties); two monitors are the least that compete for
the frame in a take-over, three are needed for a scan that could starve one in
the middle. Sleep modes `off` and `last` are subsumed by `black` and `refresh` in
the take-over run and are all there in the other. Symmetry is used only in
`takeover` and `desktop`, which have no liveness property.

The clock of 64 ms holds every order of the last update, the interval, the four
milliseconds and the wrap; the proof covers the other sizes. Num lock stands for
both locks of XKB (it is also in the pause key), tab for the keys that are freed
before they are pushed (it is also dropped on its own); with caps lock as well
the run gives the same answer on 3.9 million states. The client waits until its
socket is empty (`MaxMsgs`), which loses no order of messages and events: it may
send again before the event queue is processed. `OutStream` has no bound at all:
its state space is finite, and so is that of `TileCapture`, whose constants are
the bound: three pixels make a tile that is cut at the edge of a monitor, a
screen that is no multiple of the grid, a gap between monitors, and a region of
two rectangles, one more than `MaxRects`. The proofs cover every other size.

In `drawing`, regions only grow between captures and what changed is compared
pixel by pixel, so one operation between captures (`MaxDraws`) is as good as
more; the contexts' history has no bound. In `desktop` two clients are enough for
a helper that outlives its client, two slots and two pixmaps for a pixmap that is
lent twice or replaced. Two scripts are enough for a race, and two outputs of GRID
for a layout that has more, as many or fewer; the rest of the desktop does not
depend on the script, so there the run has one client, with one kind of capture
and of pixels, and a screen that gets its pixmap (`OneClientWithScripts`). The
driver `glamor` is in the modules and not in the run: it is `plain` with a screen
that can fail to get its pixmap, which `nvidia` can as well. Deadlock
is only allowed where clients are bounded (`MaxCons`).

**Fairness.** `ClientCon`: the thread does not stop (weak, on the check), the
clock advances (weak), and a due timer is run: strong, because `DoTimers` runs on
every turn of the dispatch loop and the check in between takes the model away
from `loop`. `ScreenUpdate`: an armed timer expires (weak), and xrdp acknowledges
each frame (weak, as its code does for every frame it is sent). Nothing is
assumed of users, applications, connections or sesman.

**Findings.** `rdpClientConGotConnection` deals with the timers of the device at
once, and leaves the client it replaces to the next check, where
`rdpClientConDisconnect` deals with them again, without asking whether another
client is connected. So the idle timer the new client has set is stopped ("set
idle timer to disconnect", line 850), and with `do_kill_disconnected` the kill
timer is armed, or SIGTERM is sent, under a connected client ("reset
disconnectTimer if reconnection", line 836). `OneTimerFollowsClient` asks for one
of the two, and a take-over loses both.

`rdpClientConSend` says that 100 retries do not mean that the client is
disconnected (line 1109), and gives the message up in the middle: the client is
connected to a stream it cannot read. The safety properties of `OutStream` hold
until then (`givenUp`).

`rdpScheduleDeferredUpdate` means to handle a clock that wraps (line 4025), and
does when the clock has wrapped since the last update, but not when it is about
to: the sum of the time and 4 ms wraps, an old stamp is greater, the delay
becomes negative, and the flag is set after the callback has cleared it.
`LostOnlyAtWrap` says that the flag is left without a timer nowhere else.

`KbdSync` compares with a state that its own events have not changed yet
(`xrdpkeyb/rdpKeyboard.c:244`). The deferred synchronisation repeats the first
one with the first key, and when both messages are handled in one wakeup a lock
is toggled twice. `LocksFollow` says that nothing else puts the locks out of step.

## 4. Proofs

`TileCaptureProofs` proves all properties of `TileCapture`, for every width, every
arrangement of monitors that do not overlap, every size of tiles and grid and
every limit. The lemmas come in layers:

- arithmetic: `RectsCover` (every pixel of a region is in one of its rectangles),
  `RoundA16Covers` and `RoundA2Covers` (what the alignments lose at an edge);
- `Shape`, the inductive invariant that gives types to everything: one frame under
  way, a list of checksums is empty or has one for every tile (`Slotted`), and of
  pixels of its tile (`Placed`), and modes without tiles have none;
- `Paints(P)`, what a capture may do to the frame under way. `RectsPaint` and
  `TilesPaint` show that each mode does it, for which P, and that the rest is in
  `Uncopied`, has been refused, or has an unchanged checksum;
- `ChecksumsAreShown` is inductive together with `Shape`; `CleanIsShown` needs
  both: a tile is skipped because its checksum is the stored one, and that one is
  of what the client displays (`SkippedIsShown`).

`KeyFrameSent` needs `KeyMissed`: a monitor that still waits for a key frame
although it has checksums has pixels of a failed capture that are not under way.

`UpdateTimerProofs` proves `InTime` and `LostOnlyAtWrap` for every width of the
clock above eight and every frame interval of less than half of it. `DelayBounds`
is the arithmetic: where `c + MinWait` does not wrap, a stamp that has wrapped
only makes the comparison fail, which yields the shorter delay. The temporal steps
need `TypeOK` alone.

`ClientConProofs` proves, for every set of client objects and every timeout, the
type invariant and the safety properties of `ClientCon`. The properties are not
inductive alone. `IndInv` adds `SnapshotHolds`: in the phase `listen` every client
in the list is connected, and a readable listening socket means a connection is
waiting. With it, `GotConnection` appends to a list of at most one client:

- of two clients at most the newest is connected, since the tail is marked when
  one joins, and `SnapshotHolds` says there was no third;
- the list is bounded for the same reason: `select()` is only reached when the
  walk has removed whoever was marked;
- `KillTimerMatchesFlag` and `IdleDeadlineKept` follow action by action, the
  second from the remainder that the idle callback computes.

`ScreenUpdateProofs` proves the safety of `ScreenUpdate`, for every set of clients,
every number of monitors and every choice of modes, and that it implements
`FrameWindow`. `IndInv` adds to the properties:

- `FreedIsFresh`: an object outside the list is as `calloc` leaves it, so nothing
  of a client that has left is scheduled, displayed or under way;
- `OneConnected`, and with it `OneSleeper`: falling asleep arms the update timer
  of connected clients, so of one. Without it the third black picture could be
  sent while another client still waits for one, and the screen would capture in
  its sleep;
- `SleepsForSomebody`: the timers that end in sleep are stopped with the last client.

The lemmas follow these parts: `ListKept`, `SleepKept`, `DirtyKept`. For the
refinement a step is a change of pictures (`ChangeStep`), a wake-up (`WakeStep`),
invisible (`StutterStep`), or one of the five that have a lemma of their own.
`OneFrame` is the scan: two monitors that were both sent would each have ended it
before the other. That a capture finds the screen awake is `SleepCycleGoesOn`.

`DesktopProofs` proves every property of `Desktop`, for every number of slots,
pixmaps, monitors, layouts, X clients and clients. `DesktopInv` has a part for
each thing that follows another:

- `OutputsType` and `OutputsFollow`: what each driver keeps has its type, and
  unless its update has stopped half-way (`failed`) or two scripts have raced, the
  outputs, the extension's crtcs or, if it is not cut short, the commands of the
  script are those of the monitors. The lemmas `RRSetFacts`, `LRRSetFacts` and `GridSetFacts` say it of an
  update, whatever the state before it. For RandR each output is set or cleared in
  turn, the ones left over from a longer list too, and the primary one is the last
  that is flagged (`UpdatedFacts`). For `nvidia` it includes what the X clients were
  told (`ClientKnows`);
- `ScreenInv`: the monitors are on the screen's side of the origin. Their shift
  takes the least coordinates, which there are (`LeastInRow`);
- `LayoutInv`: the screen, its monitors, the capture, its lines and the shared
  memory have the sizes that follow from the layout, the kind of capture and the
  pixels that the client has asked for, and no other step changes one of them
  without the rest;
- `LendInv`: pixmaps are counted. The count needs to know who may lend: `Lends`
  (only a connection that has started a helper has slots and has been told
  monitors) and `HelpersKnown` (the helper of the client that there is has been
  started by it; others belong to clients that have left). `LendCounts` is what
  registering a pixmap does to the slots;
- `AssistInv`: nobody but messages resizes the screen, and the kind of capture
  that asked for the assistant is kept.

`DrawingProofs` proves every property of `Drawing` and `Video`, for every screen,
every set of drawables, contexts and pictures. A drawing operation is a case of
`Reports`: what it paints is in the region that its wrapper works out, or it is
one of the known gaps. There is a lemma for each family of wrappers
(`TextReports`, `VideoReports`, ...), which compares the rectangle that is
reported with the one that is drawn, clip and all; the temporal part then only
needs that a region grows. `ContextOK` adds what it rests on: a context that may
be drawn with has the tables of rdp, so nothing is drawn past a wrapper.
Boxes that fit 16 bits are stored as they are; the rest of a lemma is about
those. `VideoInv` says that the scratch buffer has the size that is remembered
(`xvBytes = xvData`); `VideoStaysInside` is then arithmetic of the four formats in
C and in SSE2, with the rounding of odd sizes, for any alignment of the buffer.

`OutStreamProofs` proves all safety of `OutStream`, which has no constants: the
state is finite for TLC, but `StreamInv` says why it holds. It is about four
places an order can be in: still to be written (`todo`), in `out_s`, on its way
(`told`, `wire`), read by xrdp.

- `Counted`: the number that will be told is the number of orders, so long as the
  client is connected; a replaced client still gets its frame, and `count` is
  then bounded only because of that one frame;
- `Written`: what `out_s` holds, by the step that the handler is at. Between
  handlers nothing, at a descriptor nothing, at the send before it an order that
  announces one, and a begin only in front unless it has been flushed;
- `Readable`: every order that is still to be sent is one that xrdp expects when
  its turn comes;
- `Agreed`: once it has read them, xrdp is inside an update if the server has
  begun one and sent the begin, owes a descriptor if the handler is about to send
  one, and has a frame exactly when one is not acknowledged.

`Idle` leaves nothing of the first three, and `Agreed` is then what the properties
say. `Linked` ties a message to its connection: a message on its way belongs to
a connected client, so a broken connection drops it.

`InputProofs` proves the types of `Input` and the properties of both devices, for
every set of keys, places, screens and buttons and any length of the socket. The X
server's part is a fold over the event queue, which the prover cannot compute:
`FoldRuns` shows that it is a run, a row of values that each follow from the one
before (`IsRun`), and the lemmas about runs (`RunKeeps`, `RunConcat`,
`RunsRelate`) do the rest; keys leave the sprite alone (`AfterKeys`), and another
size of the screen moves it the same before the events and after them
(`AfterResize`). `PointerSteps` says what a step is to the pointer, and
`PointerInv` has a part for each distance between the user and the sprite:

- `SpriteInv`: with the events that wait, the sprite has the buttons and the place
  that the driver has reported. `QueueInv` keeps it through another size of the
  screen: the events that wait are on the screen, and after a second message that
  is no longer true but there is no third;
- `PressesInv`: that is so at each press of the queue, not only at its end;
- `PlaceInv`: a click in the socket says where the mouse was, which is the last
  motion before it in the socket, or where the driver has put the pointer;
- `HeldInv`: the last message about a button says whether it is held, and the
  driver knows when there is none. `HasPointed`: who holds a button has moved.

The keyboard has no such part for each message: what a key does depends on all
that is handled before it. So `KeysInv` runs ahead. `Hears` is what the server
makes of a message if it processes its queue before the next one, `Now` what it
has when it processes the queue as it is, and `Told` what it will have heard when
the messages that wait are handled (`Hearing`, a run again). `Agrees` relates
`Told` to the client, and is kept on both sides:

- a user sends: `Told` grows by the new messages, with a lemma for each kind
  (`PressAgrees`, `RepeatAgrees`, `ReleaseAgrees`, `PauseAgrees`, `FocusAgrees`,
  `ConnectAgrees`);
- the server handles: it does not process the queue in between, and a
  synchronisation compares with locks that may be stale. `SyncHandled`,
  `LayoutHandled` and `KeyHandled` show that it comes to something `Like` what
  would have been heard: the same keys, and the same locks if the last
  synchronisation saw them all (`clean`) and no lock key was held at it. The
  messages that follow keep that (`HearingLike`).

Before the first key the locks need not agree, only the flags that this key will
repeat. `DownInv`: the keys that the device has posted are those at the end of
the queue. A change of the layout empties the keyboard and not the queue, so what
waits there must hold no key down by itself: `LayoutFirst` says that only
synchronisations and their tabs come before a layout in the socket, and `KeysInv`
that the queue holds no key down as long as another message may be handled.

| Theorem | Property |
|---|---|
| `TypeCorrect` | `TypeOK` |
| `OneClientAtATime` | `OnlyNewestConnected`, `ListBounded` |
| `KillTimerAgreement` | `KillTimerMatchesFlag` |
| `IdleDeadline` | `IdleDeadlineKept` |
| `ReplacedIsSilent` | `ReplacedClientIsSilent` |
| `UpdateTimerProofs!TypeCorrect` | `TypeOK` of `UpdateTimer` |
| `UpdateInTime`, `TimerLostOnlyAtWrap` | `InTime`, `LostOnlyAtWrap` |
| `ScreenUpdateProofs!TypeCorrect` | `TypeOK` of `ScreenUpdate` |
| `NothingIsForgotten`, `DirtyStaysScheduled`, `SleepGoesOn` | `NothingForgotten`, `DirtyIsScheduled`, `SleepCycleGoesOn` |
| `ImplementsFrameWindow` | `KeepsFrameWindow` |
| `DesktopTypes`, `DesktopAlwaysFollows` | `DesktopTypeOK`, `DesktopFollows` |
| `OutputsAlwaysShow`, `ClientsAlwaysKnow` | `OutputsShowMonitors`, `ClientsKnowOutputs` |
| `PixmapsStayCounted`, `AssistStaysInformed` | `PixmapsCounted`, `AssistKnowsMonitors` |
| `DrawingTypes` | `TypeOK` of `Drawing` |
| `ChangesAlwaysReported` | `EveryChangeIsReported` |
| `VideoAlwaysInside`, `ColourAlwaysFromItsPlane` | `VideoStaysInside`, `ColourFromItsPlane` |
| `InputTypes` | `InputTypeOK` |
| `PressesAlwaysLand`, `ButtonsAlwaysFollow` | `PressesLand`, `ButtonsFollow` |
| `KeysAlwaysFollow`, `LocksAlwaysFollow` | `KeysFollow`, `LocksFollow` |
| `StreamTypes` | `TypeOK` of `OutStream` |
| `StreamStaysInStep`, `FramesAlwaysArrive` | `InStep`, `FrameArrives` |
| `TileCaptureProofs!TypeCorrect` | `TypeOK` of `TileCapture` |
| `CleanStaysShown` | `CleanIsShown` |
| `ChecksumsStayShown` | `ChecksumsAreShown` |
| `FrameStaysIntact` | `FrameIntact` |
| `KeyFramesAreSent` | `KeyFrameSent` |

The assumptions are those on the constants: in `ClientCon` bounds are natural
numbers, `NoTimer` is not an integer, no client has the name of a socket; in
`TileCapture` sizes are not zero, monitors lie on the screen and apart, there are
at most 16; in `Desktop` there are at most 16 slots and 16 monitors, and the size
of a layout spans its monitors, as xrdp computes it; in `Video` the sizes of
pictures are between one and the largest that the X server lets pass, while the
part that is shown is any; in `Drawing` the screen and the places of rectangles
fit 16 bits, other places are integers and sizes natural numbers; in `Input` a wakeup
handles one message or two, and screens are at least two pixels wide and high.
`KillTimerMatchesFlag`,
`ListBounded` and `KeyFrameSent` are proved and not among the properties of the
runs.

Only model-checked: all liveness, which the prover does not reach. Every invariant
that a passing run checks is proved. Induction over data is out of reach in general;
where a proof needs one (the least coordinate of a list of monitors, the last one
that is flagged, the box around pixels that have moved, the events of a queue,
the messages of a socket) it is done with the least-number principle,
`LeastNatural`, which follows from the theorems on finite sets.

## 5. Not modelled, and plan

To come:

- the captures of glamor and of the assistant, which copy in video memory: they
  would add the pixmaps of `Desktop` to `TileCapture`.

Not to be modelled:

- off-screen bitmaps: `rdpClientConAddOsBitmap` has no caller at this commit, so
  no behaviour reaches the cache;
- pixel and cursor conversion (C, assembler, shaders: data without control), and
  `rdpEglCaptureRfx`, which has no callers;
- wrappers of system calls, the registration, options and modes of the driver,
  DRI (calls made once at start), build files and scripts.
