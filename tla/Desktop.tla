------------------------------- MODULE Desktop -------------------------------
(***************************************************************************)
(* The desktop that a client gives the session: its client info and its    *)
(* monitor updates (module/rdpClientCon.c) size the screen                 *)
(* (module/rdpRandR.c, xrdpdev/xrdpdev.c), the shared memory and the       *)
(* capture, set the outputs of Outputs, and start the acceleration         *)
(* assistant, a process between the session and the client, which lends    *)
(* the session pixmaps by drawing into them (module/rdpPutImage.c).        *)
(*                                                                         *)
(* Screens fail to get their pixmap, forks fail, the helper dies, and its  *)
(* last requests come after it has been killed.                            *)
(***************************************************************************)
EXTENDS Outputs

CONSTANTS
  Layouts,      \* what clients ask for: [size, monitors]
  Codes,        \* how they want to be sent pictures, of {"plain", "rfx", "h264"}
  Depths,       \* the bytes of their pixels, [Bpp, format]: by the colour depth, and
                \* by capture_format, 0 for none
  StartSizes,   \* XRDP_START_WIDTH and XRDP_START_HEIGHT
  Assisted,     \* drivers with which XRDP_USE_ACCEL_ASSIST is 1
  MaxMonitors,  \* CLIENT_MONITOR_DATA_MAXIMUM_MONITORS
  Slots,        \* monitors that the helper lends a pixmap for, of 0..15
  Pixmaps,      \* pixmaps of helpers
  MaxCons,      \* bound: clients that ever connect
  MaxScripts    \* bound: scripts that wait at once

VARIABLES
  started,      \* the deferred part of the start has run
  allow,        \* dev->allow_screen_resize
  torn,         \* the screen could not be given the size of the device
  con,          \* the client connection
  accepted,     \* clients that have connected
  helpers,      \* the helpers whose X connection is there, by their client
  owner,        \* pixmap -> the helper that made it and holds it, or 0
  refs          \* pixmap -> its reference count

desktopVars == <<started, allow, torn, con, accepted, helpers, owner, refs>>
allVars     == <<outputVars, desktopVars>>

\* A monitor, and one that reaches no further than the size from another.
Monitor == [left : Int, top : Int, right : Int, bottom : Int, primary : BOOLEAN]

Reaches(m, o, s) == m.right - o.left < s[1] /\ m.bottom - o.top < s[2]

ASSUME DesktopAssumption ==
  /\ \A l \in Layouts :
       /\ l.size \in Spans
       /\ l.monitors \in Seq(Monitor) /\ Len(l.monitors) <= MaxMonitors
       /\ \A i, j \in DOMAIN l.monitors : Reaches(l.monitors[i], l.monitors[j], l.size)
  /\ Codes \subseteq {"plain", "rfx", "h264"}
  /\ Depths \subseteq [Bpp : {1, 2, 4}, format : {0, 1, 2, 4}]
  /\ StartSizes \subseteq Spans
  /\ Slots \subseteq 0..15
  /\ MaxMonitors \in 1..LRRMax
  /\ MaxCons \in Nat /\ MaxScripts \in Nat

\* rdpClientConGotConnection: nothing is known of a client that has connected.
NewCon(n) ==
  [num |-> n, layout |-> None, code |-> "plain", depth |-> [Bpp |-> 0, format |-> 0],
   cap |-> None, shm |-> 0, stride |-> 0, told |-> None, assist |-> FALSE, helper |-> "none",
   helperTold |-> None, slots |-> [i \in Slots |-> None]]

NoCon == NewCon(0)

Registered(c, p) == {i \in Slots : c.slots[i] = <<p>>}

\* The variables have their types; connections are numbered one after another.
DesktopTypeOK ==
  /\ driver \in Drivers
  /\ size \in Spans /\ root \in Spans
  /\ started \in BOOLEAN /\ allow \in BOOLEAN /\ torn \in BOOLEAN /\ failed \in BOOLEAN
  /\ accepted \in 0..MaxCons /\ con.num \in {0, accepted}
  /\ con.helper \in {"none", "running", "failed", "dead"}
  /\ con.helper \in {"running", "dead"} => con.assist
  /\ helpers \subseteq 1..accepted
  /\ \A p \in Pixmaps : owner[p] \in helpers \cup {0} /\ refs[p] \in Nat
  /\ Len(rr.outputs) \in 0..MaxMonitors /\ Len(rr.crtcs) \in 0..MaxMonitors
  /\ \A x \in XClients : interested[x] \in Masks \cup {{}}
  /\ Len(grid.scripts) <= MaxScripts

DesktopInit ==
  /\ driver \in Drivers
  /\ size \in StartSizes /\ root = size
  /\ monitors = <<>>
  /\ rr = [crtcs |-> <<>>, outputs |-> <<>>, primary |-> 0]
  /\ failed = TRUE
  /\ lrr = [crtcs |-> <<>>, primary |-> 0]
  /\ interested = [x \in XClients |-> {}]
  /\ window = [x \in XClients |-> TRUE]
  /\ knows = [x \in XClients |-> Untold]
  /\ grid = [outputs |-> AllOff, file |-> AllOff, scripts |-> <<>>]
  /\ raced = FALSE
  /\ started = FALSE
  /\ allow = FALSE
  /\ torn = FALSE
  /\ con = NoCon
  /\ accepted = 0
  /\ helpers = {}
  /\ owner = [p \in Pixmaps |-> 0]
  /\ refs = [p \in Pixmaps |-> 0]

-----------------------------------------------------------------------------
(* The screen *)

\* rdpRRScreenSetSize, and xorgxrdpRRScreenSetSize for NVIDIA: the device has
\* the size even when the screen does not get a pixmap of it.
ScreenSetSize(s) ==
  /\ size' = s
  /\ \/ root' = s /\ torn' = FALSE
     \/ driver # "plain" /\ root' = root /\ torn' = TRUE

\* dev->allow_screen_resize after a resize.
AllowAfter == FALSE

\* RRScreenSizeSet, when the device has another size.
Resize(s) ==
  IF s = size THEN UNCHANGED <<size, root, torn, allow>>
              ELSE ScreenSetSize(s) /\ allow' = AllowAfter

\* Before any client: rdpDeferredRandR and rdpResizeSession, or rdpLRRInit from
\* xorgxrdpDeferredStartup, which does nothing about the outputs for NVIDIA GRID.
Start ==
  /\ ~started
  /\ started' = TRUE
  /\ IF driver \in {"plain", "glamor"}
     THEN \E s \in StartSizes : Resize(s) ELSE UNCHANGED <<size, root, torn, allow>>
  /\ IF driver = "grid" THEN UNCHANGED <<rr, failed, lrr, interested, knows, grid, raced>>
                        ELSE SetRdpOutputs(size', <<>>)
  /\ UNCHANGED <<driver, monitors, window, con, accepted, helpers, owner, refs>>

\* An X client asks for another size of the screen, and is refused as a rule.
XResize ==
  /\ driver \in {"plain", "glamor"}
  /\ started
  /\ IF allow THEN \E s \in StartSizes \ {size} : ScreenSetSize(s)
              ELSE UNCHANGED <<size, root, torn>>
  /\ UNCHANGED <<driver, monitors, rr, failed, lrr, interested, window, knows, grid, raced,
                 started, allow, con, accepted, helpers, owner, refs>>

-----------------------------------------------------------------------------
(* Messages of the client *)

Aligned(s, a) == [i \in 1..2 |-> ((s[i] + a - 1) \div a) * a]

\* XRDP_RFX_ALIGN for RFX; other captures have the size of the client.
CaptureSize(s, code) == IF code = "rfx" THEN Aligned(s, 64) ELSE s

\* Two bytes for a pixel of H264, rdp_Bpp for the others.
ShmBytes(s, code, depth) ==
  CaptureSize(s, code)[1] * CaptureSize(s, code)[2] * (IF code = "h264" THEN 2 ELSE depth.Bpp)

\* cap_stride_bytes for each pixel of cap_width.
StrideBytes(code, depth) ==
  CASE depth.format # 0 -> depth.format
    [] depth.format = 0 /\ code = "plain" -> depth.Bpp
    [] OTHER -> 4

\* rdpClientConAllocateSharedMemory: reused when it has the same size.
AllocateSharedMemory(c, bytes) == bytes

\* rdpClientConResizeAllMemoryAreas, for the connection.
ResizedAreas(c, s, code, depth) ==
  [c EXCEPT !.cap = CaptureSize(s, code),
            !.shm = AllocateSharedMemory(c, ShmBytes(s, code, depth)),
            !.stride = StrideBytes(code, depth),
            !.code = code,
            !.depth = depth]

\* rdpSendMemoryAllocationComplete: the size of the device, aligned.
MemoryAllocationComplete(c, s) ==
  [c EXCEPT !.told = CASE c.code = "rfx"  -> Aligned(s, 64)
                       [] c.code = "h264" -> Aligned(s, 16)
                       [] OTHER           -> s]

\* Mutant: the monitors are moved by the place of the first.
ShiftedToFirst(ms) ==
  [i \in DOMAIN ms |-> [ms[i] EXCEPT !.left = @ - ms[1].left, !.right = @ - ms[1].left,
                                     !.top = @ - ms[1].top, !.bottom = @ - ms[1].top]]

\* rdpClientConProcessClientInfoMonitors: "adjust monitor info so it's not
\* negative".
Shifted(ms) ==
  LET x == Min({ms[i].left : i \in DOMAIN ms})
      y == Min({ms[i].top : i \in DOMAIN ms})
  IN [i \in DOMAIN ms |-> [ms[i] EXCEPT !.left = @ - x, !.right = @ - x,
                                        !.top = @ - y, !.bottom = @ - y]]

ClientInfoMonitors(l) ==
  /\ monitors' = Shifted(l.monitors)
  /\ SetRdpOutputs(l.size, Shifted(l.monitors))

\* rdpSendAccelAssistMonitors: to whoever is at the other end of the socket, the
\* client when the helper could not be started.
SendAssistMonitors(c, s, ms) ==
  IF c.helper = "failed" THEN c
  ELSE [c EXCEPT !.helperTold = [i \in DOMAIN WantedRects(ms, s) |-> Mode(WantedRects(ms, s)[i])]]

\* rdpClientConUseAccelAssist.
UseAccelAssist(code) == driver \in Assisted \ {"plain"} /\ code = "h264"

\* rdpStartAccelAssist: one that is running, or has died, is not started again.
StartAccelAssist(c) ==
  IF c.helper \in {"running", "dead"} THEN {c}
  ELSE {[c EXCEPT !.helper = h] : h \in {"running", "failed"}}

\* Mutant: an assistant that has been running is not told of another layout.
HelpedOnce(c, s, ms) ==
  IF UseAccelAssist(c.code) /\ c.helper = "none"
  THEN {SendAssistMonitors(a, s, ms) : a \in StartAccelAssist([c EXCEPT !.assist = TRUE])}
  ELSE {c}

\* The end of rdpClientConProcessMsgClientInfo.
Helped(c, s, ms) ==
  IF UseAccelAssist(c.code)
  THEN {SendAssistMonitors(a, s, ms) : a \in StartAccelAssist([c EXCEPT !.assist = TRUE])}
  ELSE {c}

\* rdpClientConProcessMsgClientInfo; a client asks for one kind of capture, and of
\* pixels.
ClientInfo(l, code, depth) ==
  /\ started
  /\ con.num > 0
  /\ con.layout # None => con.code = code /\ con.depth = depth
  /\ Resize(l.size)
  /\ ClientInfoMonitors(l)
  /\ con' \in Helped([MemoryAllocationComplete(ResizedAreas(con, l.size, code, depth), l.size)
                          EXCEPT !.layout = <<l>>], l.size, monitors')
  /\ helpers' = IF con'.helper = "running" THEN helpers \cup {con.num} ELSE helpers
  /\ UNCHANGED <<driver, window, started, accepted, owner, refs>>

\* rdpClientConProcessMonitorUpdateMsg; rdpClientConProcessMsgClientInput refuses
\* an update with as many monitors as there is room for.
MonitorUpdate(l) ==
  /\ con.layout # None
  /\ Len(l.monitors) \in 1..(MaxMonitors - 1)
  /\ Resize(l.size)
  /\ ClientInfoMonitors(l)
  /\ LET c == [MemoryAllocationComplete(ResizedAreas(con, l.size, con.code, con.depth), l.size)
                 EXCEPT !.layout = <<l>>]
     IN con' = IF c.assist THEN SendAssistMonitors(c, l.size, monitors') ELSE c
  /\ UNCHANGED <<driver, window, started, accepted, helpers, owner, refs>>

-----------------------------------------------------------------------------
(* The assistant *)

\* Mutant: the pixmaps that were lent are not given back.
LeaveLent(c) == refs

\* rdpShutdownAccelAssist: every pixmap that was lent is given back, by a
\* connection that has started a helper.
GiveBack(c) ==
  IF c.assist /\ c.helper \in {"running", "dead"}
  THEN [p \in Pixmaps |-> refs[p] - Cardinality(Registered(c, p))]
  ELSE refs

\* rdpClientConDisconnect, for the client that goes or is replaced.  The helper
\* is killed; its X connection is noticed later.
Disconnect(next) ==
  /\ con' = next
  /\ refs' = GiveBack(con)
  /\ UNCHANGED <<outputVars, started, allow, torn, helpers, owner>>

Leave  == con.num > 0 /\ Disconnect(NoCon) /\ UNCHANGED accepted
Accept == /\ started
          /\ accepted < MaxCons
          /\ accepted' = accepted + 1
          /\ Disconnect(NewCon(accepted + 1))

\* The helper creates a pixmap, and frees it.
HelperCreates(n, p) ==
  /\ owner[p] = 0 /\ refs[p] = 0
  /\ owner' = [owner EXCEPT ![p] = n]
  /\ refs' = [refs EXCEPT ![p] = 1]
  /\ UNCHANGED <<outputVars, started, allow, torn, con, accepted, helpers>>

HelperFrees(n, p) ==
  /\ owner[p] = n
  /\ owner' = [owner EXCEPT ![p] = 0]
  /\ refs' = [refs EXCEPT ![p] = @ - 1]
  /\ UNCHANGED <<outputVars, started, allow, torn, con, accepted, helpers>>

\* "free old", "so it can not get freed early".
Lend(i, p) ==
  [q \in Pixmaps |-> refs[q] + (IF q = p THEN 1 ELSE 0) - (IF con.slots[i] = <<q>> THEN 1 ELSE 0)]

\* rdpPutImage with the mark of the helper: one whose client has gone, or has
\* been replaced, is not heard, and none is while the screen sleeps.
HelperRegisters(n, p, i) ==
  /\ owner[p] = n
  /\ \/ /\ con.num = n
        /\ i < Len(con.helperTold)
        /\ con' = [con EXCEPT !.slots[i] = <<p>>]
        /\ refs' = Lend(i, p)
     \/ UNCHANGED <<con, refs>>
  /\ UNCHANGED <<outputVars, started, allow, torn, accepted, helpers, owner>>

\* The X connection of a helper closes, and its pixmaps are freed.
HelperDies(n) ==
  /\ helpers' = helpers \ {n}
  /\ owner' = [p \in Pixmaps |-> IF owner[p] = n THEN 0 ELSE owner[p]]
  /\ refs' = [p \in Pixmaps |-> IF owner[p] = n THEN refs[p] - 1 ELSE refs[p]]
  /\ con' = IF con.num = n THEN [con EXCEPT !.helper = "dead"] ELSE con
  /\ UNCHANGED <<outputVars, started, allow, torn, accepted>>

Helper ==
  \E n \in helpers :
    \/ HelperDies(n)
    \/ \E p \in Pixmaps :
         \/ HelperCreates(n, p)
         \/ HelperFrees(n, p)
         \/ \E i \in Slots : HelperRegisters(n, p, i)

-----------------------------------------------------------------------------
XClient ==
  /\ \/ \E x \in XClients : SelectInput(x) \/ WindowGoes(x)
     \/ ScriptRuns
  /\ UNCHANGED desktopVars

Client ==
  \/ /\ Len(grid.scripts) < MaxScripts
     /\ \E l \in Layouts :
          \/ MonitorUpdate(l)
          \/ \E code \in Codes, depth \in Depths : ClientInfo(l, code, depth)
  \/ Leave
  \/ Accept

DesktopNext == Start \/ XResize \/ XClient \/ Client \/ Helper

DesktopSpec == DesktopInit /\ [][DesktopNext]_allVars

-----------------------------------------------------------------------------
(* Properties *)

\* The desktop is what the client last asked for: the screen has its size, its
\* monitors lie to each other as asked for, with none left of or above the
\* screen, and the capture holds all of it, and the memory every line of the
\* capture (rdpClientConResizeAllMemoryAreas, rdpClientConProcessClientInfoMonitors),
\* if the client has asked for a format that is no wider than its pixels: the
\* memory is sized by the one and filled by the other.  RFX has four bytes for a
\* pixel in any case; H264 has NV12, of one and a half.
\* Nobody else resizes the screen.
DesktopFollows ==
  con.layout # None =>
    LET l == con.layout[1]
    IN /\ size = l.size
       /\ torn \/ root = size
       /\ Len(monitors) = Len(l.monitors)
       /\ \A i, j \in DOMAIN monitors :
            /\ monitors[i].left - monitors[j].left = l.monitors[i].left - l.monitors[j].left
            /\ monitors[i].right - monitors[j].left = l.monitors[i].right - l.monitors[j].left
            /\ monitors[i].top - monitors[j].top = l.monitors[i].top - l.monitors[j].top
            /\ monitors[i].bottom - monitors[j].top = l.monitors[i].bottom - l.monitors[j].top
       /\ \A i \in DOMAIN monitors :
            /\ monitors[i].left >= 0 /\ monitors[i].right < size[1]
            /\ monitors[i].top >= 0 /\ monitors[i].bottom < size[2]
       /\ \A i \in {1, 2} : con.cap[i] >= size[i] /\ con.told[i] >= con.cap[i]
       /\ con.code = "h264" => con.shm >= con.cap[1] * con.cap[2] * 2
       /\ con.code # "h264" /\ con.stride <= con.depth.Bpp =>
            con.shm >= con.cap[1] * con.cap[2] * con.stride

\* X clients see the monitors that there are, whatever has been before and has
\* failed before: every output that is needed is connected with the mode and the
\* place of its monitor, and no other, and the primary one is one that is
\* flagged (rdpRRSetRdpOutputs, rdpLRRSetRdpOutputs, rdpRandRGridSetRdpOutputs).
\* Where scripts set the outputs, the file is that of the last layout, though it
\* may be cut short; if it is whole the outputs show the layout once the script
\* has run, when no two of them have been waiting together.
OutputsShowMonitors ==
  ~failed =>
    CASE driver = "nvidia" -> lrr.crtcs = Wanted
      [] driver = "grid"   ->
           /\ grid.file \in Written(Wanted)
           /\ grid.file = Commands(Wanted) /\ grid.scripts = <<>> /\ ~raced =>
                \A i \in DOMAIN grid.outputs :
                  grid.outputs[i] = IF i \in DOMAIN Wanted THEN Wanted[i] ELSE None
      [] OTHER             -> /\ \A i \in DOMAIN Wanted :
                                   /\ rr.outputs[i] = [mode |-> Mode(Wanted[i]), attached |-> TRUE,
                                                       connected |-> TRUE]
                                   /\ rr.crtcs[i] = Wanted[i]
                              /\ \A i \in DOMAIN rr.outputs \ DOMAIN Wanted :
                                   rr.outputs[i] = NoOutput
                              /\ \A i \in DOMAIN rr.crtcs \ DOMAIN Wanted : rr.crtcs[i] = None
                              /\ Flagged(monitors) # {} => rr.primary \in Flagged(monitors)

\* An X client of the extension that has been told since it asked knows the
\* screen, and the crtcs and the outputs that there are, as they are, and what it asks about one of
\* them leads to the others: an output to its crtc and mode, the crtc back to the
\* output and to a mode of its own size (rdpLRRSetRdpOutputs, ProcLRRGet*).
ClientsKnowOutputs ==
  driver = "nvidia" =>
    /\ \A x \in XClients :
         LET m == interested[x]
             k == knows[x]
         IN /\ "screen" \in m /\ k.screen # None => k.screen = root
            /\ "crtc" \in m /\ k.crtcs # None => IsPrefix(lrr.crtcs, k.crtcs)
            /\ "output" \in m /\ k.outputs # None => ScreenResources.outputs \subseteq ToSet(k.outputs)
    /\ \A o \in ScreenResources.outputs :
         LET info == OutputInfo(o)
         IN /\ info.crtc \in ScreenResources.crtcs
            /\ CrtcInfo(info.crtc).output = o
            /\ CrtcInfo(info.crtc).mode = info.mode
            /\ [id |-> info.mode, span |-> Mode(CrtcInfo(info.crtc).rect)] \in ScreenResources.modes
    /\ OutputPrimary \in ScreenResources.outputs \cup {0}

\* A pixmap is counted once for the helper that holds it and once for every
\* monitor it is lent for, so that none that is lent is gone and none is left
\* when both are (rdpPutImage, rdpShutdownAccelAssist), whichever dies first.
PixmapsCounted ==
  \A p \in Pixmaps :
    refs[p] = (IF owner[p] # 0 THEN 1 ELSE 0) + Cardinality(Registered(con, p))

\* A helper that runs knows the monitors as they are, though the first attempt to
\* start it may have failed and the layout may have changed since
\* (rdpSendAccelAssistMonitors).
AssistKnowsMonitors ==
  con.helper = "running" => con.helperTold = [i \in DOMAIN Wanted |-> Mode(Wanted[i])]
=============================================================================
