------------------------------- MODULE Outputs -------------------------------
(***************************************************************************)
(* The outputs through which X clients see the monitors of the desktop, in *)
(* the three ways of this code: RandR outputs of the X server's own        *)
(* extension (module/rdpRandR.c), an extension that takes its place with   *)
(* NVIDIA's driver (module/rdpLRandR.c), and a script that calls xrandr    *)
(* for NVIDIA GRID (module/rdpRandRGrid.c).                                *)
(*                                                                         *)
(* RandR calls fail one by one, and a failure leaves what was done.  The   *)
(* extension tells the X clients that asked to be told.  The script sleeps *)
(* two seconds before it runs, and another may be written meanwhile.       *)
(***************************************************************************)
EXTENDS Integers, SequencesExt

CONSTANTS
  Drivers,    \* of {"plain", "glamor", "nvidia", "grid"}
  XClients,   \* X clients that ask the extension about outputs
  Masks,      \* what they want to be told, of {"screen", "crtc", "output"}
  GridMax     \* NV_GRID_MAX_OUTPUTS

VARIABLES
  driver,     \* how the screen is driven, for good
  size,       \* dev->width and dev->height
  root,       \* the size of the screen and its root window
  monitors,   \* dev->minfo and dev->monitorCount
  rr,         \* RandR: [crtcs, outputs, primary]
  failed,     \* the last update of the outputs stopped half-way, or there was none
  lrr,        \* the extension: [crtcs, primary]
  interested, \* X client -> its mask, {} when it is not in the list
  window,     \* X client -> the window it gave is there
  knows,      \* X client -> [screen, crtcs, outputs], as it has been told
  grid,       \* [outputs, file, scripts]: set by xrandr, written, and waiting
  raced       \* two scripts have been waiting at once

outputVars == <<driver, size, root, monitors, rr, failed, lrr, interested, window, knows,
                grid, raced>>

ASSUME OutputsAssumption ==
  /\ Drivers \subseteq {"plain", "glamor", "nvidia", "grid"}
  /\ Masks \subseteq SUBSET {"screen", "crtc", "output"}
  /\ GridMax \in Nat \ {0}

None == <<>>                          \* no rectangle, no size

Spans == Nat \X Nat                   \* width, height
NoOutput == [mode |-> None, attached |-> FALSE, connected |-> FALSE]
Untold   == [screen |-> None, crtcs |-> None, outputs |-> None]

Shown(m) == <<m.left, m.top, m.right - m.left + 1, m.bottom - m.top + 1>>
Mode(r)  == <<r[3], r[4]>>

\* The rectangles to show: the monitors, or the whole screen.
WantedRects(ms, s) ==
  IF ms = <<>> THEN <<<<0, 0, s[1], s[2]>>>> ELSE [i \in DOMAIN ms |-> Shown(ms[i])]

Wanted == WantedRects(monitors, size)

Flagged(ms) == {i \in DOMAIN ms : ms[i].primary}

-----------------------------------------------------------------------------
(* RandR *)

\* A sequence that has been made n long, at least.
Grown(q, n, new) == [i \in 1..Max({n, Len(q)}) |-> IF i <= Len(q) THEN q[i] ELSE new]

\* rdpRRAddCrtc.
AddCrtcs(r, n) == [r EXCEPT !.crtcs = Grown(@, n, None)]

\* Mutant: every update adds outputs.
AddAllOutputs(r, n) == [r EXCEPT !.outputs = Grown(@, Len(@) + n, NoOutput)]

\* rdpRRAddOutput.
AddOutputs(r, n) == [r EXCEPT !.outputs = Grown(@, n, NoOutput)]

\* rdpRRConnectOutput, after that many of its calls: the mode, the modes of the
\* output, its crtcs, its connection, its physical size, and the crtc's notice,
\* which does not fail.
ConnectOutput(r, i, rect, done) ==
  [r EXCEPT
    !.outputs[i] = [mode |-> IF done >= 2 THEN Mode(rect) ELSE @.mode,
                    attached |-> done >= 3 \/ @.attached,
                    connected |-> done >= 4 \/ @.connected],
    !.crtcs[i] = IF done >= 6 THEN rect ELSE @]

\* rdpRRDisconnectOutput, likewise: the modes, the crtcs, the connection with
\* the crtc's notice.
DisconnectOutput(r, i, done) ==
  [r EXCEPT
    !.outputs[i] = [mode |-> IF done >= 1 THEN None ELSE @.mode,
                    attached |-> done < 2 /\ @.attached,
                    connected |-> done < 3 /\ @.connected],
    !.crtcs[i] = IF done >= 3 THEN None ELSE @]

\* RRSetPrimaryOutput, after the output that is flagged as primary.
SetPrimary(r, i, ms) == IF i \in Flagged(ms) THEN [r EXCEPT !.primary = i] ELSE r

\* Mutant: outputs that are not needed any more stay connected.
UpdateNeeded(r, i, shown, ms) ==
  IF i <= Len(shown) THEN SetPrimary(ConnectOutput(r, i, shown[i], 6), i, ms) ELSE r

\* The update of an output, completely: connected when it is to be shown.
UpdateOutput(r, i, shown, ms) ==
  IF i <= Len(shown) THEN SetPrimary(ConnectOutput(r, i, shown[i], 6), i, ms)
                     ELSE DisconnectOutput(r, i, 3)

\* The first n outputs are updated, one after another.
Updated(r, shown, ms, n) ==
  LET done(i) == UpdateOutput(r, i, shown, ms)
      primary == Flagged(ms) \cap 1..n
  IN [crtcs   |-> [i \in DOMAIN r.crtcs |-> IF i <= n THEN done(i).crtcs[i] ELSE r.crtcs[i]],
      outputs |-> [i \in DOMAIN r.outputs |->
                     IF i <= n THEN done(i).outputs[i] ELSE r.outputs[i]],
      primary |-> IF primary = {} THEN r.primary ELSE done(Max(primary)).primary]

\* ... and the next fails.
StoppedAt(r, shown, i) ==
  IF i <= Len(shown) THEN {ConnectOutput(r, i, shown[i], done) : done \in 0..5}
                     ELSE {DisconnectOutput(r, i, done) : done \in 0..2}

\* rdpRRAddCrtc or rdpRRAddOutput fails; an output whose clones cannot be set
\* has been created.
AddFailed(r, n) ==
  {AddCrtcs(r, i) : i \in Len(r.crtcs)..(n - 1)}
    \cup {AddOutputs(AddCrtcs(r, n), i) : i \in IF Len(r.outputs) < n THEN Len(r.outputs)..n ELSE {}}

\* rdpRRSetRdpOutputs, for the rectangles to show.
RRSetRdpOutputs(shown, ms) ==
  LET n     == Len(shown)
      added == AddOutputs(AddCrtcs(rr, n), n)
      all   == IF Len(added.crtcs) < Len(added.outputs) THEN Len(added.crtcs)
                                                        ELSE Len(added.outputs)
  IN \/ rr' = Updated(added, shown, ms, all) /\ failed' = FALSE
     \/ /\ rr' \in AddFailed(rr, n)
                     \cup UNION {StoppedAt(Updated(added, shown, ms, i - 1), shown, i) : i \in 1..all}
        /\ failed' = TRUE

-----------------------------------------------------------------------------
(* The extension *)

\* The identifiers of the i-th crtc, output and mode, and the ways between them.
LRRMax         == 16
Crtc(i)        == i
Output(i)      == i + LRRMax
ModeId(i)      == i + 2 * LRRMax
Output2Crtc(o) == o - LRRMax
Output2Mode(o) == o + LRRMax
Crtc2Output(c) == c + LRRMax

Crtc2Mode(c)   == c + LRRMax + LRRMax

\* ProcLRRGetScreenResources, ProcLRRGetOutputInfo, ProcLRRGetCrtcInfo and
\* ProcLRRGetOutputPrimary.
ScreenResources ==
  [crtcs   |-> {Crtc(i) : i \in DOMAIN lrr.crtcs},
   outputs |-> {Output(i) : i \in DOMAIN lrr.crtcs},
   modes   |-> {[id |-> ModeId(i), span |-> Mode(lrr.crtcs[i])] : i \in DOMAIN lrr.crtcs}]
OutputInfo(o) == [crtc |-> Output2Crtc(o), mode |-> Output2Mode(o)]
CrtcInfo(c)   == [rect |-> lrr.crtcs[c], mode |-> Crtc2Mode(c), output |-> Crtc2Output(c)]
OutputPrimary == lrr.primary

\* ProcLRRSelectInput: no mask takes the client off the list.
SelectInput(x) ==
  /\ driver = "nvidia"
  /\ window[x]
  /\ \E m \in Masks \cup {{}} :
       /\ interested' = [interested EXCEPT ![x] = m]
       /\ knows' = [knows EXCEPT ![x] = Untold]
  /\ UNCHANGED <<driver, size, root, monitors, rr, failed, lrr, window, grid, raced>>

\* The window that the client named goes and comes; LRRClientCallback takes off
\* the list a client that goes itself.
WindowGoes(x) ==
  /\ driver = "nvidia"
  /\ window' = [window EXCEPT ![x] = ~@]
  /\ interested' \in {interested, [interested EXCEPT ![x] = {}]}
  /\ UNCHANGED <<driver, size, root, monitors, rr, failed, lrr, knows, grid, raced>>

\* Nothing is said of the crtcs and outputs that there are no more.
Overlaid(old, new) == new \o SubSeq(old, Len(new) + 1, Len(old))

\* What is delivered: LRRDeliverScreenEvent, LRRDeliverCrtcEvent for each crtc
\* and LRRDeliverOutputEvent for each output.
Delivered(x, s, crtcs) ==
  LET m == interested[x]
  IN [screen  |-> IF "screen" \in m THEN s ELSE knows[x].screen,
      crtcs   |-> IF "crtc" \in m THEN Overlaid(knows[x].crtcs, crtcs) ELSE knows[x].crtcs,
      outputs |-> IF "output" \in m
                  THEN Overlaid(knows[x].outputs, [i \in DOMAIN crtcs |-> Output(i)])
                  ELSE knows[x].outputs]

AtMostMax(q) == SubSeq(q, 1, IF Len(q) < LRRMax THEN Len(q) ELSE LRRMax)

LastFlagged(ms) == IF Flagged(ms) = {} THEN 0 ELSE Output(CHOOSE i \in Flagged(ms) : \A j \in Flagged(ms) : j <= i)

\* Mutant: the clients are told of the crtcs as they were.
ToldCrtcsBefore(crtcs) == lrr.crtcs

\* The crtcs that are in the events.
ToldCrtcs(crtcs) == crtcs

\* rdpLRRSetRdpOutputs: a client whose window is gone comes off the list.
LRRSetRdpOutputs(shown, ms) ==
  LET crtcs == AtMostMax(shown)
  IN /\ lrr' = [crtcs |-> crtcs, primary |-> LastFlagged(AtMostMax(ms))]
     /\ knows' = [x \in XClients |->
                    IF window[x] THEN Delivered(x, root', ToldCrtcs(crtcs)) ELSE knows[x]]
     /\ interested' = [x \in XClients |-> IF window[x] THEN interested[x] ELSE {}]
     /\ failed' = FALSE

-----------------------------------------------------------------------------
(* The script *)

AllOff == [i \in 1..GridMax |-> None]

\* An output that a script leaves as it was, and one that it gives a place or mode
\* that nobody has asked for.
Kept   == <<"kept">>
Astray == <<"astray">>

\* Mutant: outputs that are not needed are not mentioned.
CommandsForMonitors(shown) ==
  [i \in 1..GridMax |-> IF i <= Len(shown) THEN shown[i] ELSE Kept]

\* rdpRandRGridUpdateCmds: the first monitors, the other outputs off.
Commands(shown) ==
  [i \in 1..GridMax |-> IF i <= Len(shown) THEN shown[i] ELSE None]

\* rdpRandRGridWriteString fails or writes less, which is not noticed: xrandr is
\* given the first outputs, another perhaps by half, and leaves the others; it
\* does nothing at all about modes that it has not been told of.
CutShort(shown) ==
  {[i \in 1..GridMax |-> CASE i < k -> Commands(shown)[i]
                           [] i = k -> half
                           [] OTHER -> Kept] : k \in 1..GridMax, half \in {Kept, Astray}}

Written(shown) == {Commands(shown)} \cup CutShort(shown)

\* rdpRandRGridUpdateRunCmds and rdpRandRGridSetRdpOutputs: without memory or a
\* file nothing is run.  With no shell the file has been written all the same.
GridSetRdpOutputs(shown) ==
  \/ /\ \E file \in Written(shown) :
          grid' = [grid EXCEPT !.file = file, !.scripts = Append(@, file)]
     /\ failed' = FALSE
     /\ raced' = (grid.scripts # <<>>)
  \/ /\ \E file \in Written(shown) \cup {grid.file} : grid' = [grid EXCEPT !.file = file]
     /\ failed' = TRUE
     /\ UNCHANGED raced

\* What xrandr makes of the outputs.
SetBy(outputs, commands) ==
  [i \in DOMAIN outputs |-> IF commands[i] = Kept THEN outputs[i] ELSE commands[i]]

\* A script has slept; the shell has read it before, or reads on in the file,
\* which may be another by now.
ScriptRuns ==
  \E i \in DOMAIN grid.scripts :
    /\ \E commands \in {grid.scripts[i], grid.file} :
         grid' = [grid EXCEPT !.outputs = SetBy(@, commands), !.scripts = RemoveAt(@, i)]
    /\ UNCHANGED <<driver, size, root, monitors, rr, failed, lrr, interested, window, knows, raced>>

-----------------------------------------------------------------------------
(* All of them *)

\* The update of the outputs, after the size and the monitors have changed.
SetRdpOutputs(s, ms) ==
  LET shown == WantedRects(ms, s)
  IN CASE driver = "grid"   -> /\ GridSetRdpOutputs(shown)
                               /\ UNCHANGED <<rr, lrr, knows, interested>>
       [] driver = "nvidia" -> /\ LRRSetRdpOutputs(shown, ms)
                               /\ UNCHANGED <<rr, grid, raced>>
       [] OTHER             -> /\ RRSetRdpOutputs(shown, ms)
                               /\ UNCHANGED <<lrr, knows, interested, grid, raced>>
=============================================================================
