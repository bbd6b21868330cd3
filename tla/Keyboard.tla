------------------------------- MODULE Keyboard -------------------------------
(***************************************************************************)
(* The keyboard driver (xrdpkeyb/rdpKeyboard.c) between a client and the   *)
(* X server.                                                               *)
(*                                                                         *)
(* The client presses keys, and tells its lock keys when it connects and   *)
(* when it gets the focus; its messages wait in the socket.  The driver    *)
(* turns a message into key events for the event queue of the X server,    *)
(* which processes them only when the dispatch loop comes round: by then   *)
(* rdpClientConCheck has run up to ChecksPerWakeup times (once for the     *)
(* descriptor, once for the wakeup handler) and handled a message in each; *)
(* a third check, for a connection that comes at the same time, is as if   *)
(* it had been in the wakeup before.                                       *)
(***************************************************************************)
EXTENDS Integers, SequencesExt

CONSTANTS
  Typed,            \* bound: the keys that users type
  ChecksPerWakeup,  \* messages handled before the event queue is processed
  MaxMsgs           \* bound: messages in the socket at which the client waits

VARIABLES
  client,     \* [held, locks]: keys that the user holds, and locks that are on
  msgs,       \* messages in the socket
  handled,    \* messages handled since the event queue was processed
  completed,  \* g_initial_sync_completed
  flags,      \* g_deferred_sync_flags
  driver,     \* rdpKeyboard: [skip, scrollDown, scrollState, tabDown]
  queue,      \* the event queue of the X server
  posted,     \* keys that are down at the end of the queue
  xkb,        \* [held, locked, unlocking]: the keyboard as the X server has it
  owned,      \* flags are of the client that is connected
  clean       \* the last synchronisation saw all there was to see

vars == <<client, msgs, handled, completed, flags, driver, queue, posted, xkb, owned, clean>>

XLocks == {"caps", "num"}             \* keys that lock a modifier
Locks  == XLocks \cup {"scroll"}
Keys   == Locks \cup {"tab", "plain"}
XKeys  == Keys \cup {"pause"}

ASSUME KeyboardAssumption ==
  /\ Typed \subseteq Keys
  /\ ChecksPerWakeup \in 1..2
  /\ MaxMsgs \in Nat \ {0}

Down(k) == [key |-> k, down |-> TRUE]
Up(k)   == [key |-> k, down |-> FALSE]
Sync(l) == [sync |-> l]
Layout  == [layout |-> 1]

Events   == [key : XKeys, down : BOOLEAN]
Messages == Events \cup [sync : SUBSET Locks] \cup {Layout}

NoKeys == [held |-> {}, locked |-> {}, unlocking |-> {}]

KeyboardTypeOK ==
  /\ client \in [held : SUBSET Keys, locks : SUBSET Locks]
  /\ handled \in 0..ChecksPerWakeup
  /\ completed \in BOOLEAN
  /\ flags \in SUBSET Locks
  /\ driver \in [skip : BOOLEAN, scrollDown : BOOLEAN, scrollState : BOOLEAN, tabDown : BOOLEAN]
  /\ posted \in SUBSET XKeys
  /\ xkb \in [held : SUBSET XKeys, locked : SUBSET XLocks, unlocking : SUBSET XLocks]
  /\ xkb.unlocking \subseteq xkb.held \cap xkb.locked
  /\ {owned, clean} \subseteq BOOLEAN

\* The variables have their types, and a lock goes off only with its key down.
TypeOK ==
  /\ KeyboardTypeOK
  /\ msgs \in Seq(Messages)
  /\ queue \in Seq(Events)

\* The device has been initialised and no client has connected.
Init ==
  /\ client = [held |-> {}, locks |-> {}]
  /\ msgs = <<>>
  /\ handled = 0
  /\ completed = FALSE
  /\ flags = {}
  /\ driver = [skip |-> FALSE, scrollDown |-> FALSE, scrollState |-> FALSE, tabDown |-> FALSE]
  /\ queue = <<>>
  /\ posted = {}
  /\ xkb = NoKeys
  /\ owned = FALSE
  /\ clean = FALSE

-----------------------------------------------------------------------------
(* The X server: GetKeyboardEvents and the lock filters of XKB. *)

Pushes(k) == <<Down(k)>>
Frees(k)  == <<Up(k)>>

\* A press of a key that is down already is not queued.
PostEvent(q, e) ==
  IF e.down /\ e.key \in q.posted
  THEN q
  ELSE [queue  |-> Append(q.queue, e),
        posted |-> IF e.down THEN q.posted \cup {e.key} ELSE q.posted \ {e.key}]

Post(events) ==
  LET q == FoldLeft(PostEvent, [queue |-> queue, posted |-> posted], events)
  IN queue' = q.queue /\ posted' = q.posted

\* A lock goes on when its key goes down, and off when it comes up again after
\* it went down with the lock on.
KeyDown(x, k) ==
  [held      |-> x.held \cup {k},
   locked    |-> x.locked \cup ({k} \cap XLocks),
   unlocking |-> x.unlocking \cup ({k} \cap x.locked)]

KeyUp(x, k) ==
  [held      |-> x.held \ {k},
   locked    |-> x.locked \ ({k} \cap x.unlocking),
   unlocking |-> x.unlocking \ {k}]

\* The events of another device leave the keyboard alone, and so does one that
\* finds its key where it should go.
ProcessEvent(x, e) ==
  IF "key" \notin DOMAIN e \/ (e.down <=> e.key \in x.held)
  THEN x
  ELSE IF e.down THEN KeyDown(x, e.key) ELSE KeyUp(x, e.key)

\* ProcessInputEvents
ProcessInputEvents ==
  /\ handled > 0
  /\ handled' = 0
  /\ xkb' = FoldLeft(ProcessEvent, xkb, queue)
  /\ queue' = <<>>
  /\ UNCHANGED <<client, msgs, completed, flags, driver, posted, owned, clean>>

-----------------------------------------------------------------------------
(* The driver *)

\* XkbStateFieldFromRec: the modifiers as the events processed so far left them.
XkbState == xkb.locked \cup (xkb.held \cap XLocks)

Current(d) == XkbState \cup (IF d.scrollState THEN {"scroll"} ELSE {})

\* Press and release of the lock keys that differ from the client's.
Toggle(different, k) == IF k \in different THEN <<Down(k), Up(k)>> ELSE <<>>

SyncEvents(d, l) ==
  LET different == (Current(d) \ l) \cup (l \ Current(d))
  IN <<Up("caps"), Up("num"), Up("scroll")>>
       \o Toggle(different, "caps") \o Toggle(different, "num") \o Toggle(different, "scroll")

\* KbdSync: the driver's own state afterwards.
SyncDriver(d, l) == [d EXCEPT !.scrollDown = FALSE, !.scrollState = "scroll" \in l]

\* The synchronisation saw the locks as they will be, and no pause sequence that
\* an earlier client has left unfinished.
CleanSync ==
  /\ XkbState = FoldLeft(ProcessEvent, xkb, queue).locked
  /\ ~driver.skip

\* KbdSync, called for the message.
KbdSync(l) ==
  /\ flags' = l
  /\ owned' = TRUE
  /\ clean' = CleanSync
  /\ driver' = SyncDriver(driver, l)
  /\ Post(SyncEvents(driver, l))
  /\ UNCHANGED <<completed, xkb>>

\* Mutant: num lock is not taken for a part of the pause key.
NeverSkips(d, k) == FALSE

\* The pause key comes with a num lock of its own.
Skips(d, k) == d.skip /\ k = "num"

\* Mutant: that a tab has gone down is not kept.
TabNeverDown(e) == FALSE

\* keyboard->tab_down after a tab key.
TabDown(e) == e.down

\* KbdAddEvent: what the driver knows after a key ...
AddDriver(d, e) ==
  CASE Skips(d, e.key)    -> [d EXCEPT !.skip = FALSE]
    [] e.key = "scroll"   -> [d EXCEPT !.skip = FALSE,
                                       !.scrollDown = e.down,
                                       !.scrollState = IF e.down /\ ~d.scrollDown THEN ~@ ELSE @]
    [] e.key = "tab"      -> [d EXCEPT !.skip = FALSE, !.tabDown = TabDown(e)]
    [] e.key = "pause"    -> [d EXCEPT !.skip = TRUE]
    [] OTHER              -> [d EXCEPT !.skip = FALSE]

\* ... and the events that the key becomes.  A tab that comes up without having
\* gone down belongs to a synchronisation; other keys are freed before they are
\* pushed, for the client repeats them.
AddEvents(d, e) ==
  CASE Skips(d, e.key)                             -> <<>>
    [] e.key = "tab" /\ ~e.down /\ ~d.tabDown      -> <<>>
    [] e.key \in {"tab", "plain"} /\ e.down        -> Frees(e.key) \o Pushes(e.key)
    [] OTHER                                       -> <<e>>

\* KbdAddEvent: the first key that goes down repeats the synchronisation.
KbdAddEvent(e) ==
  LET deferred == ~completed /\ e.down
      d        == IF deferred THEN SyncDriver(driver, flags) ELSE driver
      before   == IF deferred THEN SyncEvents(driver, flags) ELSE <<>>
  IN /\ completed' = (completed \/ e.down)
     /\ clean' = IF deferred THEN clean /\ CleanSync ELSE clean
     /\ driver' = AddDriver(d, e)
     /\ Post(before \o AddEvents(d, e))
     /\ UNCHANGED <<flags, xkb, owned>>

\* Mutant: the keys start anew, their locks do not.
LoadLayoutKeys ==
  /\ xkb' = [xkb EXCEPT !.held = {}]
  /\ posted' = {}
  /\ completed' = FALSE
  /\ UNCHANGED <<flags, driver, queue, owned, clean>>

\* rdpLoadLayout: the keyboard of the X server starts anew, the queue does not.
LoadLayout ==
  /\ xkb' = NoKeys
  /\ posted' = {}
  /\ completed' = FALSE
  /\ UNCHANGED <<flags, driver, queue, owned, clean>>

\* rdpInputKeyboard, for the next message in the socket.
InputKeyboard ==
  /\ msgs # <<>>
  /\ handled < ChecksPerWakeup
  /\ handled' = handled + 1
  /\ msgs' = Tail(msgs)
  /\ UNCHANGED client
  /\ LET m == Head(msgs)
     IN \/ "sync" \in DOMAIN m   /\ KbdSync(m.sync)
        \/ "layout" \in DOMAIN m /\ LoadLayout
        \/ "key" \in DOMAIN m    /\ KbdAddEvent(m)

-----------------------------------------------------------------------------
(* The user and the client *)

server == <<completed, flags, driver, queue, posted, xkb, clean>>

SendMsgs(ms) ==
  /\ Len(msgs) < MaxMsgs
  /\ msgs' = msgs \o ms
  /\ UNCHANGED <<server, handled, owned>>

Press(k) ==
  /\ k \notin client.held
  /\ client' = [held  |-> client.held \cup {k},
                locks |-> (client.locks \ {k}) \cup (({k} \cap Locks) \ client.locks)]
  /\ SendMsgs(Pushes(k))

\* From Windows every key repeats.
Repeat(k) ==
  /\ k \in client.held
  /\ SendMsgs(Pushes(k))
  /\ UNCHANGED client

Release(k) ==
  /\ k \in client.held
  /\ client' = [client EXCEPT !.held = @ \ {k}]
  /\ SendMsgs(Frees(k))

\* [MS-RDPBCGR] 2.2.8.1.1.3.1.1.1: the pause key is ctrl and num lock, at once.
PressPause ==
  /\ SendMsgs(<<Down("pause"), Down("num"), Up("pause"), Up("num")>>)
  /\ "num" \notin client.held
  /\ UNCHANGED client

\* A synchronisation, with or without the tabs of mstsc.
SyncMsgs(l) == {<<Sync(l)>>, <<Up("tab"), Sync(l), Up("tab")>>}

\* The window of the client gets the focus, with no key held.
Focus ==
  /\ owned
  /\ client.held = {}
  /\ \E l \in SUBSET (Locks \cap Typed) : \E ms \in SyncMsgs(l) :
       /\ client' = [client EXCEPT !.locks = l]
       /\ SendMsgs(ms)

\* Another client connects, and sends its client info and its locks.  What the
\* former has left in its socket is not read any more.
Connect ==
  /\ handled < ChecksPerWakeup
  /\ handled' = handled + 1
  /\ owned' = FALSE
  /\ \E l \in SUBSET (Locks \cap Typed) : \E ms \in SyncMsgs(l) :
       /\ client' = [held |-> {}, locks |-> l]
       /\ msgs' \in {<<Layout>> \o ms, ms \o <<Layout>>}
  /\ UNCHANGED server

User ==
  \/ \E k \in Typed : Press(k) \/ Repeat(k) \/ Release(k)
  \/ PressPause
  \/ Focus

Next == User \/ Connect \/ InputKeyboard \/ ProcessInputEvents

Spec == Init /\ [][Next]_vars

-----------------------------------------------------------------------------
(* Properties *)

\* Everything that the client has sent has reached the X server.
Settled == owned /\ msgs = <<>> /\ queue = <<>> /\ handled = 0

\* Caps lock and num lock as the X server has them.
Aligned == \A k \in XLocks \ client.held : k \in xkb.locked <=> k \in client.locks

\* Caps and num lock of the X server follow those of the client, through lock
\* keys, repeats, pause keys, synchronisations and changes of the layout, once
\* a key has gone down after a synchronisation that saw all there was to see.
\* The driver's idea of scroll lock, which XKB does not know, is the client's.
LocksFollow ==
  /\ Settled /\ completed /\ clean => Aligned
  /\ owned /\ msgs = <<>> => (driver.scrollState <=> "scroll" \in client.locks)

\* No key sticks and none is lost: the X server holds the keys that the user
\* holds, also when a client leaves with keys held and another comes.
KeysFollow == Settled /\ clean => xkb.held = client.held

(* Violated: what the comments say of the synchronisation. *)

\* "Perform deferred synchronization on the first keyboard interaction": after
\* the first key the locks are those of the client.
LocksAligned == Settled /\ completed => Aligned
=============================================================================
