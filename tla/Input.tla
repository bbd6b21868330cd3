-------------------------------- MODULE Input --------------------------------
(***************************************************************************)
(* The input of a client (module/rdpInput.c) and the pointer driver        *)
(* (xrdpmouse/rdpMouse.c), beside the keyboard driver of Keyboard.         *)
(*                                                                         *)
(* Pointer messages come through the same socket, and pointer events go to *)
(* the same event queue.  The driver keeps the buttons and the place that  *)
(* it has reported, and reports only what changes; it is told neither of a *)
(* pointer that an application moves, nor of an event that is lost because *)
(* there is no memory for it, nor of a client that leaves.                 *)
(***************************************************************************)
EXTENDS Keyboard

CONSTANTS
  Buttons,   \* the buttons that users press, of 1..9
  Places,    \* where users point, <<x, y>>
  Sizes,     \* the sizes of the screen, <<width, height>>
  Deltas     \* how far users turn a wheel or move two fingers

VARIABLES
  device,    \* what the user uses: a bound, no property relates keys to buttons
  mouse,     \* [held, at]: buttons that the user holds, and where he points
  pointer,   \* rdpPointer: [mask, at], as last reported
  sprite,    \* [buttons, at]: the pointer as the X server has it
  size,      \* dev->width and dev->height
  astray,    \* buttons of a client that left, or whose last event was lost
  aside      \* the sprite is not where the driver has put it

pointerVars == <<device, mouse, pointer, sprite, size, astray, aside>>
inputVars   == <<vars, pointerVars>>

Nowhere == <<-1, -1>>

ASSUME InputAssumption ==
  /\ Buttons \subseteq 1..9
  /\ Places \subseteq Nat \X Nat
  /\ Sizes \subseteq (Nat \ 0..1) \X (Nat \ 0..1)
  /\ Deltas \subseteq Int \ {0}

PointerMessages ==
  [move : Places] \cup [button : Buttons, down : BOOLEAN, at : Places]
    \cup [wheel : Deltas, vertical : BOOLEAN]
PointerEvents ==
  [motion : Nat \X Nat] \cup [button : Buttons, down : BOOLEAN, at : (Nat \X Nat) \cup {Nowhere}]
    \cup [scroll : Int, of : Deltas, vertical : BOOLEAN]

\* The variables of both drivers have their types, and the sprite is on the
\* screen.
InputTypeOK ==
  /\ KeyboardTypeOK
  /\ device \in {"keys", "mouse"}
  /\ msgs \in Seq(Messages \cup PointerMessages)
  /\ queue \in Seq(Events \cup PointerEvents)
  /\ mouse \in [held : SUBSET Buttons, at : Places \cup {Nowhere}]
  /\ pointer \in [mask : SUBSET Buttons, at : Nat \X Nat]
  /\ sprite \in [buttons : SUBSET Buttons, at : Nat \X Nat]
  /\ \A i \in 1..2 : sprite.at[i] < size[i]
  /\ size \in Sizes
  /\ astray \in SUBSET Buttons
  /\ aside \in BOOLEAN

\* rdpmouseControl has set the pointer up, and the X server has put the sprite
\* in the middle of the screen.
InputInit ==
  /\ Init
  /\ device \in {"keys", "mouse"}
  /\ size \in Sizes
  /\ mouse = [held |-> {}, at |-> Nowhere]
  /\ pointer = [mask |-> {}, at |-> <<0, 0>>]
  /\ sprite = [buttons |-> {}, at |-> <<size[1] \div 2, size[2] \div 2>>]
  /\ astray = {}
  /\ aside = TRUE

-----------------------------------------------------------------------------
(* The X server *)

AtMost(a, b)   == IF a < b THEN a ELSE b
OnScreen(p, s) == [i \in 1..2 |-> AtMost(p[i], s[i] - 1)]

\* The sprite does not leave the screen.
ProcessPointer(s, e) ==
  CASE "motion" \in DOMAIN e -> [s EXCEPT !.at = OnScreen(e.motion, size)]
    [] "button" \in DOMAIN e -> [s EXCEPT !.buttons = IF e.down THEN @ \cup {e.button}
                                                                ELSE @ \ {e.button}]
    [] OTHER                 -> s

\* ProcessInputEvents, for both devices.
ProcessEvents ==
  /\ ProcessInputEvents
  /\ sprite' = FoldLeft(ProcessPointer, sprite, queue)
  /\ UNCHANGED <<device, mouse, pointer, size, astray, aside>>

\* An application moves the pointer.
Warp ==
  /\ device = "mouse"
  /\ handled = 0
  /\ \E p \in Places :
       /\ \A i \in 1..2 : p[i] < size[i]
       /\ sprite' = [sprite EXCEPT !.at = p]
       /\ aside' = (aside \/ p # sprite.at)
  /\ UNCHANGED <<vars, device, mouse, pointer, size, astray>>

-----------------------------------------------------------------------------
(* The driver *)

\* l_bound_by, for both coordinates of a place.
Bound(p) == [i \in 1..2 |-> AtMost(p[i], size[i] - 2)]

\* PtrAddEvent: the motion, or the button that has changed; no message changes
\* more than one of them.  `at' is where the user pointed, and kept with a press
\* as far as the screen goes.
Reports(p, at) ==
  (IF p.at = pointer.at THEN {} ELSE {[motion |-> p.at]})
    \cup {[button |-> b, down |-> b \in p.mask, at |-> IF aside THEN Nowhere ELSE Bound(at)] :
            b \in (p.mask \ pointer.mask) \cup (pointer.mask \ p.mask)}

ButtonsOf(events) == {e.button : e \in {e \in events : "button" \in DOMAIN e}}
Motions(events)   == {e \in events : "motion" \in DOMAIN e}

\* Mutant: the buttons that have been reported are not kept.
MaskNotKept(p) == [p EXCEPT !.mask = pointer.mask]

\* Mutant: the place that has been reported is not kept.
PlaceNotKept(p) == [p EXCEPT !.at = pointer.at]

\* old_cursor and old_button_mask after a report.
Reported(p) == p

\* rdpEnqueueMotion and rdpEnqueueButton queue nothing when there is no memory;
\* what they were to report counts as reported all the same.
PtrAddEvent(p, at) ==
  LET events == Reports(p, at)
  IN \E lost \in SUBSET events :
       /\ queue' = queue \o SetToSeq(events \ lost)
       /\ pointer' = Reported(p)
       /\ astray' = (astray \ ButtonsOf(events)) \cup ButtonsOf(lost)
       /\ aside' = IF Motions(events) = {} THEN aside ELSE Motions(lost) # {}

Quotient(a, b) == IF a >= 0 THEN a \div b ELSE -((-a) \div b)

\* SCALE_FACTOR, with at least one step.
Scaled(d) == IF Quotient(d, 10) = 0 THEN (IF d > 0 THEN 1 ELSE -1) ELSE Quotient(d, 10)

\* PtrAddScrollEvent
PtrAddScrollEvent(m) ==
  /\ queue' = Append(queue, [scroll |-> IF m.vertical THEN -Scaled(m.wheel) ELSE Scaled(m.wheel),
                             of |-> m.wheel, vertical |-> m.vertical])
  /\ UNCHANGED <<pointer, astray, aside>>

\* rdpInputMouseEvent and rdpInputMouse, for the next message in the socket.
InputMouse ==
  /\ msgs # <<>>
  /\ handled < ChecksPerWakeup
  /\ handled' = handled + 1
  /\ msgs' = Tail(msgs)
  /\ LET m == Head(msgs)
     IN \/ "move" \in DOMAIN m   /\ PtrAddEvent([pointer EXCEPT !.at = Bound(m.move)], m.move)
        \/ "button" \in DOMAIN m /\ m.down
             /\ PtrAddEvent([pointer EXCEPT !.mask = @ \cup {m.button}], m.at)
        \/ "button" \in DOMAIN m /\ ~m.down
             /\ PtrAddEvent([pointer EXCEPT !.mask = @ \ {m.button}], m.at)
        \/ "wheel" \in DOMAIN m  /\ PtrAddScrollEvent(m)
  /\ UNCHANGED <<client, completed, flags, driver, posted, xkb, owned, clean,
                 device, mouse, sprite, size>>

\* Another size of the screen: the X server keeps the sprite on it.
Resize ==
  /\ device = "mouse"
  /\ handled < ChecksPerWakeup
  /\ handled' = handled + 1
  /\ \E s \in Sizes \ {size} :
       /\ size' = s
       /\ sprite' = [sprite EXCEPT !.at = OnScreen(@, s)]
  /\ aside' = TRUE
  /\ UNCHANGED <<client, msgs, completed, flags, driver, queue, posted, xkb, owned, clean,
                 device, mouse, pointer, astray>>

-----------------------------------------------------------------------------
(* The user *)

SendPointer(ms) ==
  /\ device = "mouse"
  /\ owned
  /\ SendMsgs(ms)
  /\ UNCHANGED <<client, device, pointer, sprite, size, astray, aside>>

Move(p) ==
  /\ p # mouse.at
  /\ mouse' = [mouse EXCEPT !.at = p]
  /\ SendPointer(<<[move |-> p]>>)

\* A click comes with no place, so the pointer has been moved before.
Push(b) ==
  /\ mouse.at # Nowhere
  /\ b \notin mouse.held
  /\ mouse' = [mouse EXCEPT !.held = @ \cup {b}]
  /\ SendPointer(<<[button |-> b, down |-> TRUE, at |-> mouse.at]>>)

LetGo(b) ==
  /\ b \in mouse.held
  /\ mouse' = [mouse EXCEPT !.held = @ \ {b}]
  /\ SendPointer(<<[button |-> b, down |-> FALSE, at |-> mouse.at]>>)

Wheel(d) ==
  /\ \E v \in BOOLEAN : SendPointer(<<[wheel |-> d, vertical |-> v]>>)
  /\ UNCHANGED mouse

\* The next client has no button down; those of the former stay as they were.
TakeOver ==
  /\ Connect
  /\ device = "mouse" => client'.locks = {}
  /\ mouse' = [held |-> {}, at |-> Nowhere]
  /\ astray' = astray \cup pointer.mask
  /\ UNCHANGED <<device, pointer, sprite, size, aside>>

Type ==
  /\ device = "keys"
  /\ User
  /\ UNCHANGED pointerVars

InputNext ==
  \/ Type
  \/ TakeOver
  \/ \E p \in Places : Move(p)
  \/ \E b \in Buttons : Push(b) \/ LetGo(b)
  \/ \E d \in Deltas : Wheel(d)
  \/ InputKeyboard /\ UNCHANGED pointerVars
  \/ InputMouse
  \/ ProcessEvents
  \/ Warp
  \/ Resize

InputSpec == InputInit /\ [][InputNext]_inputVars

-----------------------------------------------------------------------------
(* Properties *)

\* The buttons that are down for the X server are those that the user holds,
\* but for a button that a client held when it was replaced, and for one whose
\* last event was lost, until that button changes again: rdpmouse is not told
\* that a client leaves, and remembers what it could not report.
ButtonsFollow ==
  Settled => sprite.buttons \ astray = mouse.held \ astray

\* When a press reaches the X server the sprite is where the user pointed, as
\* far as the screen goes, unless an application or another size of the screen
\* had moved it, or a motion was lost, after the driver last moved it.  Every turn
\* of a wheel scrolls there, in its own direction: against the client's sign down
\* and up, with it left and right.
PressesLand ==
  /\ \A i \in DOMAIN queue :
       "button" \in DOMAIN queue[i] /\ queue[i].down /\ queue[i].at # Nowhere
         => FoldLeft(ProcessPointer, sprite, SubSeq(queue, 1, i)).at = OnScreen(queue[i].at, size)
  /\ \A e \in ToSet(queue) : "scroll" \in DOMAIN e =>
       LET steps == IF e.vertical THEN -e.scroll ELSE e.scroll
       IN (steps > 0 <=> e.of > 0) /\ steps # 0
=============================================================================
