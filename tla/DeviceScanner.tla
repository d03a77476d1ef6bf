---------------------------- MODULE DeviceScanner ----------------------------
(***************************************************************************)
(* What src/src/device.rs computes: which input devices a client may use,  *)
(* in which order, what it tells the server about one, and what virtual    *)
(* device the server makes of that.                                        *)
(*                                                                         *)
(* A device is a record [path, name, id, types, keys, abs, rel].  Its path *)
(* is the digits behind /dev/input/event; its name is the set of phrases   *)
(* in it, in lower case, so that a prefix adds phrases; types are the event*)
(* types it supports ("KEY", "ABS", "REL"), then its codes of each.        *)
(***************************************************************************)
EXTENDS Naturals, Sequences, FiniteSets

NoisePhrases ==
  {"motion sensors", "system control", "consumer control", "hdmi", "pcm=",
   "headphone", "video bus", "lid switch", "power button", "sleep button",
   "pc speaker", "hotkeys", "button array", "privacy driver",
   "wireless controller touchpad"}

is_noise_device(name) == name \cap NoisePhrases # {}

PadButtons ==
  {"BTN_SOUTH", "BTN_EAST", "BTN_NORTH", "BTN_WEST", "BTN_TL", "BTN_TR",
   "BTN_SELECT", "BTN_START", "BTN_MODE", "BTN_THUMBL", "BTN_THUMBR"}
StickButtons == {"BTN_TRIGGER", "BTN_THUMB"}

Keys(d) == IF "KEY" \in d.types THEN d.keys ELSE {}
IsPointer(d) == {"BTN_LEFT", "BTN_RIGHT"} \subseteq Keys(d) \/ "REL" \in d.types

(* The first that fits, in this order.                                     *)
classify_device(d) ==
  IF Keys(d) \cap PadButtons # {} THEN "Gamepad"
  ELSE IF Keys(d) \cap StickButtons # {} THEN "Joystick"
  ELSE IF IsPointer(d) THEN "Mouse"
  ELSE IF {"KEY_A", "KEY_ENTER"} \subseteq Keys(d) THEN "Keyboard"
  ELSE "Other"

(* --keyboard, --mouse and --all.                                          *)
Options == [keyboard : BOOLEAN, mouse : BOOLEAN, all : BOOLEAN]

Wanted(opt) == {"Gamepad", "Joystick"} \cup (IF opt.keyboard THEN {"Keyboard"} ELSE {})
                                       \cup (IF opt.mouse THEN {"Mouse"} ELSE {})

Passes(d, opt) ==
  opt.all \/ (classify_device(d) \in Wanted(opt) /\ ~ is_noise_device(d.name))

(* Paths are compared as text: event10 comes before event2.                *)
Before(d, e) ==
  LET p == d.path  q == e.path IN
  \/ Len(p) < Len(q) /\ SubSeq(q, 1, Len(p)) = p
  \/ \E i \in DOMAIN p \cap DOMAIN q :
       p[i] < q[i] /\ \A j \in 1 .. i - 1 : p[j] = q[j]

(* Sorted: the device at place n is the one that n of them do not follow.   *)
list_devices_filtered(present, opt) ==
  LET listed == {d \in present : Passes(d, opt)}
      place(d) == Cardinality({e \in listed : ~ Before(d, e)})
  IN [n \in 1 .. Cardinality(listed) |-> CHOOSE d \in listed : place(d) = n]

(* What a handshake announces.  An absolute axis is announced if its state *)
(* can be read.                                                            *)
extract_metadata(d) ==
  [name |-> d.name, id |-> d.id, keys |-> Keys(d),
   abs |-> IF "ABS" \in d.types THEN d.abs ELSE {},
   rel |-> IF "REL" \in d.types THEN d.rel ELSE {}]

(* Mutant: relative axes are set up even if there are none.                *)
new_with_axes(meta, host, path) ==
  [path |-> path, name |-> meta.name \cup host, id |-> meta.id,
   types |-> {"REL"} \cup (IF meta.keys # {} THEN {"KEY"} ELSE {})
                     \cup (IF meta.abs # {} THEN {"ABS"} ELSE {}),
   keys |-> meta.keys, abs |-> meta.abs, rel |-> meta.rel]

(* VirtualOutput::new_with_name, under the name "<host>: <name>": an event *)
(* type is set up only if there is a code of it.                           *)
new_with_name(meta, host, path) ==
  [path |-> path, name |-> meta.name \cup host, id |-> meta.id,
   types |-> (IF meta.keys # {} THEN {"KEY"} ELSE {})
               \cup (IF meta.abs # {} THEN {"ABS"} ELSE {})
               \cup (IF meta.rel # {} THEN {"REL"} ELSE {}),
   keys |-> meta.keys, abs |-> meta.abs, rel |-> meta.rel]
=============================================================================
