------------------------------ MODULE MCMachine ------------------------------
EXTENDS Machine, TLC

CONSTANTS c1, c2

ServerNames == {"Nas", "nas"}
LowerCase == [h \in ServerNames |-> "nas"]

Text(form, name, port) == [form |-> form, name |-> name, port |-> port]
Targets == {Text("socket", "10.0.0.1", 12398), Text("ip", "10.0.0.1", 0),
            Text("name", "nas", 0)}

Device(path, name, kind, types, buttons, axes) ==
  [path |-> path, name |-> name, kind |-> kind, id |-> name, types |-> types, keys |-> buttons,
   abs |-> {x \in axes : "ABS" \in types}, rel |-> {x \in axes : "REL" \in types}]

Pad == Device(<<1, 0>>, {"xbox"}, "controller", {"KEY", "ABS"},
              {"BTN_SOUTH", "BTN_TL"}, {"ABS_X"})
Stick == Device(<<3>>, {"flightstick"}, "controller", {"KEY", "ABS"},
                {"BTN_TRIGGER"}, {"ABS_X"})
TrackPad == Device(<<2>>, {"handheld"}, "controller", {"KEY", "REL"},
                   {"BTN_EAST", "BTN_LEFT", "BTN_RIGHT"}, {"REL_X"})
Keyboard == Device(<<1>>, {"keyboard"}, "keyboard", {"KEY"}, {"KEY_A", "KEY_ENTER"}, {})
Mouse == Device(<<1, 0>>, {"mouse"}, "mouse", {"KEY", "REL"}, {"BTN_LEFT", "BTN_RIGHT"}, {"REL_X"})
Volume == Device(<<5>>, {"consumer control"}, "system", {"KEY", "REL"},
                 {"KEY_VOLUMEUP"}, {"REL_DIAL"})
Sensors == Device(<<1, 1>>, {"xbox", "motion sensors"}, "system", {"ABS"}, {}, {"ABS_X"})

Presence == {{}, {Pad, Sensors, Keyboard}, {Stick, TrackPad, Mouse, Volume}}

(* The theorems about devices hold for these.                              *)
ASSUME Furnished /\ ToldByCodes

Filter(keyboard, mouse, all) == [keyboard |-> keyboard, mouse |-> mouse, all |-> all]
Choosing(filters) == [device : {<<>>}, filter : filters]
SomeOptions ==
  (c1 :> Choosing({Filter(TRUE, FALSE, FALSE), Filter(FALSE, TRUE, FALSE),
                    Filter(FALSE, FALSE, TRUE)}))
    @@ (c2 :> {[device |-> Pad.path, filter |-> Filter(FALSE, FALSE, FALSE)]})
ThisHost == {"couch"}

Plain == {{}, {"user", "sudo"}, {"sudo", "system"}, {"user", "system"}}
UserService == {{"user", "service"}}
=============================================================================
