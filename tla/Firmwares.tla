------------------------------ MODULE Firmwares ------------------------------
(***************************************************************************)
(* What each firmware says of itself in usb_descriptors.c, what its         *)
(* usb_config.h gives it, what its main() sends, and what its callbacks     *)
(* make of the requests that usb_hid.c or usb_cdc.c passes on.              *)
(***************************************************************************)
EXTENDS Integers, Sequences, SequencesExt, FiniteSetsExt

-----------------------------------------------------------------------------
(* The descriptors of a configuration, in order.                            *)

Configuration(interfaces, string) ==
  [kind |-> "configuration", length |-> 9, interfaces |-> interfaces, string |-> string]
Interface(number, endpoints, class, string) ==
  [kind |-> "interface", length |-> 9, number |-> number, endpoints |-> endpoints,
   class |-> class, string |-> string]
Hid(size) == [kind |-> "hid", length |-> 9, size |-> size]
Endpoint(number, in, size) ==
  [kind |-> "endpoint", length |-> 7, number |-> number, in |-> in, size |-> size]
Functional(length, interfaces) == [kind |-> "functional", length |-> length, of |-> interfaces]

Length(descriptors) == FoldLeft(LAMBDA sum, d : sum + d.length, 0, descriptors)

(* The items of a report descriptor.                                        *)
Item(length, tag, value) == [length |-> length, tag |-> tag, value |-> value]
Other(length) == Item(length, "other", 0)          \* usages, pages and limits

(* Mutant: no bits fill the byte with the buttons.                          *)
MouseReportUnfilled ==
  <<Other(2), Other(2), Item(2, "begin", 0), Other(2), Item(2, "begin", 0),
    Other(2), Other(2), Other(2), Other(2), Other(2),
    Item(2, "count", 3), Item(2, "size", 1), Item(2, "input", 0),
    Other(2), Other(2), Other(2), Other(2), Other(2),
    Item(2, "size", 8), Item(2, "count", 2), Item(2, "input", 0),
    Item(1, "end", 0), Item(1, "end", 0)>>

MouseReport ==
  <<Other(2), Other(2), Item(2, "begin", 0), Other(2), Item(2, "begin", 0),
    Other(2), Other(2), Other(2), Other(2), Other(2),
    Item(2, "count", 3), Item(2, "size", 1), Item(2, "input", 0),
    Item(2, "count", 1), Item(2, "size", 5), Item(2, "input", 0),
    Other(2), Other(2), Other(2), Other(2), Other(2),
    Item(2, "size", 8), Item(2, "count", 2), Item(2, "input", 0),
    Item(1, "end", 0), Item(1, "end", 0)>>

PlayReport == MouseReport

VendorReport ==
  <<Other(3), Other(2), Item(2, "begin", 0), Other(2), Other(2), Other(2), Other(2),
    Item(2, "size", 8), Item(2, "count", 64), Item(2, "input", 0),
    Other(2), Other(2), Item(2, "output", 0), Item(1, "end", 0)>>

CustomReport == VendorReport

KeyboardReport ==
  <<Other(2), Other(2), Item(2, "begin", 0), Other(2), Other(2), Other(2), Other(2), Other(2),
    Item(2, "size", 1), Item(2, "count", 8), Item(2, "input", 0),
    Item(2, "count", 1), Item(2, "size", 8), Item(2, "input", 0),
    Item(2, "count", 3), Item(2, "size", 1), Other(2), Other(2), Other(2), Item(2, "output", 0),
    Item(2, "count", 1), Item(2, "size", 5), Item(2, "output", 0),
    Item(2, "count", 6), Item(2, "size", 8), Other(2), Other(3), Other(2), Other(2), Other(3),
    Item(2, "input", 0), Item(1, "end", 0)>>

-----------------------------------------------------------------------------
(* The configurations, the string indices of the device descriptors, and    *)
(* the sizes of the strings there are.                                      *)

BootloaderConfiguration ==
  <<Configuration(1, 0), Interface(0, 2, "hid", 0), Hid(Length(VendorReport)),
    Endpoint(1, TRUE, 64), Endpoint(1, FALSE, 64)>>
CustomConfiguration ==
  <<Configuration(1, 0), Interface(0, 2, "hid", 0), Hid(Length(CustomReport)),
    Endpoint(1, TRUE, 64), Endpoint(1, FALSE, 64)>>
MouseConfiguration ==
  <<Configuration(1, 2), Interface(0, 2, "hid", 2), Hid(Length(MouseReport)),
    Endpoint(1, TRUE, 8), Endpoint(1, FALSE, 8)>>
PlayConfiguration ==
  <<Configuration(1, 2), Interface(0, 1, "hid", 0), Hid(Length(PlayReport)),
    Endpoint(1, TRUE, 8)>>
FobConfiguration ==
  <<Configuration(1, 1), Interface(0, 1, "hid", 0), Hid(Length(KeyboardReport)),
    Endpoint(1, TRUE, 8)>>
CdcConfiguration ==
  <<Configuration(2, 0), Interface(0, 1, "cdc", 0), Functional(5, {}), Functional(4, {}),
    Functional(5, {0, 1}), Functional(5, {0, 1}), Endpoint(1, TRUE, 10),
    Interface(1, 2, "data", 0), Endpoint(2, FALSE, 64), Endpoint(2, TRUE, 64)>>

BootloaderDevice == {0, 1, 2}
CustomDevice == {1, 2, 0}
MouseDevice == {1, 2, 0}
PlayDevice == {1, 2, 0}
FobDevice == {0, 1}
CdcDevice == {0}

Text(characters) == 2 + 2 * characters
Language == Text(1)

BootloaderStrings == (0 :> Language) @@ (1 :> Text(10)) @@ (2 :> Text(8))
CustomStrings == (0 :> Language) @@ (1 :> Text(4)) @@ (2 :> Text(6))
MouseStrings == (0 :> Language) @@ (1 :> Text(23)) @@ (2 :> Text(14))
PlayStrings == (0 :> Language) @@ (1 :> Text(4)) @@ (2 :> Text(5))
FobStrings == (0 :> Language) @@ (1 :> Text(8))
CdcStrings == (0 :> Language)

-----------------------------------------------------------------------------
(* The class requests an application has a callback for, and how many bytes *)
(* it returns or takes; None when it refuses.                               *)

None == -1

NoCallbacks == <<>>

MouseCallbacks == [
  GET_REPORT |-> 3, SET_REPORT |-> None, GET_IDLE |-> 1, SET_IDLE |-> None,
  GET_PROTOCOL |-> 1, SET_PROTOCOL |-> None]

PlayCallbacks == [
  GET_REPORT |-> 3, SET_REPORT |-> None, GET_IDLE |-> 1, SET_IDLE |-> None,
  GET_PROTOCOL |-> 1, SET_PROTOCOL |-> None]

FobCallbacks == [
  SET_REPORT |-> 1, GET_IDLE |-> 1, SET_IDLE |-> None, GET_PROTOCOL |-> 1, SET_PROTOCOL |-> None]

(* usb_cdc.c takes the line coding itself, and hands it over afterwards.    *)
LineCoding == 7
CdcCallbacks == [SET_LINE_CODING |-> LineCoding, GET_LINE_CODING |-> None]

-----------------------------------------------------------------------------

(* number |-> the sizes of its buffers                                      *)
Symmetric(size) == (1 :> [in |-> size, out |-> size])
CdcBuffers == (1 :> [in |-> 10, out |-> 1]) @@ (2 :> [in |-> 64, out |-> 64])

Firmware == [
  bootloader |-> [class |-> "hid", callbacks |-> NoCallbacks,
                  configuration |-> BootloaderConfiguration, device |-> BootloaderDevice,
                  strings |-> BootloaderStrings, report |-> VendorReport,
                  buffers |-> Symmetric(64), sends |-> 64, receives |-> TRUE],
  customHID  |-> [class |-> "hid", callbacks |-> NoCallbacks,
                  configuration |-> CustomConfiguration, device |-> CustomDevice,
                  strings |-> CustomStrings, report |-> CustomReport,
                  buffers |-> Symmetric(64), sends |-> 64, receives |-> TRUE],
  hid_mouse  |-> [class |-> "hid", callbacks |-> MouseCallbacks,
                  configuration |-> MouseConfiguration, device |-> MouseDevice,
                  strings |-> MouseStrings, report |-> MouseReport,
                  buffers |-> Symmetric(8), sends |-> 3, receives |-> FALSE],
  mouseplay  |-> [class |-> "hid", callbacks |-> PlayCallbacks,
                  configuration |-> PlayConfiguration, device |-> PlayDevice,
                  strings |-> PlayStrings, report |-> PlayReport,
                  buffers |-> Symmetric(8), sends |-> 3, receives |-> FALSE],
  passfob    |-> [class |-> "hid", callbacks |-> FobCallbacks,
                  configuration |-> FobConfiguration, device |-> FobDevice,
                  strings |-> FobStrings, report |-> KeyboardReport,
                  buffers |-> Symmetric(8), sends |-> 8, receives |-> FALSE],
  minimalCDC |-> [class |-> "cdc", callbacks |-> CdcCallbacks,
                  configuration |-> CdcConfiguration, device |-> CdcDevice,
                  strings |-> CdcStrings, report |-> <<>>,
                  buffers |-> CdcBuffers, sends |-> 0, receives |-> FALSE]]
=============================================================================
