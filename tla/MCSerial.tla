------------------------------ MODULE MCSerial ------------------------------
(***************************************************************************)
(* What is on the serial ports, in one run: port picks the USB to serial   *)
(* adapter, the MIDI keyboard, the commands a host types to the board, the *)
(* keys it types to the core, the WiFi module on its screens or under the  *)
(* clock's, the texts of the module, or the days the clock counts.         *)
(***************************************************************************)
EXTENDS UsbAdapters, SerialBridge, WifiSetup, ClockPage

VARIABLE port  \* "uart", "midi", "bridge", "inject", "wifi", "clock", "text" or "days"

AT == <<"A", "T">>
SomeDivisors == {<<2, 0>>, <<0, 1>>}

\* Commands of one key, of two, of keys that are not there, of too many keys.
Command(k, n) == [kind |-> k, names |-> n]
InjectLines ==
  {Command("key", <<<<"a">>>>), Command("key", <<<<"ctrl", "a">>, <<"b">>>>), Command("key", <<<<"a", "b">>>>),
   Command("key", <<>>), Command("hold", <<<<"a">>>>), Command("hold", <<<<"shift">>>>),
   Command("hold", <<<<"a">>, <<"b">>>>), Command("type", <<<<"shift", "a">>, <<"a">>>>), Command("type", <<>>),
   Command("type", <<<<"zz">>>>), Command("release", <<>>)}

Dec1999 == [year |-> 1999, month |-> 12, day |-> 30, n |-> 10955, week |-> 4]
FieldMasks == {<<>>, <<11>>, <<10, 0, 0>>, <<2, 3, 11, 5, 9>>}

\* A module that is not there, one of the second network.
SomeModules ==
  {[alive |-> FALSE, ssid |-> NoName, fw |-> 1, cts |-> FALSE, mode |-> 1],
   [alive |-> TRUE, ssid |-> "n2", fw |-> 1, cts |-> FALSE, mode |-> 2]}
WifiRun == (EspSays /\ UNCHANGED wifiVars) \/ WifiNext

\* What the core, its keyboard and a host get over the serial ports is what was sent
\* there (usb_uart.c, midi_host.c, serial_bridge.c, hid_app.c).
SerialRight ==
  CASE port = "uart" -> UartRight [] port = "midi" -> MidiRight [] port = "bridge" -> BridgeRight [] port = "inject" -> InjectRight [] OTHER -> TRUE

\* The clock is set by what the user ordered last, to what was meant: NTP beside the
\* screens, and the arithmetic of dates and offsets (clock_edit.c, ntp_sync.c, time_zone.c).
TimeRight == CASE port = "clock" -> ClockRight [] port = "days" -> CalendarRight [] OTHER -> TRUE

\* The names of the networks are those that are meant, whatever is in them, beside the
\* screens that join them (wifi_setup.c, esp_at_parse.c).
WifiAndTexts == CASE port = "wifi" -> WifiRight [] port = "text" -> EspTextRight [] OTHER -> TRUE

serialVars == <<uartVars, midiVars, bridgeVars, injectVars>>
textVars   == <<espTextVars, calVars>>

Init ==
  /\ port \in {"uart", "midi", "bridge", "inject", "wifi", "clock", "text", "days"}
  /\ UartInit /\ MidiInit /\ InjectInit
  /\ BridgeInit /\ (port # "bridge" => ~adapter)
  /\ WifiInit /\ (port \notin {"wifi", "clock"} => ~esp.alive)
  /\ ClockInit /\ EspTextInit
  /\ CalInit /\ (port # "days" => field.text = <<>>)

Next ==
  /\ UNCHANGED port
  /\ \/ /\ port = "uart" /\ UartNext
        /\ UNCHANGED <<midiVars, bridgeVars, injectVars, atVars, wifiVars, clockVars, textVars>>
     \/ /\ port = "midi" /\ MidiNext
        /\ UNCHANGED <<uartVars, bridgeVars, injectVars, atVars, wifiVars, clockVars, textVars>>
     \/ /\ port = "bridge" /\ BridgeNext
        /\ UNCHANGED <<uartVars, midiVars, injectVars, atVars, wifiVars, clockVars, textVars>>
     \/ /\ port = "inject" /\ InjectNext
        /\ UNCHANGED <<uartVars, midiVars, bridgeVars, atVars, wifiVars, clockVars, textVars>>
     \/ port = "wifi" /\ WifiRun /\ UNCHANGED <<serialVars, clockVars, textVars>>
     \/ port = "clock" /\ ClockNext /\ UNCHANGED <<serialVars, wifiVars, textVars>>
     \/ port = "text" /\ EspTextNext /\ UNCHANGED <<serialVars, atVars, wifiVars, clockVars, calVars>>
     \/ port = "days" /\ CalNext /\ UNCHANGED <<serialVars, atVars, wifiVars, clockVars, espTextVars>>

Spec == Init /\ [][Next]_<<port, serialVars, atVars, wifiVars, clockVars, textVars>>
=============================================================================
