----------------------------- MODULE WifiManager -----------------------------
(***************************************************************************)
(* The WifiManager class and the callbacks wifi_state_cb and ota_state_cb. *)
(* Two tasks report: the network event task of the Arduino core runs the   *)
(* handlers of the Wi-Fi events one after the other, and the Wi-Fi task    *)
(* polls ArduinoOTA, which runs a whole update inside one call of handle() *)
(* and calls back on the way.  An OTA callback is two calls of setters,    *)
(* state and percentage, and nothing keeps the two tasks' calls apart.     *)
(*                                                                         *)
(* The network stack and ArduinoOTA are external: the radio's link and     *)
(* address, the events they post, and the order of an update's callbacks   *)
(* are modelled from how wifi_manager.cpp uses them.                       *)
(***************************************************************************)
EXTENDS Integers, Sequences

CONSTANTS
  Totals,       \* sizes of the images that may be uploaded, in bytes
  Received,     \* byte counts at which ArduinoOTA reports progress
  MaxEvents     \* bound: events that wait for the event task

\* An image is of a size Update.begin() accepts and that fills at least one
\* hundred blocks of one hundred bytes; below that the percentage is off, and
\* below one hundred bytes its divisor is zero.
ASSUME TotalsAssumption == Totals \subseteq {n \in Nat : n >= 10000}
ASSUME ReceivedAssumption == Received \subseteq Nat
ASSUME MaxEventsAssumption == MaxEvents \in Nat \ {0}

VARIABLES
  link,         \* external: the radio: "off", "down" or "up"
  ip,           \* external: the address: "none", "bound", or "held" by the lost-IP timer
  events,       \* external: events posted and not yet handled
  eventTodo,    \* the setter calls left in the event handler that is running
  server,       \* ArduinoOTA is listening (begin() and not end())
  session,      \* the update that handle() is running: its size, 0 if none
  progress,     \* the bytes it has received
  otaTodo,      \* the setter calls left in the OTA callback that is running
  restarting,   \* an update succeeded: the device restarts
  told          \* the value last handed to each setter

netVars == <<link, ip>>
vars == <<netVars, events, eventTodo, server, session, progress, otaTodo, restarting, told>>
-----------------------------------------------------------------------------
(* enum WifiState, enum OtaState; nothing reports WIFI_STATE_ERROR *)
WifiStates == {"DISCONNECTED", "CONNECTING", "GETTING_IP", "CONNECTED"}
OtaStates == {"OFF", "IDLE", "ERROR", "UPDATING", "SUCCESS"}

Event == {"STA_START", "STA_CONNECTED", "STA_DISCONNECTED", "STA_GOT_IP", "STA_LOST_IP"}

\* A call of setWifiState, setOtaState or setOtaProgress, or of ArduinoOTA's
\* begin() or end().
Set(subject, value) == [call |-> subject, value |-> value]
Begin == [call |-> "SERVER", value |-> TRUE]
End == [call |-> "SERVER", value |-> FALSE]

\* wifi_state_cb and ota_state_cb.
wifi_state_cb(state) == <<Set("WIFI", state)>>
ota_state_cb(state, pct) == <<Set("OTA", state), Set("OTA_PROGRESS", pct)>>

\* Faulty variant: losing the address leaves the server running.
handlerNoEnd(event) ==
  CASE event = "STA_START"        -> wifi_state_cb("CONNECTING")
    [] event = "STA_CONNECTED"    -> wifi_state_cb("GETTING_IP")
    [] event = "STA_DISCONNECTED" -> wifi_state_cb("DISCONNECTED")
    [] event = "STA_GOT_IP"       -> wifi_state_cb("CONNECTED") \o <<Begin>> \o ota_state_cb("IDLE", 0)
    [] event = "STA_LOST_IP"      -> wifi_state_cb("GETTING_IP") \o ota_state_cb("IDLE", 0)

\* Faulty variant: nothing handles the loss of the link.
handlerNoDisconnect(event) ==
  CASE event = "STA_START"        -> wifi_state_cb("CONNECTING")
    [] event = "STA_CONNECTED"    -> wifi_state_cb("GETTING_IP")
    [] event = "STA_DISCONNECTED" -> <<>>
    [] event = "STA_GOT_IP"       -> wifi_state_cb("CONNECTED") \o <<Begin>> \o ota_state_cb("IDLE", 0)
    [] event = "STA_LOST_IP"      -> wifi_state_cb("GETTING_IP") \o <<End>> \o ota_state_cb("IDLE", 0)

\* What the handler of an event does, in order.
handler(event) ==
  CASE event = "STA_START"        -> wifi_state_cb("CONNECTING")
    [] event = "STA_CONNECTED"    -> wifi_state_cb("GETTING_IP")
    [] event = "STA_DISCONNECTED" -> wifi_state_cb("DISCONNECTED")
    [] event = "STA_GOT_IP"       -> wifi_state_cb("CONNECTED") \o <<Begin>> \o ota_state_cb("IDLE", 0)
    [] event = "STA_LOST_IP"      -> wifi_state_cb("GETTING_IP") \o <<End>> \o ota_state_cb("IDLE", 0)

\* Faulty variant: the divisor is rounded up.
prog_pctRoundedUp(received, total) == received \div (total \div 100 + 1)

\* The percentage the progress callback computes.
prog_pct(received, total) == received \div (total \div 100)

\* What a setter, or the server, can be handed.
Value(call) ==
  CASE call = "WIFI"         -> WifiStates
    [] call = "OTA"          -> OtaStates
    [] call = "OTA_PROGRESS" -> 0 .. 100
    [] call = "SERVER"       -> BOOLEAN

AreCalls(todo) ==
  \A k \in DOMAIN todo : todo[k].call \in {"WIFI", "OTA", "OTA_PROGRESS", "SERVER"}
                         /\ todo[k].value \in Value(todo[k].call)

TypeOK ==
  /\ link \in {"off", "down", "up"}
  /\ ip \in {"none", "held", "bound"}
  /\ events \in Seq(Event) /\ Len(events) <= MaxEvents
  /\ AreCalls(eventTodo)
  /\ server \in BOOLEAN
  /\ session \in Totals \cup {0} /\ progress \in Received \cup {0}
  /\ AreCalls(otaTodo)
  /\ restarting \in BOOLEAN
  /\ told \in [WIFI : WifiStates, OTA : OtaStates, OTA_PROGRESS : 0 .. 100]

Init ==
  /\ link = "off" /\ ip = "none"
  /\ events = <<>> /\ eventTodo = <<>>
  /\ server = FALSE
  /\ session = 0 /\ progress = 0 /\ otaTodo = <<>>
  /\ restarting = FALSE
  /\ told = [WIFI |-> "DISCONNECTED", OTA |-> "OFF", OTA_PROGRESS |-> 0]
-----------------------------------------------------------------------------
(* The network *)

post(event) == Len(events) < MaxEvents /\ events' = Append(events, event)

\* _wifi_task switches the radio on: WiFi.mode and WiFi.begin.
wifiBegin ==
  /\ link = "off" /\ link' = "down"
  /\ post("STA_START")
  /\ UNCHANGED <<ip, eventTodo, server, session, progress, otaTodo, restarting, told>>

associate ==
  /\ link = "down" /\ link' = "up"
  /\ post("STA_CONNECTED")
  /\ UNCHANGED <<ip, eventTodo, server, session, progress, otaTodo, restarting, told>>

\* The link is lost, or an attempt to connect fails.  The address outlives the
\* link until a timer takes it away.
disassociate ==
  /\ link # "off" /\ link' = "down"
  /\ ip' = IF ip = "bound" THEN "held" ELSE ip
  /\ post("STA_DISCONNECTED")
  /\ UNCHANGED <<eventTodo, server, session, progress, otaTodo, restarting, told>>

gotIp ==
  /\ link = "up" /\ ip # "bound" /\ ip' = "bound"
  /\ post("STA_GOT_IP")
  /\ UNCHANGED <<link, eventTodo, server, session, progress, otaTodo, restarting, told>>

lostIp ==
  /\ ip = "held" /\ ip' = "none"
  /\ post("STA_LOST_IP")
  /\ UNCHANGED <<link, eventTodo, server, session, progress, otaTodo, restarting, told>>

Network == wifiBegin \/ associate \/ disassociate \/ gotIp \/ lostIp
-----------------------------------------------------------------------------
(* The event task *)

\* The effect of one call.
perform(c) ==
  IF c.call = "SERVER"
  THEN server' = c.value /\ UNCHANGED told
  ELSE told' = [told EXCEPT ![c.call] = c.value] /\ UNCHANGED server

dispatch ==
  /\ eventTodo = <<>> /\ events # <<>>
  /\ eventTodo' = handler(Head(events))
  /\ events' = Tail(events)
  /\ UNCHANGED <<netVars, server, session, progress, otaTodo, restarting, told>>

handlerCall ==
  /\ eventTodo # <<>>
  /\ perform(Head(eventTodo))
  /\ eventTodo' = Tail(eventTodo)
  /\ UNCHANGED <<netVars, events, session, progress, otaTodo, restarting>>

EventTask == dispatch \/ handlerCall
-----------------------------------------------------------------------------
(* The Wi-Fi task: ArduinoOTA.handle() every 100 ms *)

callback(state, pct) == otaTodo' = ota_state_cb(state, pct)

\* An upload is refused: authentication fails or Update.begin() does.
otaRefused ==
  /\ otaTodo = <<>> /\ server /\ session = 0 /\ ~ restarting
  /\ callback("ERROR", 0)
  /\ UNCHANGED <<netVars, events, eventTodo, server, session, progress, restarting, told>>

\* onStart.
otaStart(total) ==
  /\ otaTodo = <<>> /\ server /\ session = 0 /\ ~ restarting
  /\ session' = total /\ progress' = 0
  /\ callback("UPDATING", 0)
  /\ UNCHANGED <<netVars, events, eventTodo, server, restarting, told>>

\* onProgress.
otaProgress(received) ==
  /\ otaTodo = <<>> /\ session # 0
  /\ progress < received /\ received <= session
  /\ progress' = received
  /\ callback("UPDATING", prog_pct(received, session))
  /\ UNCHANGED <<netVars, events, eventTodo, server, session, restarting, told>>

\* Faulty variant: a failed update leaves the state alone.
otaErrorSilent ==
  /\ otaTodo = <<>> /\ session # 0
  /\ session' = 0 /\ progress' = 0
  /\ UNCHANGED <<netVars, events, eventTodo, server, otaTodo, restarting, told>>

\* onError: the connection, the reception or the check at the end fails.
otaError ==
  /\ otaTodo = <<>> /\ session # 0
  /\ session' = 0 /\ progress' = 0
  /\ callback("ERROR", 0)
  /\ UNCHANGED <<netVars, events, eventTodo, server, restarting, told>>

\* onEnd.
otaEnd ==
  /\ otaTodo = <<>> /\ session # 0 /\ progress = session
  /\ session' = 0 /\ progress' = 0
  /\ callback("SUCCESS", 0)
  /\ restarting' = TRUE
  /\ UNCHANGED <<netVars, events, eventTodo, server, told>>

callbackCall ==
  /\ otaTodo # <<>>
  /\ perform(Head(otaTodo))
  /\ otaTodo' = Tail(otaTodo)
  /\ UNCHANGED <<netVars, events, eventTodo, session, progress, restarting>>

\* ArduinoOTA restarts the device after a successful update.
restart ==
  /\ restarting /\ otaTodo = <<>>
  /\ link' = "off" /\ ip' = "none"
  /\ events' = <<>> /\ eventTodo' = <<>>
  /\ server' = FALSE
  /\ restarting' = FALSE
  /\ told' = [WIFI |-> "DISCONNECTED", OTA |-> "OFF", OTA_PROGRESS |-> 0]
  /\ UNCHANGED <<session, progress, otaTodo>>

WifiTask ==
  \/ otaRefused \/ otaError \/ otaEnd \/ callbackCall \/ restart
  \/ \E total \in Totals : otaStart(total)
  \/ \E received \in Received : otaProgress(received)
-----------------------------------------------------------------------------
Next == Network \/ EventTask \/ WifiTask

\* The event task handles what is posted, and a callback that has begun goes on
\* to its end.  The network, and whoever uploads, owe nothing.
Fairness == WF_vars(EventTask) /\ WF_vars(callbackCall) /\ WF_vars(restart)

Spec == Init /\ [][Next]_vars /\ Fairness
-----------------------------------------------------------------------------
(* Properties *)

\* Every posted event has been handled.
Settled == events = <<>> /\ eventTodo = <<>>

\* Once the events are handled, the state reported last is CONNECTED (the green
\* LED) exactly while the robot has a link and an address on it, however often
\* link and address came and went and in whichever order their loss was noticed.
GreenMeansOnline == Settled => (told.WIFI = "CONNECTED" <=> link = "up" /\ ip = "bound")

\* Once the events are handled, ArduinoOTA listens exactly while there is an
\* address: it is neither left off after a reconnection nor left on without one.
ServerFollowsAddress == Settled => (server <=> ip # "none")

\* Without an update running the Wi-Fi task's last word is not UPDATING and the
\* percentage is back to 0, whatever the event task reports meanwhile.
NoGhostUpdate ==
  session = 0 /\ otaTodo = <<>> => told.OTA # "UPDATING" /\ told.OTA_PROGRESS = 0

\* The percentage shown is 0 or that of the bytes received so far, at most one
\* too high: the two-step reports of the two tasks never leave the percentage of
\* another update, or of an earlier part of this one, behind.
ProgressHonest ==
  session # 0 /\ otaTodo = <<>> =>
    LET exact == (100 * progress) \div session
    IN  told.OTA_PROGRESS \in {0, exact, exact + 1}

\* If the robot stays online, green is reported for good and updates can be
\* received; if it stays offline, green is not.
StatusSettles ==
  /\ <>[](link = "up" /\ ip = "bound") => <>[](told.WIFI = "CONNECTED" /\ server)
  /\ <>[](link # "up") => <>[](told.WIFI # "CONNECTED")
==============================================================================
