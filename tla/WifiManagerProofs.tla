-------------------------- MODULE WifiManagerProofs --------------------------
(***************************************************************************)
(* Proofs about WifiManager: whatever the two tasks' calls are interleaved *)
(* with, the percentage shown is honest and a finished update leaves no    *)
(* trace.  The argument: the event task only ever reports OTA_STATE_IDLE   *)
(* and 0, which are true of every update, so that it is enough to follow   *)
(* what the Wi-Fi task has reported and what its callback still will.      *)
(* The LED and the update server follow the network: the last event still  *)
(* to be handled says what the network is like now, and when there is none *)
(* the last call of the running handler does.                              *)
(***************************************************************************)
EXTENDS WifiManager, TLAPS

\* Quotient and remainder of a division.
LEMMA DivisionBounds ==
  ASSUME NEW n \in Nat, NEW d \in Nat, d > 0
  PROVE  /\ n \div d \in Nat
         /\ d * (n \div d) <= n
         /\ n < d * (n \div d) + d
OBVIOUS

\* Products are monotonic.
LEMMA ProductGrows ==
  ASSUME NEW a \in Nat, NEW b \in Nat, NEW c \in Nat, NEW d \in Nat, a <= b, c <= d
  PROVE  a * c <= b * d
OBVIOUS

\* Dividing by a hundredth that is rounded down overstates the percentage by at
\* most one, and never beyond 100, once the image has 10000 bytes.
LEMMA PercentageIsHonest ==
  ASSUME NEW total \in Nat, total >= 10000, NEW received \in Nat, received <= total
  PROVE  LET exact == (100 * received) \div total
         IN  prog_pct(received, total) \in {exact, exact + 1} /\ prog_pct(received, total) \in 0 .. 100
<1> DEFINE q == total \div 100
           a == received \div q
           e == (100 * received) \div total
<1>1. q \in Nat /\ q >= 100 /\ 100 * q <= total /\ total < 100 * q + 100
  BY DivisionBounds
<1>2. a \in Nat /\ q * a <= received /\ received < q * a + q
  <2>1. q \in Nat /\ q > 0
    BY <1>1
  <2> HIDE DEF q
  <2> QED BY <2>1, DivisionBounds
<1>3. e \in Nat /\ total * e <= 100 * received /\ 100 * received < total * e + total
  <2>1. 100 * received \in Nat /\ total > 0
    OBVIOUS
  <2> QED BY <2>1, DivisionBounds
<1>4. prog_pct(received, total) = a
  BY DEF prog_pct
<1> HIDE DEF q, a, e
<1>5. a <= 100
  <2>1. SUFFICES ASSUME a >= 101 PROVE FALSE
    BY <1>2
  <2>2. q * 101 <= q * a
    BY <2>1, <1>1, <1>2, ProductGrows
  <2> QED BY <2>2, <1>1, <1>2
<1>6. e <= a
  <2>1. SUFFICES ASSUME a + 1 <= e PROVE FALSE
    BY <1>2, <1>3
  <2>2. (100 * q) * (a + 1) <= total * e
    BY <2>1, <1>1, <1>2, <1>3, ProductGrows
  <2>3. (100 * q) * (a + 1) = 100 * (q * a + q)
    BY <1>1, <1>2
  <2>4. q * a + q \in Nat
    BY <1>1, <1>2
  <2> QED BY <2>2, <2>3, <2>4, <1>2, <1>3
<1>7. a <= e + 1
  <2>1. SUFFICES ASSUME a >= e + 2 PROVE FALSE
    BY <1>2, <1>3
  <2>2. total * (e + 1) <= (100 * q + 100) * (a - 1)
    <3>1. e + 1 \in Nat /\ a - 1 \in Nat /\ e + 1 <= a - 1 /\ 100 * q + 100 \in Nat /\ total <= 100 * q + 100
      BY <2>1, <1>1, <1>2, <1>3
    <3> QED BY <3>1, ProductGrows
  <2>3. (100 * q + 100) * (a - 1) = 100 * (q * a - q + a - 1)
    BY <1>1, <1>2
  <2>4. total * (e + 1) = total * e + total
    BY <1>3
  <2>5. q * a \in Nat /\ total * e \in Nat
    BY <1>1, <1>2, <1>3
  <2> QED BY <2>2, <2>3, <2>4, <2>5, <1>1, <1>2, <1>3, <1>5
<1> QED BY <1>2, <1>3, <1>4, <1>5, <1>6, <1>7 DEF e
-----------------------------------------------------------------------------
\* The calls the event handlers make.
EventCall ==
  [call : {"WIFI"}, value : WifiStates]
    \cup {Begin, End, Set("OTA", "IDLE"), Set("OTA_PROGRESS", 0)}

\* A percentage that may be shown for an update of size total with so many bytes
\* received; total 0 stands for no update.
Honest(v, received, total) ==
  IF total = 0 THEN v = 0
  ELSE LET exact == (100 * received) \div total
       IN  v \in {0, exact, exact + 1}

\* The types the argument needs.
Types ==
  /\ events \in Seq(Event)
  /\ eventTodo \in Seq(EventCall)
  /\ session \in Totals \cup {0} /\ progress \in Nat /\ progress <= session
  /\ told \in [WIFI : WifiStates, OTA : OtaStates, OTA_PROGRESS : Nat]

\* Where the Wi-Fi task is in its callback: done, before the second of the two
\* calls, or before the first.
Done ==
  /\ otaTodo = <<>>
  /\ Honest(told.OTA_PROGRESS, progress, session)
  /\ session = 0 => told.OTA # "UPDATING"

BeforeSecond ==
  /\ \E v \in Nat : Honest(v, progress, session) /\ otaTodo = <<Set("OTA_PROGRESS", v)>>
  /\ session = 0 => told.OTA # "UPDATING"

BeforeFirst ==
  \E s \in OtaStates, v \in Nat :
    /\ Honest(v, progress, session)
    /\ session = 0 => s # "UPDATING"
    /\ otaTodo = <<Set("OTA", s), Set("OTA_PROGRESS", v)>>

\* The inductive invariant.
CallbackInv == Types /\ (Done \/ BeforeSecond \/ BeforeFirst)

\* The handlers make no other calls than those.
LEMMA HandlerCalls == \A event \in Event : handler(event) \in Seq(EventCall)
<1> SUFFICES ASSUME NEW event \in Event PROVE handler(event) \in Seq(EventCall)
  OBVIOUS
<1>1. \A state \in WifiStates : wifi_state_cb(state) \in Seq(EventCall)
  BY DEF wifi_state_cb, EventCall, Set
<1>2. ota_state_cb("IDLE", 0) \in Seq(EventCall)
  BY DEF ota_state_cb, EventCall
<1>3. <<Begin>> \in Seq(EventCall) /\ <<End>> \in Seq(EventCall)
  BY DEF EventCall
<1>4. \A s, t \in Seq(EventCall) : s \o t \in Seq(EventCall)
  OBVIOUS
<1>5. {"DISCONNECTED", "CONNECTING", "GETTING_IP", "CONNECTED"} = WifiStates
  BY DEF WifiStates
<1>6. CASE event = "STA_GOT_IP"
  <2>1. wifi_state_cb("CONNECTED") \o <<Begin>> \in Seq(EventCall)
    BY <1>1, <1>3, <1>4, <1>5
  <2>2. (wifi_state_cb("CONNECTED") \o <<Begin>>) \o ota_state_cb("IDLE", 0) \in Seq(EventCall)
    BY <2>1, <1>2, <1>4
  <2> QED BY <1>6, <2>2 DEF handler
<1>7. CASE event = "STA_LOST_IP"
  <2>1. wifi_state_cb("GETTING_IP") \o <<End>> \in Seq(EventCall)
    BY <1>1, <1>3, <1>4, <1>5
  <2>2. (wifi_state_cb("GETTING_IP") \o <<End>>) \o ota_state_cb("IDLE", 0) \in Seq(EventCall)
    BY <2>1, <1>2, <1>4
  <2> QED BY <1>7, <2>2 DEF handler
<1>8. CASE event \notin {"STA_GOT_IP", "STA_LOST_IP"}
  BY <1>1, <1>5, <1>8 DEF handler, Event
<1> QED BY <1>6, <1>7, <1>8

\* 0 may always be shown.
LEMMA ZeroIsHonest ==
  ASSUME NEW received \in Nat, NEW total \in Nat
  PROVE  Honest(0, received, total)
BY DEF Honest

\* The bounds on sizes and byte counts that the assumptions give.
LEMMA Sizes ==
  /\ \A total \in Totals : total \in Nat /\ total >= 10000
  /\ Received \subseteq Nat
BY TotalsAssumption, ReceivedAssumption

\* Nothing is running at first.
LEMMA InitCallback == Init => CallbackInv
<1> SUFFICES ASSUME Init PROVE CallbackInv
  OBVIOUS
<1>1. Types
  BY DEF Init, Types, WifiStates, OtaStates
<1>2. Done
  BY DEF Init, Done, Honest
<1> QED BY <1>1, <1>2 DEF CallbackInv

\* Every step of the three parties keeps the invariant.
LEMMA NextCallback == CallbackInv /\ [Next]_vars => CallbackInv'
<1> SUFFICES ASSUME CallbackInv, [Next]_vars PROVE CallbackInv'
  OBVIOUS
<1> USE DEF CallbackInv
<1>a. session \in Nat /\ progress \in Nat
  BY Sizes DEF Types
<1>1. CASE Network
  <2>1. UNCHANGED <<eventTodo, session, progress, otaTodo, told>>
    BY <1>1 DEF Network, wifiBegin, associate, disassociate, gotIp, lostIp
  <2>2. events' \in Seq(Event)
    <3>1. \E e \in Event : events' = Append(events, e)
      BY <1>1 DEF Network, wifiBegin, associate, disassociate, gotIp, lostIp, post, Event
    <3> QED BY <3>1 DEF Types
  <2> QED BY <2>1, <2>2 DEF Types, Done, BeforeSecond, BeforeFirst
<1>2. CASE dispatch
  <2>1. UNCHANGED <<session, progress, otaTodo, told>>
    BY <1>2 DEF dispatch
  <2>2. events' \in Seq(Event) /\ Head(events) \in Event
    BY <1>2 DEF dispatch, Types
  <2>3. eventTodo' \in Seq(EventCall)
    BY <1>2, <2>2, HandlerCalls DEF dispatch
  <2> QED BY <2>1, <2>2, <2>3 DEF Types, Done, BeforeSecond, BeforeFirst
<1>3. CASE handlerCall
  <2>1. UNCHANGED <<events, session, progress, otaTodo>>
    BY <1>3 DEF handlerCall
  <2>2. eventTodo' \in Seq(EventCall) /\ Head(eventTodo) \in EventCall
    BY <1>3 DEF handlerCall, Types
  <2>3. \/ told' = told
        \/ \E w \in WifiStates : told' = [told EXCEPT !["WIFI"] = w]
        \/ told' = [told EXCEPT !["OTA"] = "IDLE"]
        \/ told' = [told EXCEPT !["OTA_PROGRESS"] = 0]
    BY <1>3, <2>2 DEF handlerCall, perform, EventCall, Begin, End, Set
  <2>4. told' \in [WIFI : WifiStates, OTA : OtaStates, OTA_PROGRESS : Nat]
    BY <2>3 DEF Types, OtaStates
  <2>5. told'.OTA_PROGRESS \in {told.OTA_PROGRESS, 0} /\ told'.OTA \in {told.OTA, "IDLE"}
    BY <2>3 DEF Types
  <2>6. CASE Done
    BY <2>1, <2>2, <2>4, <2>5, <2>6, <1>a, ZeroIsHonest DEF Types, Done
  <2>7. CASE BeforeSecond
    BY <2>1, <2>2, <2>4, <2>5, <2>7 DEF Types, BeforeSecond
  <2>8. CASE BeforeFirst
    BY <2>1, <2>2, <2>4, <2>8 DEF Types, BeforeFirst
  <2> QED BY <2>6, <2>7, <2>8
<1>4. CASE otaRefused
  <2>1. UNCHANGED <<events, eventTodo, session, progress, told>> /\ otaTodo' = ota_state_cb("ERROR", 0)
    BY <1>4 DEF otaRefused, callback
  <2>2. BeforeFirst'
    BY <2>1, <1>a, ZeroIsHonest DEF BeforeFirst, ota_state_cb, OtaStates
  <2> QED BY <2>1, <2>2 DEF Types
<1>5. ASSUME NEW total \in Totals, otaStart(total) PROVE CallbackInv'
  <2>1. /\ UNCHANGED <<events, eventTodo, told>>
        /\ session' = total /\ progress' = 0 /\ otaTodo' = ota_state_cb("UPDATING", 0)
    BY <1>5 DEF otaStart, callback
  <2>2. total \in Nat /\ total >= 10000
    BY Sizes
  <2>3. BeforeFirst'
    BY <2>1, <2>2, ZeroIsHonest DEF BeforeFirst, ota_state_cb, OtaStates
  <2> QED BY <2>1, <2>2, <2>3 DEF Types
<1>6. ASSUME NEW received \in Received, otaProgress(received) PROVE CallbackInv'
  <2>1. /\ UNCHANGED <<events, eventTodo, told, session>>
        /\ session # 0 /\ received <= session
        /\ progress' = received /\ otaTodo' = ota_state_cb("UPDATING", prog_pct(received, session))
    BY <1>6 DEF otaProgress, callback
  <2>2. session \in Nat /\ session >= 10000 /\ received \in Nat
    BY <2>1, Sizes DEF Types
  <2> DEFINE pct == prog_pct(received, session)
  <2>3. pct \in Nat /\ Honest(pct, received, session)
    BY <2>1, <2>2, PercentageIsHonest DEF Honest
  <2> HIDE DEF pct
  <2>4. BeforeFirst'
    BY <2>1, <2>2, <2>3 DEF BeforeFirst, ota_state_cb, OtaStates, pct
  <2> QED BY <2>1, <2>2, <2>4 DEF Types
<1>7. CASE otaError \/ otaEnd
  <2>1. /\ UNCHANGED <<events, eventTodo, told>> /\ session' = 0 /\ progress' = 0
        /\ \E s \in {"ERROR", "SUCCESS"} : otaTodo' = ota_state_cb(s, 0)
    BY <1>7 DEF otaError, otaEnd, callback
  <2>2. BeforeFirst'
    BY <2>1, ZeroIsHonest DEF BeforeFirst, ota_state_cb, OtaStates
  <2> QED BY <2>1, <2>2 DEF Types
<1>8. CASE callbackCall
  <2>1. /\ UNCHANGED <<events, eventTodo, session, progress>>
        /\ otaTodo # <<>> /\ otaTodo' = Tail(otaTodo) /\ perform(Head(otaTodo))
    BY <1>8 DEF callbackCall
  <2>2. CASE BeforeSecond
    <3>1. PICK v \in Nat : Honest(v, progress, session) /\ otaTodo = <<Set("OTA_PROGRESS", v)>>
      BY <2>2 DEF BeforeSecond
    <3>2. otaTodo' = <<>> /\ told' = [told EXCEPT !["OTA_PROGRESS"] = v]
      BY <2>1, <3>1 DEF perform, Set
    <3>3. told' \in [WIFI : WifiStates, OTA : OtaStates, OTA_PROGRESS : Nat]
          /\ told'.OTA_PROGRESS = v /\ told'.OTA = told.OTA
      BY <3>2 DEF Types
    <3> QED BY <2>1, <2>2, <3>1, <3>2, <3>3 DEF Types, Done, BeforeSecond
  <2>3. CASE BeforeFirst
    <3>1. PICK s \in OtaStates, v \in Nat :
            /\ Honest(v, progress, session)
            /\ session = 0 => s # "UPDATING"
            /\ otaTodo = <<Set("OTA", s), Set("OTA_PROGRESS", v)>>
      BY <2>3 DEF BeforeFirst
    <3>2. otaTodo' = <<Set("OTA_PROGRESS", v)>>
      BY <2>1, <3>1
    <3>3. told' = [told EXCEPT !["OTA"] = s]
      BY <2>1, <3>1 DEF perform, Set
    <3>4. told' \in [WIFI : WifiStates, OTA : OtaStates, OTA_PROGRESS : Nat] /\ told'.OTA = s
      BY <3>3 DEF Types
    <3> QED BY <2>1, <3>1, <3>2, <3>4 DEF Types, BeforeSecond
  <2> QED BY <2>1, <2>2, <2>3 DEF Done
<1>9. CASE restart
  <2>1. /\ otaTodo' = <<>> /\ UNCHANGED <<session, progress>> /\ events' = <<>> /\ eventTodo' = <<>>
        /\ told' = [WIFI |-> "DISCONNECTED", OTA |-> "OFF", OTA_PROGRESS |-> 0]
    BY <1>9 DEF restart
  <2>2. Types'
    BY <2>1 DEF Types, WifiStates, OtaStates
  <2>3. Done'
    BY <2>1, <1>a, ZeroIsHonest DEF Done
  <2> QED BY <2>2, <2>3
<1>10. CASE UNCHANGED vars
  BY <1>10 DEF vars, netVars, Types, Done, BeforeSecond, BeforeFirst
<1> QED
  BY <1>1, <1>2, <1>3, <1>4, <1>5, <1>6, <1>7, <1>8, <1>9, <1>10 DEF Next, EventTask, WifiTask

\* The invariant of the callbacks holds throughout.
LEMMA CallbackInvariant == Spec => []CallbackInv
BY InitCallback, NextCallback, PTL DEF Spec

\* For all images of 10000 bytes or more and all interleavings of the event task
\* with the Wi-Fi task, the percentage reported last is 0 or the true one, at most
\* one too high.
THEOREM ProgressIsHonest == Spec => []ProgressHonest
<1>1. CallbackInv => ProgressHonest
  BY DEF CallbackInv, ProgressHonest, Done, BeforeSecond, BeforeFirst, Honest
<1> QED BY <1>1, CallbackInvariant, PTL

\* A finished or failed update leaves neither UPDATING nor a percentage behind.
THEOREM UpdatesLeaveNoGhost == Spec => []NoGhostUpdate
<1>1. CallbackInv => NoGhostUpdate
  BY DEF CallbackInv, NoGhostUpdate, Done, BeforeSecond, BeforeFirst, Honest
<1> QED BY <1>1, CallbackInvariant, PTL
-----------------------------------------------------------------------------
\* The events whose handlers start or stop the server.
AddressEvents == {"STA_GOT_IP", "STA_LOST_IP"}

\* The state an event's handler reports.
Reports(event) ==
  CASE event = "STA_START"        -> "CONNECTING"
    [] event = "STA_CONNECTED"    -> "GETTING_IP"
    [] event = "STA_DISCONNECTED" -> "DISCONNECTED"
    [] event = "STA_GOT_IP"       -> "CONNECTED"
    [] event = "STA_LOST_IP"      -> "GETTING_IP"

\* A handler reports its state first and then, for an address event, starts or
\* stops the server.
LEMMA HandlerShape ==
  ASSUME NEW event \in Event
  PROVE  /\ handler(event) # <<>> /\ handler(event) \in Seq(EventCall)
         /\ handler(event)[1] = Set("WIFI", Reports(event))
         /\ \A k \in DOMAIN handler(event) : handler(event)[k].call = "WIFI" => k = 1
         /\ \A k \in DOMAIN handler(event) :
              handler(event)[k].call = "SERVER" =>
                event \in AddressEvents /\ handler(event)[k] = IF event = "STA_GOT_IP" THEN Begin ELSE End
         /\ event \in AddressEvents => \E k \in DOMAIN handler(event) : handler(event)[k].call = "SERVER"
<1>0. handler(event) \in Seq(EventCall)
  BY HandlerCalls
\* The four calls of an address event's handler.
<1>a. ASSUME NEW a, NEW b, NEW c, NEW d PROVE (<<a>> \o <<b>>) \o <<c, d>> = <<a, b, c, d>>
  <2> DEFINE S == {a, b, c, d}
  <2>1. <<a>> \o <<b>> = <<a, b>>
    <3> DEFINE p == <<a>> \o <<b>>
               q == <<a, b>>
    <3>1. p \in Seq(S) /\ q \in Seq(S) /\ Len(p) = 2 /\ Len(q) = 2
      OBVIOUS
    <3>2. p[1] = a /\ p[2] = b /\ q[1] = a /\ q[2] = b
      OBVIOUS
    <3> HIDE DEF p, q
    <3>3. p = q
      BY <3>1, <3>2
    <3> QED BY <3>3 DEF p, q
  <2> DEFINE s == <<a, b>> \o <<c, d>>
             t == <<a, b, c, d>>
  <2>2. s \in Seq(S) /\ t \in Seq(S) /\ Len(s) = 4 /\ Len(t) = 4
    OBVIOUS
  <2>3. s[1] = a /\ s[2] = b /\ s[3] = c /\ s[4] = d /\ t[1] = a /\ t[2] = b /\ t[3] = c /\ t[4] = d
    OBVIOUS
  <2> HIDE DEF s, t
  <2>4. s = t
    BY <2>2, <2>3
  <2> QED BY <2>1, <2>4 DEF s, t
<1>1. CASE event = "STA_GOT_IP"
  <2>1. handler(event) = <<Set("WIFI", "CONNECTED"), Begin, Set("OTA", "IDLE"), Set("OTA_PROGRESS", 0)>>
    BY <1>1, <1>a DEF handler, wifi_state_cb, ota_state_cb
  <2> QED BY <1>0, <1>1, <2>1 DEF Set, Begin, Reports, AddressEvents
<1>2. CASE event = "STA_LOST_IP"
  <2>1. handler(event) = <<Set("WIFI", "GETTING_IP"), End, Set("OTA", "IDLE"), Set("OTA_PROGRESS", 0)>>
    BY <1>2, <1>a DEF handler, wifi_state_cb, ota_state_cb
  <2> QED BY <1>0, <1>2, <2>1 DEF Set, End, Reports, AddressEvents
<1>3. CASE event \notin AddressEvents
  <2>1. handler(event) = <<Set("WIFI", Reports(event))>>
    BY <1>3 DEF handler, wifi_state_cb, Reports, AddressEvents, Event
  <2> QED BY <1>0, <1>3, <2>1 DEF Set
<1> QED BY <1>1, <1>2, <1>3 DEF AddressEvents

Online == link = "up" /\ ip = "bound"

\* The state that will have been reported once the events are handled.
WifiWord ==
  IF events # <<>> THEN Reports(events[Len(events)])
  ELSE IF eventTodo # <<>> /\ eventTodo[1].call = "WIFI" THEN eventTodo[1].value
  ELSE told.WIFI

\* The network, and the running handler's calls of setWifiState.
WifiWordInv ==
  /\ link \in {"off", "down", "up"} /\ ip \in {"none", "held", "bound"}
  /\ ip = "bound" => link = "up"
  /\ \A k \in DOMAIN eventTodo : eventTodo[k].call = "WIFI" => k = 1
  /\ WifiWord = "CONNECTED" <=> Online

\* An address event that waits, with none behind it.
LastAddressEvent(k) ==
  events[k] \in AddressEvents /\ \A j \in DOMAIN events : j > k => events[j] \notin AddressEvents

NoAddressEvent == \A k \in DOMAIN events : events[k] \notin AddressEvents

\* The server will be where the last address event puts it; with none waiting,
\* where the running handler does; and without either it is there already.
ServerWordInv ==
  /\ \A k \in DOMAIN events : LastAddressEvent(k) => (events[k] = "STA_GOT_IP" <=> ip # "none")
  /\ NoAddressEvent =>
       \A k \in DOMAIN eventTodo :
         eventTodo[k].call = "SERVER" => eventTodo[k] = IF ip # "none" THEN Begin ELSE End
  /\ NoAddressEvent /\ (\A k \in DOMAIN eventTodo : eventTodo[k].call # "SERVER") =>
       (server <=> ip # "none")

\* The inductive invariant.
NetworkInv == CallbackInv /\ WifiWordInv /\ ServerWordInv

\* At first the network is off and nothing has been reported.
LEMMA InitNetwork == Init => WifiWordInv /\ ServerWordInv
<1> SUFFICES ASSUME Init PROVE WifiWordInv /\ ServerWordInv
  OBVIOUS
<1>1. DOMAIN events = {} /\ DOMAIN eventTodo = {}
  BY DEF Init
<1>2. WifiWord = "DISCONNECTED"
  BY DEF Init, WifiWord
<1> QED BY <1>1, <1>2 DEF Init, WifiWordInv, Online, ServerWordInv, NoAddressEvent

\* A network step posts one event that says what it did.
LEMMA NetworkStep ==
  ASSUME NetworkInv, Network
  PROVE  WifiWordInv' /\ ServerWordInv'
<1> USE DEF NetworkInv
<1>0. events \in Seq(Event)
  BY DEF CallbackInv, Types
<1>1. PICK e \in Event :
        /\ events' = Append(events, e) /\ UNCHANGED <<eventTodo, server, told>>
        /\ link' \in {"off", "down", "up"} /\ ip' \in {"none", "held", "bound"}
        /\ ip' = "bound" => link' = "up"
        /\ Reports(e) = "CONNECTED" <=> link' = "up" /\ ip' = "bound"
        /\ IF e \in AddressEvents THEN e = "STA_GOT_IP" <=> ip' # "none" ELSE (ip' # "none") = (ip # "none")
  <2>1. CASE wifiBegin
    BY <2>1 DEF wifiBegin, post, WifiWordInv, Reports, Event, AddressEvents
  <2>2. CASE associate
    BY <2>2 DEF associate, post, WifiWordInv, Reports, Event, AddressEvents
  <2>3. CASE disassociate
    BY <2>3 DEF disassociate, post, WifiWordInv, Reports, Event, AddressEvents
  <2>4. CASE gotIp
    BY <2>4 DEF gotIp, post, WifiWordInv, Reports, Event, AddressEvents
  <2>5. CASE lostIp
    BY <2>5 DEF lostIp, post, WifiWordInv, Reports, Event, AddressEvents
  <2> QED BY <2>1, <2>2, <2>3, <2>4, <2>5 DEF Network
<1>2. /\ events' # <<>> /\ DOMAIN events' = 1 .. Len(events) + 1 /\ DOMAIN events = 1 .. Len(events)
      /\ Len(events') = Len(events) + 1 /\ Len(events) \in Nat
      /\ events'[Len(events) + 1] = e
      /\ \A k \in DOMAIN events : events'[k] = events[k]
  BY <1>0, <1>1
<1>3. WifiWordInv'
  BY <1>1, <1>2 DEF WifiWordInv, WifiWord, Online
<1>4. CASE e \in AddressEvents
  <2>1. ~ NoAddressEvent'
    BY <1>2, <1>4 DEF NoAddressEvent
  <2>2. \A k \in DOMAIN events' : LastAddressEvent(k)' => k = Len(events) + 1
    BY <1>2, <1>4 DEF LastAddressEvent
  <2> QED BY <1>1, <1>2, <1>3, <1>4, <2>1, <2>2 DEF ServerWordInv
<1>5. CASE e \notin AddressEvents
  <2>1. NoAddressEvent' <=> NoAddressEvent
    BY <1>2, <1>5 DEF NoAddressEvent
  <2>2. \A k \in DOMAIN events' : LastAddressEvent(k)' => k \in DOMAIN events /\ LastAddressEvent(k)
    BY <1>2, <1>5 DEF LastAddressEvent
  <2> QED BY <1>1, <1>2, <1>3, <1>5, <2>1, <2>2 DEF ServerWordInv
<1> QED BY <1>4, <1>5

\* The event task takes the next event: its handler now carries the last word, if
\* there was no event behind it.
LEMMA DispatchStep ==
  ASSUME NetworkInv, dispatch
  PROVE  WifiWordInv' /\ ServerWordInv'
<1> USE DEF NetworkInv
<1> DEFINE e == Head(events)
<1>1. /\ eventTodo = <<>> /\ events # <<>> /\ eventTodo' = handler(e) /\ events' = Tail(events)
      /\ UNCHANGED <<link, ip, server, told>>
  BY DEF dispatch, netVars
<1>2. events \in Seq(Event) /\ e \in Event
  BY <1>1 DEF CallbackInv, Types
<1>3. /\ Len(events) \in Nat /\ Len(events) >= 1 /\ Len(events') = Len(events) - 1
      /\ DOMAIN events = 1 .. Len(events) /\ DOMAIN events' = 1 .. Len(events) - 1
      /\ e = events[1]
      /\ \A k \in DOMAIN events' : events'[k] = events[k + 1]
      /\ events' # <<>> <=> Len(events) > 1
  <2>1. Len(events) \in Nat /\ Len(events) >= 1 /\ DOMAIN events = 1 .. Len(events) /\ e = events[1]
    BY <1>1, <1>2
  <2>2. events' \in Seq(Event) /\ Len(events') = Len(events) - 1
        /\ \A k \in 1 .. Len(events) - 1 : events'[k] = events[k + 1]
    BY <1>1, <1>2
  <2> QED BY <2>1, <2>2
<1> HIDE DEF e
<1>4. WifiWord' = WifiWord
  <2>1. eventTodo' # <<>> /\ eventTodo'[1] = Set("WIFI", Reports(e))
    BY <1>1, <1>2, HandlerShape
  <2>2. WifiWord = Reports(events[Len(events)])
    BY <1>1 DEF WifiWord
  <2>3. CASE Len(events) = 1
    BY <2>1, <2>2, <2>3, <1>3 DEF WifiWord, Set
  <2>4. CASE Len(events) > 1
    <3>1. Len(events') \in DOMAIN events' /\ events'[Len(events')] = events[Len(events)]
      BY <2>4, <1>3
    <3> QED BY <3>1, <2>2, <2>4, <1>3 DEF WifiWord
  <2> QED BY <2>3, <2>4, <1>3
<1>5. WifiWordInv'
  BY <1>1, <1>2, <1>4, HandlerShape DEF WifiWordInv, Online
<1>6. \A k \in DOMAIN events' : k + 1 \in DOMAIN events /\ (LastAddressEvent(k)' => LastAddressEvent(k + 1))
  <2> SUFFICES ASSUME NEW k \in DOMAIN events', LastAddressEvent(k)'
               PROVE  LastAddressEvent(k + 1)
    BY <1>3
  <2>1. ASSUME NEW j \in DOMAIN events, j > k + 1 PROVE events[j] \notin AddressEvents
    <3>1. j - 1 \in DOMAIN events' /\ j - 1 > k /\ events'[j - 1] = events[j]
      BY <2>1, <1>3
    <3> QED BY <3>1 DEF LastAddressEvent
  <2> QED BY <2>1, <1>3 DEF LastAddressEvent
<1>7. ASSUME NoAddressEvent' PROVE \A j \in DOMAIN events : j > 1 => events[j] \notin AddressEvents
  <2> SUFFICES ASSUME NEW j \in DOMAIN events, j > 1 PROVE events[j] \notin AddressEvents
    OBVIOUS
  <2>1. j - 1 \in DOMAIN events' /\ events'[j - 1] = events[j]
    BY <1>3
  <2> QED BY <2>1, <1>7 DEF NoAddressEvent
<1>8. CASE e \in AddressEvents
  <2>1. NoAddressEvent' => (e = "STA_GOT_IP" <=> ip # "none")
    BY <1>3, <1>7, <1>8 DEF ServerWordInv, LastAddressEvent
  <2>2. \E k \in DOMAIN eventTodo' : eventTodo'[k].call = "SERVER"
    BY <1>1, <1>2, <1>8, HandlerShape
  <2>3. \A k \in DOMAIN eventTodo' :
          eventTodo'[k].call = "SERVER" => eventTodo'[k] = IF e = "STA_GOT_IP" THEN Begin ELSE End
    BY <1>1, <1>2, <1>8, HandlerShape
  <2> QED BY <2>1, <2>2, <2>3, <1>1, <1>3, <1>5, <1>6 DEF ServerWordInv
<1>9. CASE e \notin AddressEvents
  <2>1. NoAddressEvent' => NoAddressEvent
    BY <1>3, <1>7, <1>9 DEF NoAddressEvent
  <2>2. NoAddressEvent => (server <=> ip # "none")
    BY <1>1 DEF ServerWordInv
  <2>3. \A k \in DOMAIN eventTodo' : eventTodo'[k].call # "SERVER"
    BY <1>1, <1>2, <1>9, HandlerShape
  <2> QED BY <2>1, <2>2, <2>3, <1>1, <1>3, <1>5, <1>6 DEF ServerWordInv
<1> QED BY <1>8, <1>9

\* A call of the running handler is made.
LEMMA HandlerCallStep ==
  ASSUME NetworkInv, handlerCall
  PROVE  WifiWordInv' /\ ServerWordInv'
<1> USE DEF NetworkInv
<1> DEFINE c == Head(eventTodo)
<1>1. /\ eventTodo # <<>> /\ perform(c) /\ eventTodo' = Tail(eventTodo)
      /\ UNCHANGED <<link, ip, events>>
  BY DEF handlerCall, netVars
<1>2. eventTodo \in Seq(EventCall) /\ c \in EventCall
      /\ told \in [WIFI : WifiStates, OTA : OtaStates, OTA_PROGRESS : Nat]
  BY <1>1 DEF CallbackInv, Types
<1>3. /\ Len(eventTodo) \in Nat /\ Len(eventTodo) >= 1 /\ c = eventTodo[1]
      /\ DOMAIN eventTodo = 1 .. Len(eventTodo) /\ DOMAIN eventTodo' = 1 .. Len(eventTodo) - 1
      /\ \A k \in DOMAIN eventTodo' : k + 1 \in DOMAIN eventTodo /\ eventTodo'[k] = eventTodo[k + 1]
      /\ eventTodo' # <<>> => 1 \in DOMAIN eventTodo'
  BY <1>1, <1>2
<1> HIDE DEF c
<1>4. /\ c.call = "WIFI" => told'.WIFI = c.value
      /\ c.call # "WIFI" => told'.WIFI = told.WIFI
      /\ IF c.call = "SERVER" THEN server' = c.value ELSE server' = server
  BY <1>1, <1>2 DEF perform, EventCall, Begin, End, Set
<1>5. \A k \in DOMAIN eventTodo' : eventTodo'[k].call # "WIFI"
  BY <1>3 DEF WifiWordInv
<1>6. WifiWord' = WifiWord
  BY <1>1, <1>3, <1>4, <1>5 DEF WifiWord
<1>7. WifiWordInv'
  BY <1>1, <1>5, <1>6 DEF WifiWordInv, Online
<1>8. NoAddressEvent' = NoAddressEvent /\ \A k \in DOMAIN events : LastAddressEvent(k)' = LastAddressEvent(k)
  BY <1>1 DEF NoAddressEvent, LastAddressEvent
<1>9. ASSUME NoAddressEvent, \A k \in DOMAIN eventTodo' : eventTodo'[k].call # "SERVER"
      PROVE  (server' <=> ip # "none")
  <2>1. CASE c.call = "SERVER"
    <3>1. c = IF ip # "none" THEN Begin ELSE End
      BY <2>1, <1>3, <1>9 DEF ServerWordInv
    <3> QED BY <2>1, <3>1, <1>4 DEF Begin, End
  <2>2. CASE c.call # "SERVER"
    <3>1. ASSUME NEW k \in DOMAIN eventTodo PROVE eventTodo[k].call # "SERVER"
      <4>1. CASE k = 1
        BY <4>1, <2>2, <1>3
      <4>2. CASE k # 1
        <5>1. k - 1 \in DOMAIN eventTodo' /\ eventTodo'[k - 1] = eventTodo[k]
          BY <4>2, <1>3
        <5> QED BY <5>1, <1>9
      <4> QED BY <4>1, <4>2
    <3> QED BY <3>1, <2>2, <1>4, <1>9 DEF ServerWordInv
  <2> QED BY <2>1, <2>2
<1>10. ServerWordInv'
  BY <1>1, <1>3, <1>8, <1>9 DEF ServerWordInv
<1> QED BY <1>7, <1>10

\* The Wi-Fi task's callbacks touch neither the Wi-Fi state nor the server.
LEMMA CallbackCallStep ==
  ASSUME CallbackInv, callbackCall
  PROVE  told'.WIFI = told.WIFI /\ server' = server
<1>1. otaTodo # <<>> /\ perform(Head(otaTodo))
  BY DEF callbackCall
<1>2. \/ \E v : Head(otaTodo) = Set("OTA_PROGRESS", v)
      \/ \E s : Head(otaTodo) = Set("OTA", s)
  BY <1>1 DEF CallbackInv, Done, BeforeSecond, BeforeFirst
<1>3. told \in [WIFI : WifiStates, OTA : OtaStates, OTA_PROGRESS : Nat]
  BY DEF CallbackInv, Types
<1> QED BY <1>1, <1>2, <1>3 DEF perform, Set

\* Every step keeps the invariant.
LEMMA NextNetwork == NetworkInv /\ [Next]_vars => NetworkInv'
<1> SUFFICES ASSUME NetworkInv, [Next]_vars PROVE NetworkInv'
  OBVIOUS
<1>1. CallbackInv'
  BY NextCallback DEF NetworkInv
<1>2. ASSUME UNCHANGED <<link, ip, events, eventTodo, server>>, told'.WIFI = told.WIFI
      PROVE  WifiWordInv' /\ ServerWordInv'
  <2>1. WifiWordInv'
    BY <1>2 DEF NetworkInv, WifiWordInv, WifiWord, Online
  <2>2. ServerWordInv'
    BY <1>2 DEF NetworkInv, ServerWordInv, NoAddressEvent, LastAddressEvent
  <2> QED BY <2>1, <2>2
<1>3. CASE Network
  BY <1>1, <1>3, NetworkStep DEF NetworkInv
<1>4. CASE EventTask
  BY <1>1, <1>4, DispatchStep, HandlerCallStep DEF NetworkInv, EventTask
<1>5. CASE restart
  <2>1. WifiWordInv' /\ ServerWordInv'
    <3>1. DOMAIN events' = {} /\ DOMAIN eventTodo' = {}
      BY <1>5 DEF restart
    <3>2. WifiWord' = "DISCONNECTED"
      BY <1>5 DEF restart, WifiWord
    <3> QED BY <1>5, <3>1, <3>2 DEF restart, WifiWordInv, Online, ServerWordInv, NoAddressEvent
  <2> QED BY <1>1, <2>1 DEF NetworkInv
<1>6. CASE callbackCall
  <2>1. UNCHANGED <<link, ip, events, eventTodo, server>> /\ told'.WIFI = told.WIFI
    BY <1>6, CallbackCallStep DEF callbackCall, netVars, NetworkInv
  <2> QED BY <1>1, <1>2, <2>1 DEF NetworkInv
<1>7. CASE \/ otaRefused \/ otaError \/ otaEnd \/ UNCHANGED vars
           \/ \E total \in Totals : otaStart(total)
           \/ \E received \in Received : otaProgress(received)
  <2>1. UNCHANGED <<link, ip, events, eventTodo, server, told>>
    BY <1>7 DEF otaRefused, otaError, otaEnd, otaStart, otaProgress, vars, netVars
  <2> QED BY <1>1, <1>2, <2>1 DEF NetworkInv
<1> QED BY <1>3, <1>4, <1>5, <1>6, <1>7 DEF Next, WifiTask

\* The invariant of network, handlers and report holds throughout.
LEMMA NetworkInvariant == Spec => []NetworkInv
<1>1. Init => NetworkInv
  BY InitCallback, InitNetwork DEF NetworkInv
<1> QED BY <1>1, NextNetwork, PTL DEF Spec

\* Whatever the order in which link and address come and go, and however many
\* events wait: once they are handled the LED is green exactly while there is a
\* link with an address.
THEOREM GreenIsOnline == Spec => []GreenMeansOnline
<1>1. NetworkInv => GreenMeansOnline
  BY DEF NetworkInv, GreenMeansOnline, Settled, WifiWordInv, WifiWord, Online
<1> QED BY <1>1, NetworkInvariant, PTL

\* Once the events are handled ArduinoOTA listens exactly while there is an
\* address, also when the address outlives the link.
THEOREM ServerIsWhereTheAddressIs == Spec => []ServerFollowsAddress
<1>1. ASSUME NetworkInv, Settled PROVE server <=> ip # "none"
  <2>1. DOMAIN events = {} /\ DOMAIN eventTodo = {}
    BY <1>1 DEF Settled
  <2> QED BY <1>1, <2>1 DEF NetworkInv, ServerWordInv, NoAddressEvent
<1>2. NetworkInv => ServerFollowsAddress
  BY <1>1 DEF ServerFollowsAddress
<1> QED BY <1>2, NetworkInvariant, PTL
==============================================================================
