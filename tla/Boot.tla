-------------------------------- MODULE Boot --------------------------------
(***************************************************************************)
(* setup() of examples/firmware-main.cpp and System::coreInit: what a      *)
(* device has to get through, in which order, before it serves anybody.    *)
(*                                                                         *)
(* A failure in setup() is either tolerated (no hotspot, no LAN), waited   *)
(* for (no radio) or fatal: readFile of a missing file makes a std::string *)
(* of a null pointer, and a static address that cannot be parsed throws;   *)
(* both end in abort(), which restarts the chip.  The configuration file   *)
(* is on the flash and survives; everything else starts anew.  Once the    *)
(* update service is there, an update over the air may replace the file.   *)
(***************************************************************************)
EXTENDS Naturals, Sequences

CONSTANTS
  Configs,    \* what the configuration file may contain, see Fields below
  Retries,    \* retryCounter of activateWifiSTA, 10
  MaxResets   \* bound: how often power is cut or the firmware is updated

DnsFields == {"primaryDNS", "secondaryDNS"}
AddressFields == {"staticIP", "gateway", "subnet"} \cup DnsFields
Fields == AddressFields \cup {"apPwd"}

(* The members that matter of the profiles in use, each as the code that     *)
(* takes it tells texts apart: "good" is an address of four numbers, or a    *)
(* password of eight characters or more; "malformed" is another text.  A     *)
(* member that is absent is read as "null", and so are all of them when the  *)
(* file is not JSON.                                                         *)
Texts == {"null", "", "good", "malformed"}
Unread == [f \in Fields |-> "null"]
Missing == << >>      \* there is no file

ASSUME BootAssumption ==
  /\ Configs \subseteq [Fields -> Texts] \cup {Missing}
  /\ Retries \in Nat
  /\ MaxResets \in Nat

VARIABLES
  config,       \* flash: the configuration file
  stage,        \* how far setup() is; "aborted" after abort()
  mounted,      \* LittleFS.begin succeeded
  doc,          \* JsonFileHandler::jsFileContent of the configuration
  hotspot,      \* the access point of the profile is up
  retryCounter, \* of activateWifiSTA
  subscribers,  \* EventHandler::subscribers
  apiModules,   \* ApiModule::registeredApiModules
  routes,       \* what is registered at the two servers
  serverState,  \* WebServer::serverState
  lan,          \* environment: the LAN of the profile accepts the device
  radio,        \* environment: the LoRa module answers
  resets        \* history: power cuts and updates so far

memory == <<stage, mounted, doc, hotspot, retryCounter, subscribers, apiModules,
            routes, serverState>>
vars == <<config, memory, lan, radio, resets>>

Handlers == {"SndNotif", "Notifier", "TestModule", "AlarmSystem"}
Apis == {"Lora", "notifier", "test", "Alarm"}
SecureRoutes == {"/", "404", "/ws"}
Routes == SecureRoutes \cup {"/update"}
Stages == {"mount", "load", "hotspot", "address", "connect", "register", "radio",
           "modules", "start", "update", "ready", "aborted"}

TypeOK ==
  /\ config \in Configs \cup {Missing}
  /\ stage \in Stages
  /\ mounted \in BOOLEAN
  /\ doc \in [Fields -> Texts]
  /\ hotspot \in BOOLEAN
  /\ retryCounter \in 0..Retries
  /\ subscribers \in Seq(Handlers)
  /\ apiModules \subseteq Apis
  /\ routes \subseteq Routes
  /\ serverState \in BOOLEAN
  /\ lan \in BOOLEAN /\ radio \in BOOLEAN
  /\ resets \in 0..MaxResets

(* What a reset leaves in memory. *)
Blank(st, mnt, dc, hs, rc, subs, apis, rts, srv) ==
  /\ st = "mount" /\ mnt = FALSE /\ dc = Unread /\ hs = FALSE /\ rc = Retries
  /\ subs = << >> /\ apis = {} /\ rts = {} /\ srv = FALSE

Init ==
  /\ config \in Configs
  /\ Blank(stage, mounted, doc, hotspot, retryCounter, subscribers, apiModules, routes,
           serverState)
  /\ lan \in BOOLEAN /\ radio \in BOOLEAN
  /\ resets = 0

-----------------------------------------------------------------------------
(* LittleFS.begin(true): a file system that cannot be mounted is formatted;  *)
(* one that cannot be formatted either is gone on without.                   *)
InitFS ==
  /\ stage = "mount"
  /\ \/ mounted' = TRUE /\ UNCHANGED config
     \/ mounted' = TRUE /\ config' = Missing
     \/ mounted' = FALSE /\ UNCHANGED config
  /\ stage' = "load"
  /\ UNCHANGED <<doc, hotspot, retryCounter, subscribers, apiModules, routes, serverState,
                 lan, radio, resets>>

(* The first configContent() loads the file; a file that cannot be opened    *)
(* is the end.                                                               *)
Readable == mounted /\ config # Missing

LoadConfig ==
  /\ stage = "load"
  /\ stage' = IF Readable THEN "hotspot" ELSE "aborted"
  /\ doc' = IF Readable THEN config ELSE doc
  /\ UNCHANGED <<config, mounted, hotspot, retryCounter, subscribers, apiModules, routes,
                 serverState, lan, radio, resets>>

(* WiFi.softAP refuses a password that is too short and may fail otherwise;  *)
(* nobody looks at its result.                                               *)
ActivateWifiAP ==
  /\ stage = "hotspot"
  /\ hotspot' \in IF doc["apPwd"] \in {"", "good"} THEN BOOLEAN ELSE {FALSE}
  /\ stage' = "address"
  /\ UNCHANGED <<config, mounted, doc, retryCounter, subscribers, apiModules, routes,
                 serverState, lan, radio, resets>>

NoStaticIP(d) == d["staticIP"] \in {"", "null"}

(* loadLanProfile: without a static address there is nothing to configure;   *)
(* with one, all five texts are split and converted to numbers.              *)
LoadLanProfile ==
  /\ stage = "address"
  /\ stage' = IF NoStaticIP(doc) \/ \A f \in AddressFields : doc[f] = "good"
                THEN "connect" ELSE "aborted"
  /\ UNCHANGED <<config, mounted, doc, hotspot, retryCounter, subscribers, apiModules,
                 routes, serverState, lan, radio, resets>>

(* Seeded fault: the connection is waited for as long as it takes. *)
AwaitLanForever ==
  /\ stage = "connect"
  /\ stage' = IF lan THEN "register" ELSE stage
  /\ UNCHANGED <<config, mounted, doc, hotspot, retryCounter, subscribers, apiModules,
                 routes, serverState, lan, radio, resets>>

(* Seeded fault: a device that could not connect gives up. *)
AwaitLanOrAbort ==
  /\ stage = "connect"
  /\ IF retryCounter > 0 /\ ~lan
     THEN retryCounter' = retryCounter - 1 /\ UNCHANGED stage
     ELSE stage' = (IF lan THEN "register" ELSE "aborted") /\ UNCHANGED retryCounter
  /\ UNCHANGED <<config, mounted, doc, hotspot, subscribers, apiModules, routes,
                 serverState, lan, radio, resets>>

(* Another turn of the loop; seeded fault: one too many. *)
WaitsOneMore == retryCounter >= 0 /\ ~lan
Waits == retryCounter > 0 /\ ~lan

(* activateWifiSTA: one look at the status per turn of the loop. *)
AwaitLan ==
  /\ stage = "connect"
  /\ IF Waits
     THEN retryCounter' = retryCounter - 1 /\ UNCHANGED stage
     ELSE stage' = "register" /\ UNCHANGED retryCounter
  /\ UNCHANGED <<config, mounted, doc, hotspot, subscribers, apiModules, routes,
                 serverState, lan, radio, resets>>

(* Seeded fault: the server is started as soon as it has its routes. *)
RegisterRoutesStarts ==
  /\ stage = "register"
  /\ subscribers' = Append(subscribers, "SndNotif")
  /\ routes' = SecureRoutes
  /\ serverState' = TRUE
  /\ stage' = "radio"
  /\ UNCHANGED <<config, mounted, doc, hotspot, retryCounter, apiModules, lan, radio, resets>>

(* The buzzer, WebServer::init and registerDefaultServiceRoute. *)
RegisterRoutes ==
  /\ stage = "register"
  /\ subscribers' = Append(subscribers, "SndNotif")
  /\ routes' = SecureRoutes
  /\ stage' = "radio"
  /\ UNCHANGED <<config, mounted, doc, hotspot, retryCounter, apiModules, serverState,
                 lan, radio, resets>>

(* LoraInterface::init, which tries again until the radio answers. *)
LoraInit ==
  /\ stage = "radio" /\ radio
  /\ apiModules' = apiModules \cup {"Lora"}
  /\ stage' = "modules"
  /\ UNCHANGED <<config, mounted, doc, hotspot, retryCounter, subscribers, routes,
                 serverState, lan, radio, resets>>

(* The constructors of the API modules and event handlers. *)
RegisterModules ==
  /\ stage = "modules"
  /\ subscribers' =
       Append(Append(Append(subscribers, "Notifier"), "TestModule"), "AlarmSystem")
  /\ apiModules' = apiModules \cup {"notifier", "test", "Alarm"}
  /\ stage' = "start"
  /\ UNCHANGED <<config, mounted, doc, hotspot, retryCounter, routes, serverState,
                 lan, radio, resets>>

(* WebServer::start: from here on both servers answer. *)
StartServer ==
  /\ stage = "start"
  /\ serverState' = TRUE
  /\ stage' = "update"
  /\ UNCHANGED <<config, mounted, doc, hotspot, retryCounter, subscribers, apiModules,
                 routes, lan, radio, resets>>

(* OTAServiceWrapper::init adds its route to the server that runs already. *)
StartUpdateService ==
  /\ stage = "update"
  /\ routes' = routes \cup {"/update"}
  /\ stage' = "ready"
  /\ UNCHANGED <<config, mounted, doc, hotspot, retryCounter, subscribers, apiModules,
                 serverState, lan, radio, resets>>

Setup ==
  \/ InitFS \/ LoadConfig \/ ActivateWifiAP \/ LoadLanProfile \/ AwaitLan
  \/ RegisterRoutes \/ LoraInit \/ RegisterModules \/ StartServer \/ StartUpdateService

-----------------------------------------------------------------------------
Reset ==
  Blank(stage', mounted', doc', hotspot', retryCounter', subscribers', apiModules',
        routes', serverState')

(* abort() ends in a restart. *)
RestartAfterAbort ==
  /\ stage = "aborted"
  /\ Reset
  /\ UNCHANGED <<config, lan, radio, resets>>

PowerCut ==
  /\ resets < MaxResets
  /\ resets' = resets + 1
  /\ Reset
  /\ UNCHANGED <<config, lan, radio>>

(* An update of the file system, which the update service offers. *)
Update ==
  /\ "/update" \in routes /\ resets < MaxResets
  /\ resets' = resets + 1
  /\ config' \in Configs
  /\ Reset
  /\ UNCHANGED <<lan, radio>>

LanChanges == lan' = ~lan /\ UNCHANGED <<config, memory, radio, resets>>

Next == Setup \/ RestartAfterAbort \/ PowerCut \/ Update \/ LanChanges

Spec == Init /\ [][Next]_vars

(* setup() runs on, and the chip restarts after abort(). *)
FairSpec == Spec /\ WF_vars(Setup \/ RestartAfterAbort)

-----------------------------------------------------------------------------
(* System.cpp:48-149, firmware-main.cpp:46-79: the file alone decides        *)
(* whether setup() gets through.  There is no file that a device serves with *)
(* at one time and aborts on at another, whatever the LAN and the hotspot do *)
(* and however many starts were cut short or aborted before.                 *)
FileDecides ==
  \A c \in Configs \cup {Missing} :
    [](config = c => ~serverState) \/ [](config = c /\ mounted => stage # "aborted")

(* The order of the constructors, in which events are offered. *)
Order == <<"SndNotif", "Notifier", "TestModule", "AlarmSystem">>

(* firmware-main.cpp:50-78: whoever reaches a server finds the routes of the *)
(* secure one, every API module and every event handler, each handler once   *)
(* and in the order in which events are offered to them; the update service  *)
(* comes later, and is there when setup() is done.                           *)
ServesComplete ==
  /\ serverState => SecureRoutes \subseteq routes /\ apiModules = Apis /\ subscribers = Order
  /\ stage = "ready" => serverState /\ routes = Routes

(* What a file has to contain for the device to start. *)
Bootable(c) ==
  /\ c # Missing
  /\ NoStaticIP(c) \/ \A f \in AddressFields : c[f] = "good"

(* System.cpp:126-145: whatever the LAN and the hotspot do, a device that    *)
(* can read a file it can start from, and whose radio answers, gets as far   *)
(* as the update service, unless its power is cut before.                    *)
Healthy == stage = "load" /\ mounted /\ Bootable(config) /\ radio

BootsWhateverTheLan ==
  \A n \in 0..MaxResets : (Healthy /\ resets = n) ~> (stage = "ready" \/ resets > n)

-----------------------------------------------------------------------------
(* System.cpp:108, "optional", of the two name servers: a profile with a     *)
(* good address, gateway and subnet, and without them, is one to start from. *)
NoDns(c) ==
  /\ c # Missing
  /\ \A f \in AddressFields \ DnsFields : c[f] = "good"
  /\ \A f \in DnsFields : c[f] \in {"", "null"}

DnsIsOptional == stage = "aborted" /\ mounted => ~NoDns(config)
=============================================================================
