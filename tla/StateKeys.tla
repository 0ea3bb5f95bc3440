----------------------------- MODULE StateKeys -----------------------------
(***************************************************************************)
(* What one poll of the console becomes: internal/providers/unifi, from    *)
(* Client.Observe down.  Two endpoints are read and either may fail alone. *)
(* The device list is folded record by record, the health answer is laid   *)
(* over what the list said of the live uplink, and the result is a map     *)
(* from state keys to values in which a missing key means "not seen": a    *)
(* set of pairs here, of which no two have the same key.                   *)
(*                                                                         *)
(* A device record keeps the fields the keys are derived from.  "" is a    *)
(* name, status or value the record does not carry and Silent a number it  *)
(* does not carry; a nil bool that the code reads as false is FALSE.  The  *)
(* thresholds are the effective ones (the code puts a default for <= 0).   *)
(***************************************************************************)
EXTENDS Integers, FiniteSets, Sequences, SequencesExt

CONSTANTS
  MaxDevices,          \* bound: records in one device list
  DeviceRecords,       \* the records a console may list
  HealthAnswers,       \* the answers of stat/health
  PerDeviceKeys,       \* Client.PerDeviceKeys
  MinAvailability, MaxLatency,
  CriticalBattery, LowBattery,
  CriticalRuntime, ShortRuntime,
  HighLoad, HighTemperature, MaxPoEUtilization

ASSUME ThresholdsAreNaturals ==
  {MinAvailability, MaxLatency, CriticalBattery, LowBattery, CriticalRuntime,
   ShortRuntime, HighLoad, HighTemperature, MaxPoEUtilization} \subseteq Nat

ASSUME AnswersAreRecords ==
  \A h \in HealthAnswers :
    h = [www |-> h.www, wlan |-> h.wlan, uptimeStats |-> h.uptimeStats]

Silent == -1

VARIABLES
  devices,   \* the records of stat/device decoded so far
  health     \* the answer of stat/health

readingVars == <<devices, health>>

\* One key, or none if there is nothing to say.
Publish(key, value) == IF value = "" THEN {} ELSE {<<key, value>>}

KeysOf(view) == {said[1] : said \in view}

FirstOf(list, hits) == {list[i] : i \in {i \in hits : \A j \in hits : i <= j}}

Adopted(list) == {i \in DOMAIN list : list[i].adopted}

-----------------------------------------------------------------------------
(* The gateway: which uplink is live, and which carrier is behind it.      *)

WanPrimaryIndex == 1
NoSignal == [value |-> "", index |-> 0]

\* The answer of one field that claims some of the WAN indexes.
ResolveSignal(claims) ==
  IF Cardinality(claims) # 1 THEN NoSignal
  ELSE LET index == CHOOSE i \in claims : TRUE IN
       [value |-> IF index = WanPrimaryIndex THEN "primary" ELSE "backup", index |-> index]

ClaimedUplinks(d) == {w.index : w \in {w \in d.wans : w.isUplink}}
NamedUplinks(d) == {w.index : w \in {w \in d.wans : d.uplink # "" /\ w.ifname = d.uplink}}

\* is_uplink decides where it names one port, uplink.name where it does not; two
\* claims that nothing resolves are published as the backup, with no index.
WanFrom(d) ==
  LET claimed == ResolveSignal(ClaimedUplinks(d))
      named == ResolveSignal(NamedUplinks(d))
  IN  CASE claimed.value # "" -> claimed
        [] claimed.value = "" /\ named.value # "" -> named
        [] OTHER -> IF ClaimedUplinks(d) = {} THEN NoSignal
                    ELSE [value |-> "backup", index |-> 0]

IspFrom(d) == IF d.isp = "" THEN "unknown" ELSE d.isp

Gateway(list) == FirstOf(list, {i \in DOMAIN list : list[i].wans # {}})

GatewayKeys(list) ==
  IF Gateway(list) = {} THEN {}
  ELSE LET d == CHOOSE d \in Gateway(list) : TRUE IN
       Publish(<<"wan">>, WanFrom(d).value) \cup Publish(<<"isp">>, IspFrom(d))

LiveUplink(list) ==
  IF Gateway(list) = {} THEN NoSignal ELSE WanFrom(CHOOSE d \in Gateway(list) : TRUE)

\* The modem: what its one active SIM says of its data plan.
DataUsageFrom(d) ==
  LET active == SelectSeq(CHOOSE sims \in d.modem : TRUE, LAMBDA s : s.active) IN
  CASE Len(active) # 1 -> ""
    [] OTHER -> LET sim == active[1] IN
         IF ~(sim.card /\ sim.plan) THEN ""
         ELSE IF sim.limited THEN "over" ELSE IF sim.warning THEN "warning" ELSE "under"

\* The first modem answers for the site, even when its answer is silence.
ModemKeys(list) ==
  LET modems == FirstOf(list, {i \in DOMAIN list : list[i].modem # {}}) IN
  IF modems = {} THEN {}
  ELSE Publish(<<"data", "usage">>, DataUsageFrom(CHOOSE d \in modems : TRUE))

\* The UPS: three measurements in buckets, two of them only when reported.
BatteryLevel(percent) ==
  CASE percent <= CriticalBattery -> "critical"
    [] percent > CriticalBattery /\ percent <= LowBattery -> "low"
    [] OTHER -> "normal"

RuntimeLevel(seconds) ==
  CASE seconds <= 0 -> ""
    [] seconds \in 1..CriticalRuntime -> "critical"
    [] seconds > 0 /\ seconds > CriticalRuntime /\ seconds <= ShortRuntime -> "short"
    [] OTHER -> "ample"

LoadLevel(output, budget) ==
  IF output = Silent \/ budget <= 0 THEN ""
  ELSE IF output * 100 >= HighLoad * budget THEN "high" ELSE "normal"

UPSKeys(list) ==
  LET found == FirstOf(list, {i \in DOMAIN list : list[i].ups # {}}) IN
  IF found = {} THEN {}
  ELSE LET u == CHOOSE u \in (CHOOSE d \in found : TRUE).ups : TRUE IN
       Publish(<<"ups">>, IF u.onBattery THEN "on-battery" ELSE "online")
         \cup Publish(<<"ups", "battery">>, BatteryLevel(u.charge))
         \cup Publish(<<"ups", "runtime">>, RuntimeLevel(u.runtime))
         \cup Publish(<<"ups", "load">>, LoadLevel(u.output, u.budget))

-----------------------------------------------------------------------------
(* The fleet: one value for all the adopted devices together.              *)

Counted(list) == {i \in Adopted(list) : list[i].state \in {"online", "offline"}}

\* Wrong: the last device of a name speaks for it.
LastNamesake(list) ==
  LET last(name) == CHOOSE i \in Counted(list) :
                      list[i].name = name /\ \A j \in Counted(list) : list[j].name = name => j <= i
      names == {list[i].name : i \in Counted(list)} \ {""}
  IN  {<<<<"device", n>>, list[last(n)].state>> : n \in names}

\* A name that two of them share speaks for neither.
PerDevice(list) ==
  LET alone(i) == list[i].name # "" /\ \A j \in Counted(list) \ {i} : list[j].name # list[i].name
  IN  {<<<<"device", list[i].name>>, list[i].state>> : i \in {i \in Counted(list) : alone(i)}}

DeviceKeys(list) ==
  IF Counted(list) = {} THEN {}
  ELSE Publish(<<"devices">>, IF \E i \in Counted(list) : list[i].state = "offline"
                              THEN "degraded" ELSE "all-online")
         \cup (IF PerDeviceKeys THEN PerDevice(list) ELSE {})

FirmwareKeys(list) ==
  LET reporting == {i \in Adopted(list) : list[i].upgradable # ""} IN
  IF reporting = {} THEN {}
  ELSE Publish(<<"firmware">>, IF \E i \in reporting : list[i].upgradable = "yes"
                               THEN "updates-available" ELSE "current")

\* A device's own temperature: its hottest sensor, or its general reading when
\* no sensor of it reports.
Hottest(d) ==
  LET read == d.sensors \ {Silent} IN
  IF read = {} THEN d.general ELSE CHOOSE t \in read : \A s \in read : s <= t

Instrumented(d) == d.hasTemperature \/ Hottest(d) # Silent \/ d.overheating

\* Wrong: the last device read decides.
TemperatureOfTheLast(list) ==
  LET instrumented == {i \in Adopted(list) : Instrumented(list[i])} IN
  IF instrumented = {} THEN {}
  ELSE LET last == CHOOSE i \in instrumented : \A j \in instrumented : j <= i IN
       Publish(<<"temperature">>,
               IF list[last].overheating \/ Hottest(list[last]) >= HighTemperature
               THEN "high" ELSE "normal")

TemperatureKeys(list) ==
  LET instrumented == {i \in Adopted(list) : Instrumented(list[i])} IN
  IF instrumented = {} THEN {}
  ELSE Publish(<<"temperature">>,
               IF \E i \in instrumented : list[i].overheating \/ Hottest(list[i]) >= HighTemperature
               THEN "high" ELSE "normal")

\* A switch's draw: known only when every powered port reports its wattage.
PoweredPorts(d) == SelectSeq(d.ports, LAMBDA p : p.enabled)
Watts(d) == FoldLeft(LAMBDA sum, p : sum + p.watts, 0, PoweredPorts(d))
Measurable(d) ==
  /\ d.poeBudget > 0
  /\ d.ports # <<>>
  /\ \A i \in DOMAIN PoweredPorts(d) : PoweredPorts(d)[i].watts # Silent

PoEKeys(list) ==
  LET switches == {i \in Adopted(list) : Measurable(list[i])} IN
  IF switches = {} THEN {}
  ELSE Publish(<<"poe">>,
               IF \E i \in switches : Watts(list[i]) * 100 >= MaxPoEUtilization * list[i].poeBudget
               THEN "insufficient" ELSE "ok")

\* An outlet is addressed by the name a person gave it, else by its index.
OutletSuffix(o) == IF o.name \in {"", "placeholder"} THEN o.index ELSE o.name

OutletTable(list) ==
  LET tables == FirstOf(list, {i \in Adopted(list) : list[i].outlets # <<>>}) IN
  IF tables = {} THEN <<>> ELSE (CHOOSE d \in tables : TRUE).outlets

\* Only the first adopted device with a table is read; an address that two
\* readable outlets share speaks for neither.
OutletKeys(list) ==
  LET table == OutletTable(list)
      readable == {i \in DOMAIN table : OutletSuffix(table[i]) # "" /\ table[i].relay # ""}
      alone == {i \in readable :
                  \A j \in readable \ {i} : OutletSuffix(table[j]) # OutletSuffix(table[i])}
  IN  {<<<<"outlet", OutletSuffix(table[i])>>, table[i].relay>> : i \in alone}

\* An empty map is an error of the device endpoint, with the same effect.
StateFromDevices(list) ==
  GatewayKeys(list) \cup ModemKeys(list) \cup UPSKeys(list) \cup DeviceKeys(list)
    \cup FirmwareKeys(list) \cup TemperatureKeys(list) \cup PoEKeys(list) \cup OutletKeys(list)

-----------------------------------------------------------------------------
(* The health answer.                                                      *)

InternetFrom(status) ==
  CASE status = "ok" -> "ok" [] status = "warning" -> "degraded" [] status = "error" -> "down"
    [] OTHER -> ""

WifiFrom(wlan) ==
  CASE wlan.adopted \in {Silent, 0} \/ wlan.disconnected = Silent -> ""
    [] OTHER -> IF wlan.disconnected >= wlan.adopted THEN "error"
                ELSE IF wlan.disconnected > 0 THEN "warning" ELSE "ok"

\* A figure of an uplink as <<sum, count>>: its own, or the mean of what its
\* monitors and alerting monitors report.
MeanOf(own, monitors) ==
  IF own # Silent THEN <<own, 1>>
  ELSE LET read == SelectSeq(monitors, LAMBDA v : v # Silent)
       IN  <<FoldLeft(LAMBDA sum, v : sum + v, 0, read), Len(read)>>

WanQualityFrom(entry) ==
  LET availability == MeanOf(entry.availability, entry.availabilities)
      latency == MeanOf(entry.latency, entry.latencies)
  IN  IF availability[2] = 0 THEN ""
      ELSE IF \/ availability[1] < MinAvailability * availability[2]
              \/ latency[2] > 0 /\ latency[1] > MaxLatency * latency[2]
           THEN "degraded" ELSE "good"

\* Wrong: the entry is chosen by the published value, of which there are two.
EntryByValue(answer, uplink) ==
  {e \in answer.uptimeStats : e.index = (IF uplink.value = "primary" THEN 1 ELSE 2)}

\* The uptime stats of the uplink wan was resolved to; a guess has none.
LiveEntry(answer, uplink) ==
  {e \in answer.uptimeStats : uplink.index >= WanPrimaryIndex /\ e.index = uplink.index}

QualityKeys(answer, uplink) ==
  IF uplink.value = "" \/ LiveEntry(answer, uplink) = {} THEN {}
  ELSE Publish(<<"wan", "quality">>,
               WanQualityFrom(CHOOSE e \in LiveEntry(answer, uplink) : TRUE))

MergeHealth(answer, uplink) ==
  Publish(<<"internet">>, InternetFrom(answer.www))
    \cup Publish(<<"wifi">>, WifiFrom(answer.wlan))
    \cup QualityKeys(answer, uplink)

\* Wrong: an answer about the uplinks is believed to be about the primary when
\* the device list is lost.
ObserveAssumingPrimary(list, answer, lost) ==
  LET fromDevices == IF "devices" \in lost THEN {} ELSE StateFromDevices(list)
      uplink == IF "devices" \in lost THEN [value |-> "primary", index |-> WanPrimaryIndex]
                ELSE LiveUplink(list)
  IN  fromDevices \cup (IF "health" \in lost THEN {} ELSE MergeHealth(answer, uplink))

\* Both endpoints, each with its own failure; no key at all is an error.
Observed(list, answer, lost) ==
  LET fromDevices == IF "devices" \in lost THEN {} ELSE StateFromDevices(list)
      uplink == IF "devices" \in lost THEN NoSignal ELSE LiveUplink(list)
  IN  fromDevices \cup (IF "health" \in lost THEN {} ELSE MergeHealth(answer, uplink))

-----------------------------------------------------------------------------
ReadingInit == devices = <<>> /\ health \in HealthAnswers

\* The next record of the device list.
NextRecord ==
  /\ Len(devices) < MaxDevices
  /\ \E d \in DeviceRecords : devices' = Append(devices, d)
  /\ UNCHANGED health

\* A new poll.
NextPoll ==
  /\ devices' = <<>>
  /\ health' \in HealthAnswers

-----------------------------------------------------------------------------
Endpoints == {"devices", "health"}
Sees(lost) == Observed(devices, health, lost)

\* Losing an endpoint hides keys and says nothing else: what is still published
\* has the value the whole view gives it, the keys of the other endpoint are all
\* still there, and wan.quality, which takes both, is never said by halves
\* (client.go:376-378, "either may fail without taking the other's keys with it").
PartialViewOnlyHides ==
  LET whole == Sees({}) IN
  /\ \A lost \in SUBSET Endpoints : Sees(lost) \subseteq whole
  /\ \A said \in whole :
       said \in Sees({"devices"}) \cup Sees({"health"}) \/ said[1] = <<"wan", "quality">>
  /\ \A lost \in (SUBSET Endpoints) \ {{}} : <<"wan", "quality">> \notin KeysOf(Sees(lost))

\* wan.quality is about the port the traffic is on: it does not change with the
\* figures of any other uplink, and a site that cannot say which port that is
\* publishes none (health.go, mergeHealth; the wan key has two values for any
\* number of uplinks).
QualityIsOfTheLiveUplink ==
  LET whole == Sees({})
      gateway == CHOOSE d \in Gateway(devices) : TRUE
      others == [health EXCEPT !.uptimeStats =
                   {e \in @ : e.index \in ClaimedUplinks(gateway) \cup NamedUplinks(gateway)}]
  IN  <<"wan", "quality">> \in KeysOf(whole) =>
        /\ Gateway(devices) # {}
        /\ 1 \in {Cardinality(ClaimedUplinks(gateway)), Cardinality(NamedUplinks(gateway))}
        /\ Observed(devices, others, {}) = whole

\* A key derived from a name never speaks for one thing against another of the
\* same name: where two adopted devices, or two outlets of the chassis that is
\* read, answer to one key and differ, the key is missing (devices.go and
\* outlets.go, `shared`).  An outlet nobody named answers to its index.  And no
\* key at all has two values.
NoNameSpeaksForTwo ==
  /\ \A p, q \in Sees({}) : p[1] = q[1] => p = q
  /\ \A i, j \in Adopted(devices) :
       devices[i].name = devices[j].name
         /\ devices[i].state = "online" /\ devices[j].state = "offline"
       => <<"device", devices[i].name>> \notin KeysOf(Sees({}))
  /\ LET table == OutletTable(devices) IN
     \A i, j \in DOMAIN table :
       OutletSuffix(table[i]) = OutletSuffix(table[j])
         /\ table[i].relay = "on" /\ table[j].relay = "off"
       => <<"outlet", OutletSuffix(table[i])>> \notin KeysOf(Sees({}))

\* A device in trouble is not covered by the healthy ones listed after it: while
\* a list is read, no alarm already raised by it is taken back.
Alarms ==
  {<<<<"devices">>, "degraded">>, <<<<"temperature">>, "high">>, <<<<"poe">>, "insufficient">>,
   <<<<"firmware">>, "updates-available">>, <<<<"ups">>, "on-battery">>}

AlarmsAreNotMasked ==
  [][Len(devices') > Len(devices) => Sees({}) \cap Alarms \subseteq Sees({})']_devices

=============================================================================
