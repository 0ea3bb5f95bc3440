----------------------------- MODULE MCDecision -----------------------------
(* Model-checking instance of Decision: a handful of gateways, modems, UPSes, *)
(* switches and access points, and the health answers that go with them.      *)
EXTENDS Decision, TLC

CONSTANTS a1, a2, a3, a4

MCLevels == 0..2

Device == [adopted |-> TRUE, name |-> "", state |-> "", wans |-> {}, uplink |-> "", isp |-> "",
           modem |-> {}, ups |-> {}, upgradable |-> "", hasTemperature |-> FALSE,
           overheating |-> FALSE, sensors |-> {}, general |-> Silent,
           poeBudget |-> 0, ports |-> <<>>, outlets |-> <<>>]

\* A gateway with the given ports, those that claim the uplink, and the port its
\* uplink block names.
GatewayOf(ports, claiming, named) ==
  [Device EXCEPT !.state = "online", !.isp = IF named = 0 THEN "" ELSE "carrier",
                 !.uplink = IF named = 0 THEN "" ELSE ToString(named),
                 !.wans = {[index |-> i, isUplink |-> i \in claiming, ifname |-> ToString(i)] : i \in ports}]

Gateways == {GatewayOf({1, 3}, {1}, 1), GatewayOf({1, 2, 3}, {}, 3), GatewayOf({1, 2}, {1}, 2),
             GatewayOf({1, 2, 3}, {2, 3}, 0), GatewayOf({1, 2}, {1, 2}, 2), GatewayOf({1, 2}, {}, 0)}

AccessPoints == {[Device EXCEPT !.name = "hall", !.state = s] : s \in {"online", "offline", "transient"}}
                  \cup {[Device EXCEPT !.name = "hall", !.state = "offline", !.adopted = FALSE],
                        [Device EXCEPT !.state = "offline", !.upgradable = "yes"]}

Sim(active, plan, warning, limited) ==
  [active |-> active, card |-> TRUE, plan |-> plan, warning |-> warning, limited |-> limited]
Modems == {[Device EXCEPT !.modem = {<<Sim(TRUE, TRUE, TRUE, limited), Sim(other, TRUE, FALSE, FALSE)>>}]
             : limited, other \in BOOLEAN}

UPS(onBattery, charge, runtime, output) ==
  [onBattery |-> onBattery, charge |-> charge, runtime |-> runtime, output |-> output, budget |-> 10]
Outlet(name, index, relay) == [name |-> name, index |-> index, relay |-> relay]
UPSes == {[Device EXCEPT !.ups = {UPS(TRUE, 1, 1, 9)},
             !.outlets = <<Outlet("nas", "1", "on"), Outlet("nas", "2", "off"), Outlet("placeholder", "3", "on")>>],
          [Device EXCEPT !.ups = {UPS(FALSE, 2, 3, Silent)},
             !.outlets = <<Outlet("placeholder", "1", "on"), Outlet("1", "2", "off"), Outlet("nas", "3", "")>>]}

Port(watts) == [enabled |-> watts # 0, watts |-> watts]
Switches == {[Device EXCEPT !.poeBudget = 10, !.ports = <<Port(5), Port(w), Port(0)>>, !.upgradable = "no",
                            !.general = 3] : w \in {2, 4, Silent}}
Ovens == {[Device EXCEPT !.sensors = {Silent, 4, 9}, !.general = 1], [Device EXCEPT !.overheating = TRUE]}

MCDevices == Gateways \cup AccessPoints \cup Modems \cup UPSes \cup Switches \cup Ovens

Entry(i, availability, latency) ==
  [index |-> i, availability |-> availability, latency |-> Silent,
   availabilities |-> <<5, Silent, 3>>, latencies |-> IF latency = Silent THEN <<>> ELSE <<latency>>]

MCHealth ==
  {[www |-> w, wlan |-> l, uptimeStats |-> {Entry(1, Silent, 1), Entry(2, 9, f), Entry(3, 9, 1)}] :
     w \in {"ok", "error", "odd"}, f \in {1, 9},
     l \in {[adopted |-> 2, disconnected |-> n] : n \in 0..2} \cup {[adopted |-> Silent, disconnected |-> 0]}}

MCWhen == (a1 :> {<<<<"wan">>, "backup">>}) @@ (a2 :> {<<<<"devices">>, "degraded">>})
            @@ (a3 :> {<<<<"internet">>, "down">>}) @@ (a4 :> {<<<<"wan", "quality">>, "degraded">>})
=============================================================================
