--------------------------- MODULE MCEdgeActions ---------------------------
EXTENDS EdgeActions, TLC
CONSTANTS S1, S2, O1, O2, Nas, Lamp, Outlet2, Guest, Ap, T1, T2

Web(host) == [scheme |-> "https", user |-> FALSE, host |-> host, port |-> 0]
Entry(host) == [any |-> FALSE, scheme |-> "https", host |-> host, port |-> 0, path |-> FALSE]

MCInstalls ==
  {[dryRun |-> FALSE, console |-> TRUE, entries |-> {Entry(<<"*", "home">>)}],
   [dryRun |-> FALSE, console |-> FALSE, entries |-> {}],
   [dryRun |-> TRUE, console |-> TRUE, entries |-> {Entry(<<"*", "home">>)}]}

Action(type, method, idempotent, url, secret) ==
  [type |-> type, method |-> method, idempotent |-> idempotent, url |-> url,
   secret |-> secret, renders |-> TRUE]

MCActions ==
  {Action("kubernetes.restart", "POST", "unset", NoURL, NoSecret),
   Action("http.request", "POST", "unset", Web(<<"hooks", "home">>), NoSecret),
   Action("http.request", "GET", "no", Web(<<"hooks", "home">>), NoSecret),
   Action("http.request", "PUT", "unset", Web(<<"home">>), NoSecret),
   Action("homeassistant.service", "POST", "yes", Web(<<"ha", "home">>), S1),
   Action("qbittorrent", "POST", "unset", Web(<<"bt", "home">>), S2),
   Action("notification", "POST", "unset", NoURL, S1)}

Outside == Action("unifi", "POST", "unset", NoURL, NoSecret)

MCLists == {<<>>, <<Outside>>}
           \cup {<<a, b>> : a, b \in MCActions}
           \cup {<<Action("qbittorrent", "POST", "unset", Web(<<"bt", "home">>), S2),
                   Action("notification", "POST", "unset", NoURL, S1),
                   Action("http.request", "POST", "unset", Web(<<"hooks", "home">>), NoSecret)>>}

MCSecrets ==
  {[url |-> Web(<<"ntfy", "home">>), authorization |-> "good", header |-> "absent", login |-> TRUE],
   [url |-> NoURL, authorization |-> "good", header |-> "absent", login |-> TRUE],
   [url |-> NoURL, authorization |-> "unusable", header |-> "absent", login |-> TRUE]}

-----------------------------------------------------------------------------
MCBank == O1 :> "battery" @@ O2 :> "surge"

Port(uplink, poe) == [name |-> Ap, uplink |-> uplink, poe |-> poe, enabled |-> "yes"]

MCPatchings == {Port("yes", "yes"), Port("no", "yes"), [Port("no", "yes") EXCEPT !.name = Lamp]}

MCConsoles ==
  {[wlan |-> [name |-> Guest, on |-> "on", rest |-> "on"],
    overrides |-> O1 :> [on |-> "on", name |-> Nas] @@ O2 :> [on |-> "on", name |-> IF port.name = Ap THEN Lamp ELSE Outlet2],
    port |-> port] : port \in MCPatchings}

MCPolicies ==
  {[wlans |-> {Guest}, port |-> TRUE, outlets |-> {<<O1, Nas>>, <<O2, Lamp>>},
    battery |-> battery, credentialed |-> TRUE] : battery \in BOOLEAN}

Cut(o, name) == [kind |-> "outlet", outlet |-> o, name |-> name, want |-> "off"]
Restore(o, name) == [Cut(o, name) EXCEPT !.want = "on"]

MCConsoleActions ==
  {[kind |-> "wlan", outlet |-> O1, name |-> Guest, want |-> "off"],
   [kind |-> "poe", outlet |-> O1, name |-> Ap, want |-> "on"],
   Cut(O1, Nas), Restore(O1, Nas), Cut(O2, Lamp), Cut(O2, Nas)}

MCManifests == {{Webhook, T1}, {Webhook, T1, T2}, {T1}, {Webhook}}

\* What a transition never looks at is given one value only.
MCInit ==
  /\ Init
  /\ (install.console /\ Outside \in ToSet(list))
       \/ (console.port = Port("no", "yes") /\ console.overrides[O2].name = Lamp /\ policy.battery)
  /\ list = <<>> \/ manifest = {Webhook, T1}
  /\ list = <<>> => ~install.console

MCSpec == MCInit /\ [][Next]_vars
=============================================================================
