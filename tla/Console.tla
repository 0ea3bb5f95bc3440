------------------------------ MODULE Console ------------------------------
(***************************************************************************)
(* Writes to the UniFi console: internal/providers/unifi/write.go.  Each   *)
(* action logs in, reads one document, decides, writes the document back   *)
(* and logs out; several workers of the controller do so at once, a person *)
(* works in the UniFi UI meanwhile, and the console applies an outlet's    *)
(* new settings to its table a while after it has stored them.             *)
(***************************************************************************)
EXTENDS Naturals

CONSTANTS
  Writers,     \* the workers that may be performing a console action
  ConsoleActions, \* the console actions an Automation of this install holds
  Consoles,    \* what the console may hold when the story begins
  Bank,        \* outlet_caps of every outlet: "battery", "surge" or "unread"
  Policies,    \* what the install allows
  Patchings,   \* how the switch port may be patched
  Names,       \* names a person may give to an outlet
  Placeholder, \* the names the console itself gives to outlets
  NoBody,      \* nothing read yet
  MaxWrites,   \* bound on the actions begun
  MaxEdits     \* bound on the changes a person makes

\* The console actions an author may write (api/v1alpha1): an outlet or a port
\* is named as well as numbered.
IsWLAN(action) == action.kind = "wlan" /\ action.want \in {"on", "off"}
IsPoEPort(action) == action.kind = "poe"
IsOutlet(action) ==
  /\ action.kind = "outlet" /\ action.want \in {"on", "off"}
  /\ action.name \notin Placeholder

\* What the install's allowlists parse to; an outlet entry carries a name too,
\* and one that does not parse keeps the manager from starting.
IsWritePolicy(allowed) == \A entry \in allowed.outlets : entry[2] \notin Placeholder

\* The documents, as far as an action looks into them: a wlan's configuration,
\* the overrides of a device's outlets, the port of a switch.
Positions == {"on", "off", "unread"}
WLAN == [name : {c.wlan.name : c \in Consoles}, on : Positions, rest : Positions]
Outlet == [on : Positions, name : Names \cup Placeholder]
Overrides == UNION {[outlets -> Outlet] : outlets \in SUBSET DOMAIN Bank}
Document == [wlan : WLAN, overrides : Overrides, port : Patchings]

ASSUME ConsoleConstants ==
  /\ \A action \in ConsoleActions : IsWLAN(action) \/ IsPoEPort(action) \/ IsOutlet(action)
  /\ \A allowed \in Policies : IsWritePolicy(allowed)
  /\ Consoles \subseteq Document
  /\ NoBody \notin Writers

VARIABLES
  policy,   \* the install's WritePolicy and whether it has credentials
  console,  \* the documents the console stores
  table,    \* outlet_table: what it reports of the outlets
  writer,   \* each worker's action
  begun,    \* actions begun
  edits     \* changes made by a person

consoleVars == <<policy, console, table, writer, begun, edits>>

\* A worker that is performing no console action.
Resting ==
  [at |-> "idle", action |-> NoBody, body |-> NoBody, truth |-> "unread", fresh |-> FALSE,
   carried |-> 0, session |-> "none", report |-> "none"]

ConsoleInit ==
  /\ policy \in Policies
  /\ console \in Consoles
  /\ table = console.overrides
  /\ writer = [w \in Writers |-> Resting]
  /\ begun = 0
  /\ edits = 0

-----------------------------------------------------------------------------
\* What can be decided without the console.

\* An install that allows nothing refuses everything.
PolicyEmpty == policy.wlans = {} /\ ~policy.port /\ policy.outlets = {}

\* check: a wlan by its name, a port by switch and index, an outlet by its
\* index and its name, which must not be the console's own.
Allowed(action) ==
  /\ ~PolicyEmpty /\ policy.credentialed
  /\ CASE action.kind = "wlan" -> action.name \in policy.wlans
       [] action.kind = "poe"  -> policy.port
       [] OTHER -> action.name \notin Placeholder /\ <<action.outlet, action.name>> \in policy.outlets

-----------------------------------------------------------------------------
\* What the document read says of an action: "refuse", "nothing" to do, "write".

LookAtWLAN(action) ==
  IF console.wlan.name # action.name \/ console.wlan.on = "unread" THEN "refuse"
  ELSE IF console.wlan.on = action.want THEN "nothing" ELSE "write"

\* Wrong: the name is what identifies a port, and that is all that is checked.
CheckPortByName(action) ==
  IF console.port.name = action.name /\ console.port.poe = "yes" THEN "write" ELSE "refuse"

\* checkPort: the name agrees, and the switch says that the port is not its
\* uplink, supplies PoE and has not had it turned off.
CheckPort(action) ==
  IF /\ console.port.name = action.name
     /\ console.port.uplink = "no"
     /\ console.port.poe = "yes"
     /\ console.port.enabled # "no"
  THEN "write" ELSE "refuse"

\* checkOutlet: the table's name agrees and the bank is known and consented to.
OutletAgreed(action) ==
  /\ action.outlet \in DOMAIN table /\ table[action.outlet].name = action.name
  /\ Bank[action.outlet] = "surge" \/ (Bank[action.outlet] = "battery" /\ policy.battery)

\* The overrides carry an entry for the outlet, under the same name.
Addressable(action) ==
  action.outlet \in DOMAIN console.overrides /\ console.overrides[action.outlet].name = action.name

LookAtOutlet(action) ==
  IF ~OutletAgreed(action) \/ table[action.outlet].on = "unread" THEN "refuse"
  ELSE IF table[action.outlet].on = action.want THEN "nothing"
  ELSE IF ~Addressable(action) THEN "refuse" ELSE "write"

Look(action) ==
  CASE action.kind = "wlan" -> LookAtWLAN(action)
    [] action.kind = "poe"  -> CheckPort(action)
    [] OTHER                -> LookAtOutlet(action)

\* Wrong: the array sent is put together from the outlet table.
BodyFromTable(action) ==
  CASE action.kind = "wlan" -> [console.wlan EXCEPT !.on = action.want]
    [] action.kind = "poe"  -> NoBody
    [] OTHER -> [o \in DOMAIN console.overrides |->
                   IF o = action.outlet THEN [table[o] EXCEPT !.on = action.want] ELSE table[o]]

\* The document to send back: the record read with its one field changed, or
\* rewriteOutletOverrides; the command of a cycle carries none.
Body(action) ==
  CASE action.kind = "wlan" -> [console.wlan EXCEPT !.on = action.want]
    [] action.kind = "poe"  -> NoBody
    [] OTHER -> [console.overrides EXCEPT ![action.outlet].on = action.want]

\* The level the console really has stored for the object of the action, unless
\* the table it reports is behind it.
Stored(action) ==
  IF action.kind = "wlan" THEN console.wlan.on
  ELSE IF action.kind = "poe" \/ action.outlet \notin DOMAIN console.overrides THEN "unread"
  ELSE IF console.overrides[action.outlet].on = table[action.outlet].on
       THEN table[action.outlet].on ELSE "lagging"

-----------------------------------------------------------------------------
\* Writer.Apply, one step for each exchange with the console.

\* Refused before a session is opened, or on to the login.
BeginWrite(w, action) ==
  /\ writer[w].at = "idle" /\ begun < MaxWrites
  /\ begun' = begun + 1
  /\ writer' = [writer EXCEPT ![w] =
       IF Allowed(action)
       THEN [Resting EXCEPT !.at = "login", !.action = action]
       ELSE [Resting EXCEPT !.action = action, !.report = "Failed"]]
  /\ UNCHANGED <<policy, console, table, edits>>

\* The login fails, perhaps after the console has opened the session: its reply
\* was lost, or carried no csrf token.  Nothing ends that session.
LoginFails(w) ==
  /\ writer[w].at = "login"
  /\ \E left \in {"none", "orphan"} :
       writer' = [writer EXCEPT ![w].at = "idle", ![w].session = left, ![w].report = "Failed"]
  /\ UNCHANGED <<policy, console, table, begun, edits>>

OpenSession(w) ==
  /\ writer[w].at = "login"
  /\ writer' = [writer EXCEPT ![w].at = "read", ![w].session = "open"]
  /\ UNCHANGED <<policy, console, table, begun, edits>>

\* The document cannot be read.
ReadFails(w) ==
  /\ writer[w].at = "read"
  /\ writer' = [writer EXCEPT ![w].at = "logout", ![w].report = "Failed"]
  /\ UNCHANGED <<policy, console, table, begun, edits>>

\* Wrong: a refusal returns past the logout.
ReadAndLeave(w) ==
  LET action == writer[w].action  verdict == Look(action) IN
  /\ writer[w].at = "read"
  /\ writer' = [writer EXCEPT
       ![w].at = CASE verdict = "write" -> "write" [] verdict = "refuse" -> "idle" [] OTHER -> "logout",
       ![w].report = CASE verdict = "refuse" -> "Failed" [] verdict = "nothing" -> "Success" [] OTHER -> @,
       ![w].body = IF verdict = "write" THEN Body(action) ELSE @,
       ![w].truth = Stored(action),
       ![w].fresh = TRUE]
  /\ UNCHANGED <<policy, console, table, begun, edits>>

\* Read the document, check that it is the one meant, decide.
ReadDocument(w) ==
  LET action == writer[w].action  verdict == Look(action) IN
  /\ writer[w].at = "read"
  /\ writer' = [writer EXCEPT
       ![w].at = IF verdict = "write" THEN "write" ELSE "logout",
       ![w].report = CASE verdict = "refuse" -> "Failed" [] verdict = "nothing" -> "Success" [] OTHER -> @,
       ![w].body = IF verdict = "write" THEN Body(action) ELSE @,
       ![w].truth = Stored(action),
       ![w].fresh = TRUE]
  /\ UNCHANGED <<policy, console, table, begun, edits>>

\* What the console makes of a write it takes: the body replaces the document.
Take(w) ==
  CASE writer[w].action.kind = "wlan" -> [console EXCEPT !.wlan = writer[w].body]
    [] writer[w].action.kind = "poe"  -> console
    [] OTHER -> [console EXCEPT !.overrides = writer[w].body]

\* The documents the other workers have read are no longer what is stored.
Outdate(except) ==
  [w \in Writers |->
     IF w = except THEN writer[w]
     ELSE [writer[w] EXCEPT !.fresh = @ /\ console' = console]]

\* Wrong: an answer of 200 is taken at its word.
SendTrusting(w) ==
  /\ writer[w].at = "write"
  /\ \E taken \in BOOLEAN, answer \in {"echo", "lost", "rejected"} :
       /\ answer = "rejected" => ~taken
       /\ (answer = "echo" /\ ~taken) => writer[w].action.kind # "poe"
       /\ console' = IF taken THEN Take(w) ELSE console
       /\ writer' = [Outdate(w) EXCEPT
            ![w].at = "logout",
            ![w].carried = IF taken THEN @ + 1 ELSE @,
            ![w].report = IF answer = "echo" THEN "Success" ELSE "Failed"]
  /\ UNCHANGED <<policy, table, begun, edits>>

\* Send the write, once.  The answer echoes the record stored, so a 200 that
\* did not take is found out; an answer may be lost after the console took the
\* write.  (A console that neither takes a write nor shows the record is out
\* of anyone's sight and is not modelled.)
SendWrite(w) ==
  /\ writer[w].at = "write"
  /\ \E taken \in BOOLEAN, answer \in {"echo", "lost", "rejected"} :
       /\ answer = "rejected" => ~taken
       /\ (answer = "echo" /\ ~taken) => writer[w].action.kind # "poe"
       /\ console' = IF taken THEN Take(w) ELSE console
       /\ writer' = [Outdate(w) EXCEPT
            ![w].at = "logout",
            ![w].carried = IF taken THEN @ + 1 ELSE @,
            ![w].report = IF answer = "echo" /\ taken THEN "Success" ELSE "Failed"]
  /\ UNCHANGED <<policy, table, begun, edits>>

\* The deferred logout, whose failure nobody hears of.
EndSession(w) ==
  /\ writer[w].at = "logout"
  /\ \E ended \in BOOLEAN :
       writer' = [writer EXCEPT ![w].at = "idle", ![w].session = IF ended THEN "none" ELSE "orphan"]
  /\ UNCHANGED <<policy, console, table, begun, edits>>

-----------------------------------------------------------------------------
\* The console's own doings and the person at its UI.

\* What has been stored takes effect.
ApplySettings ==
  /\ table # console.overrides
  /\ table' = console.overrides
  /\ UNCHANGED <<policy, console, writer, begun, edits>>

ByHand(changed) ==
  /\ edits < MaxEdits /\ edits' = edits + 1
  /\ console' = changed /\ console' # console
  /\ writer' = Outdate(NoBody)
  /\ UNCHANGED <<policy, table, begun>>

EditWLAN ==
  \E field \in {"on", "rest"} :
    ByHand([console EXCEPT !.wlan[field] =
              CASE @ = "on" -> "off" [] @ = "off" -> "on" [] OTHER -> @])

SwitchOutlet ==
  \E o \in DOMAIN console.overrides :
    ByHand([console EXCEPT !.overrides[o].on = CASE @ = "on" -> "off" [] @ = "off" -> "on" [] OTHER -> @])

RenameOutlet ==
  \E o \in DOMAIN console.overrides, name \in Names :
    ByHand([console EXCEPT !.overrides[o].name = name])

Repatch == \E port \in Patchings : ByHand([console EXCEPT !.port = port])

PersonOrConsole == ApplySettings \/ EditWLAN \/ SwitchOutlet \/ RenameOutlet \/ Repatch

WriterSteps(w) ==
  \/ LoginFails(w) \/ OpenSession(w) \/ ReadFails(w) \/ ReadDocument(w)
  \/ SendWrite(w) \/ EndSession(w)

-----------------------------------------------------------------------------
CarriesOut(w) == writer'[w].carried > writer[w].carried

\* A read-modify-write without versions undoes at most what was done between
\* its own read and write: if nothing changed meanwhile, only the field the
\* Automation asked about does (setWLANEnabled; rewriteOutletOverrides: "every
\* other outlet's entry ... is carried back untouched").
OnlyTheAddressed ==
  [][\A w \in Writers : CarriesOut(w) /\ writer[w].fresh =>
       LET action == writer[w].action IN
       console' \in {console,
                     [console EXCEPT !.wlan.on = IF action.kind = "wlan" THEN action.want ELSE @],
                     [console EXCEPT !.overrides =
                        [o \in DOMAIN @ |-> IF action.kind = "outlet" /\ o = action.outlet
                                            THEN [@[o] EXCEPT !.on = action.want] ELSE @[o]]]}
    ]_consoleVars

\* Three parties agree on what is written: the install allows the object by
\* name, and the console calls it so when the write arrives, an uplink is never
\* cycled and a battery-backed outlet moves on consent alone, unless somebody
\* re-patched or renamed it in the few milliseconds since the check.
AgreedWhenWritten ==
  [][\A w \in Writers : CarriesOut(w) =>
       LET action == writer[w].action IN
       /\ action.kind = "wlan" => action.name \in policy.wlans
       /\ action.kind = "outlet" => /\ <<action.outlet, action.name>> \in policy.outlets
                                    /\ Bank[action.outlet] # "unread"
                                    /\ Bank[action.outlet] = "battery" => policy.battery
       /\ writer[w].fresh =>
            CASE action.kind = "wlan" -> console.wlan.name = action.name
              [] action.kind = "poe"  -> console.port.name = action.name /\ console.port.uplink = "no"
              [] OTHER -> console.overrides[action.outlet].name = action.name
    ]_consoleVars

\* A console action that succeeded was written once, or its object was already
\* as wanted (or was so reported by a table that lagged behind); a 200 that did
\* not take is no success, and nothing is ever written twice (write.go, Apply).
SuccessMeansSet ==
  \A w \in Writers :
    /\ writer[w].carried <= 1
    /\ writer[w].report = "Success" /\ writer[w].carried = 0 =>
         writer[w].truth \in {writer[w].action.want, "lagging"}

\* A worker that is done with its action leaves no session it could have ended
\* (Writer.Apply: "Each action opens one, uses it ... and ends it").
NoSessionLeft == \A w \in Writers : writer[w].at = "idle" => writer[w].session # "open"

\* The comment on the position of record (write.go:806): an override that says
\* otherwise "can only cost a write that was not needed", so an action that
\* wrote nothing found the console already holding what it wants.
SkippedOnlyIfSet ==
  \A w \in Writers :
    writer[w].report = "Success" /\ writer[w].carried = 0 => writer[w].truth = writer[w].action.want

=============================================================================
