------------------------- MODULE EdgeActionsProofs -------------------------
(***************************************************************************)
(* What holds of every edge action, whatever the list, the install, the    *)
(* console and the answers: of the worker and the outbound client          *)
(* (Delivery), of the console's writer beside other workers and a person   *)
(* (Console), and of the registrar (AlarmRegistrar).                       *)
(***************************************************************************)
EXTENDS EdgeActions, SequenceTheorems, TLAPS

(***************************************************************************)
(* The registrar.                                                          *)
(***************************************************************************)

\* A rule is about to be created only where there is none and none on its way.
RegistrarInv ==
  /\ rules \in Nat /\ posts \in Nat /\ raced \in BOOLEAN
  /\ ~raced => rules + posts <= 1
  /\ ~raced /\ registrar = "create" => rules + posts = 0

\* The registrar, started and stopped at any point, keeps to one rule.
LEMMA RegistrarStep == RegistrarInv /\ [RegistrarNext]_registrarVars => RegistrarInv'
<1>. SUFFICES ASSUME RegistrarInv, [RegistrarNext]_registrarVars PROVE RegistrarInv'
  OBVIOUS
<1>. USE DEF RegistrarInv
<1>1. CASE StartRegistrar \/ RegistrarFails \/ LogIn \/ ReadManifest
  BY <1>1 DEF StartRegistrar, RegistrarFails, LogIn, ReadManifest
<1>2. CASE ListRules
  <2>1. UNCHANGED <<rules, posts>> /\ (rules > 0 => registrar' = "off")
    BY <1>2 DEF ListRules
  <2>2. raced' \in BOOLEAN /\ (~raced' => ~raced /\ ~(posts > 0))
    BY <1>2 DEF ListRules
  <2>. QED  BY <2>1, <2>2
<1>3. CASE CreateRule
  BY <1>3 DEF CreateRule
<1>4. CASE PostLands \/ DeleteRule
  BY <1>4 DEF PostLands, DeleteRule
<1>5. CASE UNCHANGED registrarVars
  BY <1>5 DEF registrarVars
<1>. QED  BY <1>1, <1>2, <1>3, <1>4, <1>5 DEF RegistrarNext

(***************************************************************************)
(* The writer.                                                             *)
(***************************************************************************)

\* What a worker keeps of one console action; what was read is not kept once
\* the body is decided.
Writer ==
  [at : {"idle", "login", "read", "write", "logout"},
   action : ConsoleActions \cup {NoBody},
   body : {NoBody} \cup Overrides \cup WLAN,
   truth : Positions \cup {"lagging"},
   fresh : BOOLEAN,
   carried : Nat,
   session : {"none", "open", "orphan"},
   report : {"none", "Success", "Failed"}]

\* Types of the console's side; the table has an entry for each stored outlet.
ConsoleType ==
  /\ policy \in Policies
  /\ console \in Document
  /\ table \in Overrides /\ DOMAIN table = DOMAIN console.overrides
  /\ writer \in [Writers -> Writer]

\* What a write that was let through is about: an outlet whose bank is known,
\* and a body of the shape of the document it replaces.
Meant(action, body) ==
  /\ action.kind = "wlan" => body \in WLAN
  /\ action.kind = "outlet" =>
       /\ body \in [DOMAIN console.overrides -> Outlet]
       /\ Bank[action.outlet] = "surge" \/ (Bank[action.outlet] = "battery" /\ policy.battery)

\* As long as the document is the one read, the object is the one named.
Named(action) ==
  /\ action.kind = "wlan" => console.wlan.name = action.name
  /\ action.kind = "poe" => console.port.name = action.name /\ console.port.uplink = "no"
  /\ action.kind = "outlet" => Addressable(action)

\* What the record of a worker says at each point of its action.
Fit(r) ==
  /\ r.at # "idle" => r.action \in ConsoleActions /\ Allowed(r.action)
  /\ r.at \in {"login", "read", "write"} => r.carried = 0 /\ r.report = "none"
  /\ r.at \in {"idle", "login"} => r.session # "open"
  /\ r.at = "write" => Meant(r.action, r.body)
  /\ r.at = "write" /\ r.fresh => r.body = Body(r.action) /\ Named(r.action)
  /\ r.carried <= 1
  /\ r.report = "Success" /\ r.carried = 0 => r.truth \in {r.action.want, "lagging"}

\* The console's side: every worker is where its record says.
ConsoleInv == ConsoleType /\ \A w \in Writers : Fit(writer[w])

\* What a worker relies on is read off its record and what the console holds.
LEMMA SameDocuments ==
  ASSUME UNCHANGED <<policy, console>>, NEW w \in Writers, Fit(writer'[w])
  PROVE  Fit(writer[w])'
<1>1. (writer[w].at # "idle" => writer[w].action \in ConsoleActions /\ Allowed(writer[w].action))'
  BY DEF Fit, Allowed, PolicyEmpty
<1>2. (writer[w].at = "write" => Meant(writer[w].action, writer[w].body))'
  BY DEF Fit, Meant
<1>3. (writer[w].at = "write" /\ writer[w].fresh =>
        writer[w].body = Body(writer[w].action) /\ Named(writer[w].action))'
  BY DEF Fit, Body, Named, Addressable
<1>. QED  BY <1>1, <1>2, <1>3 DEF Fit

\* The step of one worker leaves the others where they are.
LEMMA OneWriterMoves ==
  ASSUME ConsoleInv, UNCHANGED <<policy, console, table>>, NEW w \in Writers,
         NEW r \in Writer, Fit(r), writer' = [writer EXCEPT ![w] = r]
  PROVE  ConsoleInv'
<1>1. ConsoleType'
  BY DEF ConsoleInv, ConsoleType
<1>2. ASSUME NEW v \in Writers PROVE Fit(writer[v])'
  <2>1. Fit(writer'[v])
    <3>1. CASE v = w
      BY <3>1 DEF ConsoleInv, ConsoleType
    <3>2. CASE v # w
      BY <3>2 DEF ConsoleInv, ConsoleType
    <3>. QED  BY <3>1, <3>2
  <2>. QED  BY <2>1, SameDocuments
<1>. QED  BY <1>1, <1>2 DEF ConsoleInv

\* A worker that rests is well placed.
LEMMA RestingFits == Resting \in Writer /\ Fit(Resting)
BY DEF Resting, Writer, Fit, Positions

\* A worker begins, unless the install refuses.
LEMMA BeginFits ==
  ASSUME ConsoleInv, NEW w \in Writers, NEW action \in ConsoleActions, BeginWrite(w, action)
  PROVE  ConsoleInv'
<1>1. CASE Allowed(action)
  <2>. DEFINE r == [Resting EXCEPT !.at = "login", !.action = action]
  <2>1. r \in Writer
    BY DEF Resting, Writer, Positions
  <2>2. Fit(r)
    BY <1>1 DEF Fit, Resting
  <2>3. writer' = [writer EXCEPT ![w] = r] /\ UNCHANGED <<policy, console, table>>
    BY <1>1 DEF BeginWrite
  <2>. HIDE DEF r
  <2>. QED  BY <2>1, <2>2, <2>3, OneWriterMoves
<1>2. CASE ~Allowed(action)
  <2>. DEFINE r == [Resting EXCEPT !.action = action, !.report = "Failed"]
  <2>1. r \in Writer
    BY DEF Resting, Writer, Positions
  <2>2. Fit(r)
    BY DEF Fit, Resting
  <2>3. writer' = [writer EXCEPT ![w] = r] /\ UNCHANGED <<policy, console, table>>
    BY <1>2 DEF BeginWrite
  <2>. HIDE DEF r
  <2>. QED  BY <2>1, <2>2, <2>3, OneWriterMoves
<1>. QED  BY <1>1, <1>2

\* The steps that look at no document.
LEMMA SessionFits ==
  ASSUME ConsoleInv, NEW w \in Writers,
         LoginFails(w) \/ OpenSession(w) \/ ReadFails(w) \/ EndSession(w)
  PROVE  ConsoleInv'
<1>. DEFINE old == writer[w]
<1>1. old \in Writer /\ Fit(old) /\ writer \in [Writers -> Writer]
  BY DEF ConsoleInv, ConsoleType
<1>2. CASE LoginFails(w)
  <2>1. PICK left \in {"none", "orphan"} :
          writer' = [writer EXCEPT ![w].at = "idle", ![w].session = left, ![w].report = "Failed"]
    BY <1>2 DEF LoginFails
  <2>. DEFINE r == [old EXCEPT !.at = "idle", !.session = left, !.report = "Failed"]
  <2>2. r \in Writer
    BY <1>1 DEF Writer
  <2>3. Fit(r)
    BY <1>1 DEF Fit, Writer
  <2>4. writer' = [writer EXCEPT ![w] = r] /\ UNCHANGED <<policy, console, table>>
    BY <1>1, <1>2, <2>1 DEF LoginFails, Writer
  <2>. HIDE DEF r
  <2>. QED  BY <2>2, <2>3, <2>4, OneWriterMoves
<1>3. CASE OpenSession(w)
  <2>. DEFINE r == [old EXCEPT !.at = "read", !.session = "open"]
  <2>1. r \in Writer
    BY <1>1 DEF Writer
  <2>2. Fit(r)
    BY <1>1, <1>3 DEF Fit, Writer, OpenSession
  <2>3. writer' = [writer EXCEPT ![w] = r] /\ UNCHANGED <<policy, console, table>>
    BY <1>1, <1>3 DEF OpenSession, Writer
  <2>. HIDE DEF r
  <2>. QED  BY <2>1, <2>2, <2>3, OneWriterMoves
<1>4. CASE ReadFails(w)
  <2>. DEFINE r == [old EXCEPT !.at = "logout", !.report = "Failed"]
  <2>1. r \in Writer
    BY <1>1 DEF Writer
  <2>2. Fit(r)
    BY <1>1, <1>4 DEF Fit, Writer, ReadFails
  <2>3. writer' = [writer EXCEPT ![w] = r] /\ UNCHANGED <<policy, console, table>>
    BY <1>1, <1>4 DEF ReadFails, Writer
  <2>. HIDE DEF r
  <2>. QED  BY <2>1, <2>2, <2>3, OneWriterMoves
<1>5. CASE EndSession(w)
  <2>1. PICK left \in {"none", "orphan"} :
          writer' = [writer EXCEPT ![w].at = "idle", ![w].session = left]
    BY <1>5 DEF EndSession
  <2>. DEFINE r == [old EXCEPT !.at = "idle", !.session = left]
  <2>2. r \in Writer
    BY <1>1 DEF Writer
  <2>3. Fit(r)
    BY <1>1 DEF Fit, Writer
  <2>4. writer' = [writer EXCEPT ![w] = r] /\ UNCHANGED <<policy, console, table>>
    BY <1>1, <1>5, <2>1 DEF EndSession, Writer
  <2>. HIDE DEF r
  <2>. QED  BY <2>2, <2>3, <2>4, OneWriterMoves
<1>. QED  BY <1>2, <1>3, <1>4, <1>5

\* What can be written to the console, by the kind of object.
LEMMA Kinds ==
  ASSUME NEW action \in ConsoleActions
  PROVE  \/ action.kind = "wlan" /\ action.want \in {"on", "off"}
         \/ action.kind = "poe"
         \/ action.kind = "outlet" /\ action.want \in {"on", "off"}
BY ConsoleConstants DEF IsWLAN, IsPoEPort, IsOutlet

\* The overrides of a device are a function to outlets.
LEMMA OverridesShape ==
  ASSUME NEW f \in Overrides
  PROVE  /\ DOMAIN f \subseteq DOMAIN Bank
         /\ f \in [DOMAIN f -> Outlet]
         /\ [DOMAIN f -> Outlet] \subseteq Overrides
<1>1. PICK D \in SUBSET DOMAIN Bank : f \in [D -> Outlet]
  BY DEF Overrides
<1>2. DOMAIN f = D
  BY <1>1
<1>. QED  BY <1>1, <1>2 DEF Overrides

\* What reading a document makes of an action on a network.
LEMMA LookedAtWLAN ==
  ASSUME ConsoleType, NEW action \in ConsoleActions, action.kind = "wlan"
  PROVE  /\ Stored(action) \in Positions \cup {"lagging"}
         /\ Look(action) = "nothing" => Stored(action) = action.want
         /\ Look(action) = "write" =>
              Body(action) \in WLAN /\ Meant(action, Body(action)) /\ Named(action)
<1>1. console.wlan \in WLAN /\ action.want \in Positions
  BY Kinds DEF ConsoleType, Document, Positions
<1>2. Stored(action) = console.wlan.on /\ Look(action) = LookAtWLAN(action)
      /\ Body(action) = [console.wlan EXCEPT !.on = action.want]
  BY DEF Stored, Look, Body
<1>3. Body(action) \in WLAN
  BY <1>1, <1>2 DEF WLAN
<1>4. Look(action) = "nothing" => console.wlan.on = action.want
  BY <1>2 DEF LookAtWLAN
<1>5. Look(action) = "write" => console.wlan.name = action.name
  BY <1>2 DEF LookAtWLAN
<1>6. console.wlan.on \in Positions
  BY <1>1 DEF WLAN
<1>. QED  BY <1>2, <1>3, <1>4, <1>5, <1>6 DEF Meant, Named

\* ... on a port ...
LEMMA LookedAtPort ==
  ASSUME NEW action \in ConsoleActions, action.kind = "poe"
  PROVE  /\ Stored(action) \in Positions
         /\ Look(action) # "nothing"
         /\ Look(action) = "write" =>
              Body(action) = NoBody /\ Meant(action, Body(action)) /\ Named(action)
<1>1. Stored(action) = "unread" /\ Look(action) = CheckPort(action) /\ Body(action) = NoBody
  BY DEF Stored, Look, Body
<1>. QED  BY <1>1 DEF CheckPort, Positions, Meant, Named

\* ... and on an outlet.
LEMMA LookedAtOutlet ==
  ASSUME ConsoleType, NEW action \in ConsoleActions, action.kind = "outlet"
  PROVE  /\ Stored(action) \in Positions \cup {"lagging"}
         /\ Look(action) = "nothing" => Stored(action) \in {action.want, "lagging"}
         /\ Look(action) = "write" =>
              Body(action) \in Overrides /\ Meant(action, Body(action)) /\ Named(action)
<1>. DEFINE o == action.outlet
<1>1. /\ console.overrides \in Overrides /\ table \in Overrides
      /\ DOMAIN table = DOMAIN console.overrides /\ action.want \in Positions
  BY Kinds DEF ConsoleType, Document, Positions
<1>2. /\ console.overrides \in [DOMAIN console.overrides -> Outlet]
      /\ table \in [DOMAIN console.overrides -> Outlet]
      /\ [DOMAIN console.overrides -> Outlet] \subseteq Overrides
  BY <1>1, OverridesShape
<1>3. /\ Look(action) = LookAtOutlet(action)
      /\ Body(action) = [console.overrides EXCEPT ![o].on = action.want]
  BY DEF Look, Body
<1>4. Body(action) \in [DOMAIN console.overrides -> Outlet]
  <2>1. CASE o \in DOMAIN console.overrides
    <3>1. console.overrides[o] \in Outlet
      BY <1>2, <2>1
    <3>2. [console.overrides[o] EXCEPT !.on = action.want] \in Outlet
      BY <1>1, <3>1 DEF Outlet
    <3>. QED  BY <1>2, <1>3, <3>2
  <2>2. CASE o \notin DOMAIN console.overrides
    BY <1>2, <1>3, <2>2
  <2>. QED  BY <2>1, <2>2
<1>5. CASE o \notin DOMAIN console.overrides
  <2>1. Look(action) = "refuse"
    BY <1>1, <1>3, <1>5 DEF LookAtOutlet, OutletAgreed
  <2>2. Stored(action) = "unread"
    BY <1>5 DEF Stored
  <2>. QED  BY <2>1, <2>2 DEF Positions
<1>6. CASE o \in DOMAIN console.overrides
  <2>1. Stored(action) = IF console.overrides[o].on = table[o].on THEN table[o].on ELSE "lagging"
    BY <1>6 DEF Stored
  <2>2. table[o].on \in Positions
    BY <1>2, <1>6 DEF Outlet
  <2>3. Look(action) = "nothing" => table[o].on = action.want
    BY <1>3 DEF LookAtOutlet
  <2>4. Look(action) = "write" => OutletAgreed(action) /\ Addressable(action)
    BY <1>3 DEF LookAtOutlet
  <2>5. Look(action) = "write" => Meant(action, Body(action)) /\ Named(action)
    BY <1>4, <2>4 DEF Meant, Named, OutletAgreed
  <2>. QED  BY <1>2, <1>4, <2>1, <2>2, <2>3, <2>5
<1>. QED  BY <1>5, <1>6

\* A document is read, checked and decided upon.
LEMMA ReadFits ==
  ASSUME ConsoleInv, NEW w \in Writers, ReadDocument(w)
  PROVE  ConsoleInv'
<1>. DEFINE old == writer[w]
            action == writer[w].action
            report == CASE Look(action) = "refuse" -> "Failed"
                        [] Look(action) = "nothing" -> "Success" [] OTHER -> old.report
            body == IF Look(action) = "write" THEN Body(action) ELSE old.body
            r == [old EXCEPT !.at = IF Look(action) = "write" THEN "write" ELSE "logout",
                             !.report = report, !.body = body, !.truth = Stored(action),
                             !.fresh = TRUE]
<1>1. /\ old \in Writer /\ Fit(old) /\ writer \in [Writers -> Writer]
      /\ old.at = "read" /\ action \in ConsoleActions /\ Allowed(action)
      /\ old.carried = 0 /\ old.report = "none"
  BY DEF ConsoleInv, ConsoleType, Fit, ReadDocument
<1>2. /\ Stored(action) \in Positions \cup {"lagging"}
      /\ Look(action) = "nothing" => Stored(action) \in {action.want, "lagging"}
      /\ Look(action) = "write" =>
           /\ Body(action) \in {NoBody} \cup Overrides \cup WLAN
           /\ Meant(action, Body(action)) /\ Named(action)
  BY <1>1, Kinds, LookedAtWLAN, LookedAtPort, LookedAtOutlet DEF ConsoleInv
<1>3. writer' = [writer EXCEPT ![w] = r] /\ UNCHANGED <<policy, console, table>>
  BY <1>1 DEF ReadDocument, Writer
<1>4. /\ report \in {"Success", "Failed", "none"}
      /\ report = "Success" => Look(action) = "nothing"
  BY <1>1
<1>5. body \in {NoBody} \cup Overrides \cup WLAN
  BY <1>1, <1>2 DEF Writer
<1>6. /\ r.at = (IF Look(action) = "write" THEN "write" ELSE "logout")
      /\ r.action = action /\ r.body = body /\ r.truth = Stored(action) /\ r.fresh = TRUE
      /\ r.carried = 0 /\ r.report = report /\ r.session = old.session
      /\ r \in Writer
  <2>1. PICK at1 \in {"write", "logout"} : at1 = IF Look(action) = "write" THEN "write" ELSE "logout"
    OBVIOUS
  <2>2. PICK t \in Positions \cup {"lagging"} : t = Stored(action)
    BY <1>2
  <2>. HIDE DEF report, body
  <2>3. r = [old EXCEPT !.at = at1, !.report = report, !.body = body, !.truth = t, !.fresh = TRUE]
    BY <2>1, <2>2
  <2>4. old \in Writer /\ report \in {"Success", "Failed", "none"}
        /\ body \in {NoBody} \cup Overrides \cup WLAN
    BY <1>1, <1>4, <1>5
  <2>. HIDE DEF r, old
  <2>5. r.at = at1 /\ r.action = old.action /\ r.body = body /\ r.truth = t
    BY <2>3, <2>4 DEF Writer
  <2>6. /\ r.fresh = TRUE /\ r.carried = old.carried /\ r.report = report
        /\ r.session = old.session
    BY <2>3, <2>4 DEF Writer
  <2>7. r \in Writer
    BY <2>3, <2>4 DEF Writer
  <2>. QED  BY <1>1, <2>1, <2>2, <2>5, <2>6, <2>7 DEF old
<1>7. Fit(r)
  <2>1. CASE Look(action) = "write"
    <3>1. r.at = "write" /\ r.report = "none" /\ r.body = Body(action)
      BY <1>1, <1>6, <2>1
    <3>. HIDE DEF r, report, body
    <3>. QED  BY <1>1, <1>2, <1>6, <2>1, <3>1 DEF Fit
  <2>2. CASE Look(action) # "write"
    <3>1. r.at = "logout"
      BY <1>6, <2>2
    <3>. HIDE DEF r, report, body
    <3>. QED  BY <1>1, <1>2, <1>4, <1>6, <3>1 DEF Fit
  <2>. QED  BY <2>1, <2>2
<1>. HIDE DEF r
<1>. QED  BY <1>3, <1>6, <1>7, OneWriterMoves

\* Whatever is stored next, a worker that read the documents before knows that
\* they are old, and relies on their shape alone.
LEMMA OutdatedFits ==
  ASSUME ConsoleInv, UNCHANGED policy, NEW v \in Writers,
         DOMAIN console'.overrides = DOMAIN console.overrides,
         writer'[v] = [writer[v] EXCEPT !.fresh = @ /\ console' = console]
  PROVE  writer'[v] \in Writer /\ Fit(writer[v])'
<1>. DEFINE old == writer[v]
<1>1. old \in Writer /\ Fit(old)
  BY DEF ConsoleInv, ConsoleType
<1>2. PICK f \in BOOLEAN : /\ f = (old.fresh /\ console' = console)
                           /\ writer'[v] = [old EXCEPT !.fresh = f]
  <2>1. writer'[v] = [old EXCEPT !.fresh = (old.fresh /\ console' = console)]
    BY <1>1 DEF Writer
  <2>. QED  BY <2>1
<1>3. writer'[v] \in Writer
  BY <1>1, <1>2 DEF Writer
<1>4. /\ writer'[v].at = old.at /\ writer'[v].action = old.action /\ writer'[v].body = old.body
      /\ writer'[v].truth = old.truth /\ writer'[v].carried = old.carried
      /\ writer'[v].session = old.session /\ writer'[v].report = old.report
  BY <1>1, <1>2 DEF Writer
<1>5. writer'[v].fresh = f
  BY <1>1, <1>2 DEF Writer
<1>6. (writer[v].at # "idle" => writer[v].action \in ConsoleActions /\ Allowed(writer[v].action))'
  BY <1>1, <1>4 DEF Fit, Allowed, PolicyEmpty
<1>7. (writer[v].at = "write" => Meant(writer[v].action, writer[v].body))'
  BY <1>1, <1>4 DEF Fit, Meant
<1>8. (writer[v].at = "write" /\ writer[v].fresh =>
        writer[v].body = Body(writer[v].action) /\ Named(writer[v].action))'
  <2>1. CASE f
    <3>1. console' = console /\ old.fresh
      BY <1>2, <2>1
    <3>. QED  BY <1>1, <1>4, <3>1 DEF Fit, Body, Named, Addressable
  <2>2. CASE ~f
    BY <1>5, <2>2
  <2>. QED  BY <2>1, <2>2
<1>9. Fit(writer[v])'
  BY <1>1, <1>4, <1>6, <1>7, <1>8 DEF Fit
<1>. QED  BY <1>3, <1>9

\* What a console that takes a write stores is a document of the same shape.
LEMMA TakeShape ==
  ASSUME ConsoleInv, NEW w \in Writers, writer[w].at = "write"
  PROVE  Take(w) \in Document /\ DOMAIN Take(w).overrides = DOMAIN console.overrides
<1>. DEFINE action == writer[w].action
            body == writer[w].body
<1>1. /\ console \in Document /\ console.overrides \in Overrides
      /\ action \in ConsoleActions /\ Meant(action, body)
  BY DEF ConsoleInv, ConsoleType, Fit, Document
<1>2. CASE action.kind = "wlan"
  <2>1. body \in WLAN /\ Take(w) = [console EXCEPT !.wlan = body]
    BY <1>1, <1>2 DEF Meant, Take
  <2>. QED  BY <1>1, <2>1 DEF Document
<1>3. CASE action.kind = "poe"
  BY <1>1, <1>3 DEF Take
<1>4. CASE action.kind = "outlet"
  <2>1. /\ body \in [DOMAIN console.overrides -> Outlet]
        /\ Take(w) = [console EXCEPT !.overrides = body]
    BY <1>1, <1>4 DEF Meant, Take
  <2>2. body \in Overrides /\ DOMAIN body = DOMAIN console.overrides
    BY <1>1, <2>1, OverridesShape
  <2>. QED  BY <1>1, <2>1, <2>2 DEF Document
<1>. QED  BY <1>1, <1>2, <1>3, <1>4, Kinds

\* A write is sent, and taken or not.
LEMMA SendFits ==
  ASSUME ConsoleInv, NEW w \in Writers, SendWrite(w)
  PROVE  ConsoleInv'
<1>. DEFINE old == writer[w]
<1>1. /\ old \in Writer /\ Fit(old) /\ writer \in [Writers -> Writer]
      /\ old.at = "write" /\ old.action \in ConsoleActions /\ Allowed(old.action)
      /\ old.carried = 0
  BY DEF ConsoleInv, ConsoleType, Fit, SendWrite
<1>2. PICK taken \in BOOLEAN, reply \in {"echo", "lost", "rejected"} :
        /\ console' = IF taken THEN Take(w) ELSE console
        /\ writer' = [Outdate(w) EXCEPT
             ![w].at = "logout",
             ![w].carried = IF taken THEN @ + 1 ELSE @,
             ![w].report = IF reply = "echo" /\ taken THEN "Success" ELSE "Failed"]
  BY DEF SendWrite
<1>3. /\ console' \in Document /\ DOMAIN console'.overrides = DOMAIN console.overrides
      /\ UNCHANGED <<policy, table>>
  BY <1>1, <1>2, TakeShape DEF ConsoleInv, ConsoleType, SendWrite
<1>4. PICK n \in {0, 1}, report \in {"Success", "Failed"} :
        /\ n = (IF taken THEN old.carried + 1 ELSE old.carried)
        /\ report = (IF reply = "echo" /\ taken THEN "Success" ELSE "Failed")
  BY <1>1
<1>5. report = "Success" => n = 1
  BY <1>1, <1>4
<1>6. /\ writer' = [Outdate(w) EXCEPT ![w] = [old EXCEPT !.at = "logout", !.carried = n,
                                                         !.report = report]]
      /\ Outdate(w) = [v \in Writers |-> IF v = w THEN old
                         ELSE [writer[v] EXCEPT !.fresh = @ /\ console' = console]]
  <2>1. Outdate(w)[w] = old
    BY DEF Outdate
  <2>. QED  BY <1>1, <1>2, <1>4, <2>1 DEF Writer, Outdate
<1>7. ASSUME NEW v \in Writers PROVE writer'[v] \in Writer /\ Fit(writer[v])'
  <2>1. CASE v = w
    <3>1. writer'[w] = [old EXCEPT !.at = "logout", !.carried = n, !.report = report]
      BY <1>6
    <3>2. /\ writer'[w].at = "logout" /\ writer'[w].action = old.action
          /\ writer'[w].carried = n /\ writer'[w].report = report
      BY <1>1, <3>1 DEF Writer
    <3>3. writer'[w] \in Writer
      <4>1. old \in Writer /\ n \in Nat
        BY <1>1
      <4>. HIDE DEF old
      <4>. QED  BY <3>1, <4>1 DEF Writer
    <3>4. (writer[w].at # "idle" => writer[w].action \in ConsoleActions /\ Allowed(writer[w].action))'
      BY <1>1, <1>3, <3>2 DEF Allowed, PolicyEmpty
    <3>5. Fit(writer[w])'
      BY <1>5, <3>2, <3>4 DEF Fit
    <3>. QED  BY <2>1, <3>3, <3>5
  <2>2. CASE v # w
    <3>1. writer'[v] = [writer[v] EXCEPT !.fresh = @ /\ console' = console]
      BY <1>6, <2>2
    <3>. QED  BY <1>3, <3>1, OutdatedFits
  <2>. QED  BY <2>1, <2>2
<1>8. writer' \in [Writers -> Writer]
  <2>1. writer' = [v \in Writers |-> writer'[v]]
    BY <1>6
  <2>. QED  BY <1>7, <2>1
<1>. QED  BY <1>3, <1>7, <1>8 DEF ConsoleInv, ConsoleType

\* A person changes a document, or the console applies what it has stored.
LEMMA PersonFits ==
  ASSUME ConsoleInv, PersonOrConsole
  PROVE  ConsoleInv'
<1>1. /\ console \in Document /\ table \in Overrides /\ console.overrides \in Overrides
      /\ DOMAIN table = DOMAIN console.overrides /\ writer \in [Writers -> Writer]
      /\ console.wlan \in WLAN
  BY DEF ConsoleInv, ConsoleType, Document
<1>2. CASE ApplySettings
  <2>1. \A v \in Writers : Fit(writer[v])'
    <3>. SUFFICES ASSUME NEW v \in Writers PROVE Fit(writer[v])'
      OBVIOUS
    <3>1. Fit(writer'[v]) /\ UNCHANGED <<policy, console>>
      BY <1>2 DEF ApplySettings, ConsoleInv
    <3>. QED  BY <3>1, SameDocuments
  <2>2. ConsoleType'
    BY <1>1, <1>2 DEF ApplySettings, ConsoleInv, ConsoleType
  <2>. QED  BY <2>1, <2>2 DEF ConsoleInv
<1>3. ASSUME NEW doc \in Document, DOMAIN doc.overrides = DOMAIN console.overrides, ByHand(doc)
      PROVE  ConsoleInv'
  <2>1. /\ console' = doc /\ UNCHANGED <<policy, table>>
        /\ writer' = [v \in Writers |-> IF v = NoBody THEN writer[v]
                         ELSE [writer[v] EXCEPT !.fresh = @ /\ console' = console]]
    BY <1>3 DEF ByHand, Outdate
  <2>2. ASSUME NEW v \in Writers PROVE writer'[v] \in Writer /\ Fit(writer[v])'
    <3>1. writer'[v] = [writer[v] EXCEPT !.fresh = @ /\ console' = console]
      BY <2>1, ConsoleConstants
    <3>. QED  BY <1>3, <2>1, <3>1, OutdatedFits
  <2>3. writer' \in [Writers -> Writer]
    <3>1. writer' = [v \in Writers |-> writer'[v]]
      BY <2>1
    <3>. QED  BY <2>2, <3>1
  <2>. QED  BY <1>1, <1>3, <2>1, <2>2, <2>3 DEF ConsoleInv, ConsoleType
<1>. DEFINE Turned(x) == CASE x = "on" -> "off" [] x = "off" -> "on" [] OTHER -> x
<1>4. \A x \in Positions : Turned(x) \in Positions
  BY DEF Positions
<1>5. ASSUME NEW o \in DOMAIN console.overrides, NEW outlet \in Outlet
      PROVE  LET doc == [console EXCEPT !.overrides[o] = outlet] IN
             doc \in Document /\ DOMAIN doc.overrides = DOMAIN console.overrides
  <2>. DEFINE f == [console.overrides EXCEPT ![o] = outlet]
  <2>1. f \in [DOMAIN console.overrides -> Outlet]
    BY <1>1, OverridesShape
  <2>2. f \in Overrides /\ DOMAIN f = DOMAIN console.overrides
    BY <1>1, <2>1, OverridesShape
  <2>3. [console EXCEPT !.overrides[o] = outlet] = [console EXCEPT !.overrides = f]
    BY <1>1 DEF Document
  <2>. HIDE DEF f
  <2>. QED  BY <1>1, <2>2, <2>3 DEF Document
<1>6. \A o \in DOMAIN console.overrides : console.overrides[o] \in Outlet
  BY <1>1, OverridesShape
<1>7. CASE EditWLAN
  <2>1. PICK field \in {"on", "rest"} : ByHand([console EXCEPT !.wlan[field] = Turned(@)])
    BY <1>7 DEF EditWLAN
  <2>. DEFINE x == Turned(console.wlan[field])
              doc == [console EXCEPT !.wlan = [@ EXCEPT ![field] = x]]
  <2>2. x \in Positions
    BY <1>1, <1>4 DEF WLAN
  <2>3. [console.wlan EXCEPT ![field] = x] \in WLAN
    <3>. HIDE DEF x
    <3>1. CASE field = "on"
      BY <1>1, <2>2, <3>1 DEF WLAN
    <3>2. CASE field = "rest"
      BY <1>1, <2>2, <3>2 DEF WLAN
    <3>. QED  BY <3>1, <3>2
  <2>4. ByHand(doc)
    <3>1. doc = [console EXCEPT !.wlan[field] = Turned(@)]
      BY <1>1 DEF Document, WLAN
    <3>. QED  BY <2>1, <3>1
  <2>5. doc \in Document /\ DOMAIN doc.overrides = DOMAIN console.overrides
    BY <1>1, <2>3 DEF Document
  <2>. QED  BY <1>3, <2>4, <2>5
<1>8. CASE SwitchOutlet
  <2>1. PICK o \in DOMAIN console.overrides :
          ByHand([console EXCEPT !.overrides[o].on = Turned(@)])
    BY <1>8 DEF SwitchOutlet
  <2>. DEFINE x == Turned(console.overrides[o].on)
              outlet == [console.overrides[o] EXCEPT !.on = x]
              doc == [console EXCEPT !.overrides[o] = outlet]
  <2>2. outlet \in Outlet
    BY <1>4, <1>6 DEF Outlet
  <2>3. ByHand(doc)
    BY <1>1, <2>1 DEF Document
  <2>. QED  BY <1>3, <1>5, <2>2, <2>3
<1>9. CASE RenameOutlet
  <2>1. PICK o \in DOMAIN console.overrides, name \in Names :
          ByHand([console EXCEPT !.overrides[o].name = name])
    BY <1>9 DEF RenameOutlet
  <2>. DEFINE outlet == [console.overrides[o] EXCEPT !.name = name]
              doc == [console EXCEPT !.overrides[o] = outlet]
  <2>2. outlet \in Outlet
    BY <1>6 DEF Outlet
  <2>3. ByHand(doc)
    BY <1>1, <2>1 DEF Document
  <2>. QED  BY <1>3, <1>5, <2>2, <2>3
<1>10. CASE Repatch
  <2>1. PICK port \in Patchings : ByHand([console EXCEPT !.port = port])
    BY <1>10 DEF Repatch
  <2>2. [console EXCEPT !.port = port] \in Document
    BY <1>1 DEF Document
  <2>3. [console EXCEPT !.port = port].overrides = console.overrides
    BY <1>1 DEF Document
  <2>. QED  BY <1>3, <2>1, <2>2, <2>3
<1>. QED  BY <1>2, <1>7, <1>8, <1>9, <1>10 DEF PersonOrConsole

\* Whatever the workers, the console and the person do, the workers stay well placed.
LEMMA ConsoleStep ==
  ASSUME ConsoleInv,
         \/ PersonOrConsole
         \/ \E w \in Writers : WriterSteps(w)
         \/ \E w \in Writers, action \in ConsoleActions : BeginWrite(w, action)
  PROVE  ConsoleInv'
<1>1. ASSUME NEW w \in Writers, WriterSteps(w) PROVE ConsoleInv'
  BY <1>1, SessionFits, ReadFits, SendFits DEF WriterSteps
<1>. QED  BY <1>1, PersonFits, BeginFits

\* Initially every worker rests.
LEMMA ConsoleFirst == ConsoleInit => ConsoleInv
<1>. SUFFICES ASSUME ConsoleInit PROVE ConsoleInv
  OBVIOUS
<1>1. console \in Document /\ table = console.overrides /\ policy \in Policies
  BY ConsoleConstants DEF ConsoleInit
<1>2. console.overrides \in Overrides
  BY <1>1 DEF Document
<1>3. writer = [w \in Writers |-> Resting]
  BY DEF ConsoleInit
<1>4. \A w \in Writers : Resting \in Writer /\ writer[w] = Resting
  BY <1>3, RestingFits
<1>5. \A w \in Writers : Fit(writer[w])
  BY <1>4, RestingFits
<1>. QED  BY <1>1, <1>2, <1>3, <1>4, <1>5 DEF ConsoleInv, ConsoleType

\* What is written, and to what: of the one worker that carries out a write.
LEMMA WritesAsMeant ==
  ASSUME ConsoleInv, NEW w \in Writers, SendWrite(w),
         NEW v \in Writers, CarriesOut(v)
  PROVE  v = w /\ writer[w].at = "write" /\ console' = Take(w)
<1>. DEFINE old == writer[w]
<1>1. \A x \in Writers : writer[x] \in Writer /\ Fit(writer[x])
  BY DEF ConsoleInv, ConsoleType
<1>2. PICK taken \in BOOLEAN, reply \in {"echo", "lost", "rejected"} :
        /\ console' = IF taken THEN Take(w) ELSE console
        /\ writer' = [Outdate(w) EXCEPT
             ![w].at = "logout",
             ![w].carried = IF taken THEN @ + 1 ELSE @,
             ![w].report = IF reply = "echo" /\ taken THEN "Success" ELSE "Failed"]
  BY DEF SendWrite
<1>3. v = w
  <2>. SUFFICES ASSUME v # w PROVE FALSE
    OBVIOUS
  <2>1. writer'[v] = [writer[v] EXCEPT !.fresh = @ /\ console' = console]
    BY <1>2 DEF Outdate
  <2>2. writer'[v].carried = writer[v].carried /\ writer[v].carried \in Nat
    BY <1>1, <2>1 DEF Writer
  <2>. QED  BY <2>2 DEF CarriesOut
<1>4. taken
  <2>. SUFFICES ASSUME ~taken PROVE FALSE
    OBVIOUS
  <2>1. Outdate(w)[w] = old /\ w \in DOMAIN Outdate(w)
    BY DEF Outdate
  <2>2. writer'[w].carried = old.carried /\ old.carried \in Nat
    BY <1>1, <1>2, <2>1 DEF Writer
  <2>. QED  BY <1>3, <2>2 DEF CarriesOut
<1>. QED  BY <1>2, <1>3, <1>4 DEF SendWrite

\* No other step carries a write out.
LEMMA OnlySendsCarryOut ==
  ASSUME ConsoleInv, NEW v \in Writers, CarriesOut(v),
         \/ PersonOrConsole
         \/ \E w \in Writers : WriterSteps(w)
         \/ \E w \in Writers, action \in ConsoleActions : BeginWrite(w, action)
  PROVE  SendWrite(v) /\ writer[v].at = "write" /\ console' = Take(v)
<1>1. \A x \in Writers : writer[x] \in Writer /\ writer[x].carried \in Nat
  BY DEF ConsoleInv, ConsoleType, Writer
<1>2. writer'[v].carried # writer[v].carried /\ writer'[v].carried # 0
  <2>1. writer'[v].carried > writer[v].carried
    BY DEF CarriesOut
  <2>. QED  BY <1>1, <2>1
<1>3. ASSUME NEW w \in Writers, NEW r, writer' = [writer EXCEPT ![w] = r],
             r.carried \in {0, writer[w].carried}
      PROVE  FALSE
  BY <1>1, <1>2, <1>3 DEF ConsoleInv, ConsoleType
<1>4. ASSUME NEW w \in Writers, NEW action \in ConsoleActions, BeginWrite(w, action) PROVE FALSE
  <2>1. CASE Allowed(action)
    BY <1>3, <1>4, <2>1 DEF BeginWrite, Resting
  <2>2. CASE ~Allowed(action)
    BY <1>3, <1>4, <2>2 DEF BeginWrite, Resting
  <2>. QED  BY <2>1, <2>2
<1>5. ASSUME PersonOrConsole PROVE FALSE
  <2>1. CASE writer' = writer
    BY <1>2, <2>1
  <2>2. CASE writer' = Outdate(NoBody)
    <3>1. writer'[v] = [writer[v] EXCEPT !.fresh = @ /\ console' = console]
      BY <2>2, ConsoleConstants DEF Outdate
    <3>. QED  BY <1>1, <1>2, <3>1 DEF Writer
  <2>. QED
    BY <1>5, <2>1, <2>2 DEF PersonOrConsole, ApplySettings, EditWLAN, SwitchOutlet,
       RenameOutlet, Repatch, ByHand
<1>6. ASSUME NEW w \in Writers,
             LoginFails(w) \/ OpenSession(w) \/ ReadFails(w) \/ ReadDocument(w) \/ EndSession(w)
      PROVE  FALSE
  <2>1. CASE v # w
    BY <1>2, <1>6, <2>1 DEF LoginFails, OpenSession, ReadFails, ReadDocument, EndSession,
       ConsoleInv, ConsoleType
  <2>. SUFFICES ASSUME v = w PROVE writer'[w].carried = writer[w].carried
    BY <1>2, <2>1
  <2>. USE <1>1, <1>6 DEF ConsoleInv, ConsoleType, Writer
  <2>2. CASE LoginFails(w)
    BY <2>2 DEF LoginFails
  <2>3. CASE OpenSession(w)
    BY <2>3 DEF OpenSession
  <2>4. CASE ReadFails(w)
    BY <2>4 DEF ReadFails
  <2>5. CASE ReadDocument(w)
    BY <2>5 DEF ReadDocument
  <2>6. CASE EndSession(w)
    <3>1. PICK left \in {"none", "orphan"} :
            writer' = [writer EXCEPT ![w].at = "idle", ![w].session = left]
      BY <2>6 DEF EndSession
    <3>. QED  BY <3>1
  <2>. QED  BY <2>2, <2>3, <2>4, <2>5, <2>6
<1>. QED  BY <1>4, <1>5, <1>6, WritesAsMeant DEF WriterSteps

(***************************************************************************)
(* The actions of one transition.                                          *)
(***************************************************************************)

\* One entry of status.edgeActions.
Execution == [status : {"Success", "Failed", "Skipped"}, attempts : Nat]

\* The worker is repeating a request.
Requesting == at \in {"login", "act", "logout", "judge", "wait"}

\* Types of one transition and of the client.
DeliveryType ==
  /\ install \in Installs /\ list \in Lists
  /\ results \in Seq(Execution) /\ Len(results) <= Len(list)
  /\ at \in {"next", "console", "login", "act", "logout", "judge", "wait"}
  /\ request.retryable \in BOOLEAN /\ request.session \in BOOLEAN
  /\ try \in Nat
  /\ answer \in Answers \cup {"none"}
  /\ elapsed \in Int
  /\ cancelled \in BOOLEAN
  /\ performed \in [1..Len(list) -> Nat]

\* How often the far end may carry an action out.
Most(action) == IF Repeatable(action) THEN RetryAttempts ELSE 1

\* What has been reported agrees with what the far ends did; nothing has been
\* done yet for an action whose turn has not come.
Counted ==
  /\ \A i \in 1..Len(results) :
       /\ performed[i] <= results[i].attempts /\ performed[i] <= Most(list[i])
       /\ results[i].status = "Success" => performed[i] > 0 \/ list[i].type = "unifi"
       /\ results[i].status = "Skipped" => performed[i] = 0
  /\ \A i \in 1..Len(list) : i > Index \/ (i = Index /\ ~Requesting) => performed[i] = 0

\* The action being dealt with: no attempt carries it out twice, and there is
\* no attempt but the first unless the author may expect one.
Underway ==
  /\ at # "next" => More /\ ~install.dryRun
  /\ at = "console" => Current.type = "unifi"
  /\ Requesting =>
       /\ ~Disabled /\ Current.type \in Outbound
       /\ request.retryable => Repeatable(Current)
       /\ try \in 1..Attempts
  /\ at \in {"login", "act", "wait"} => performed[Index] <= try - 1
  /\ at = "wait" => try >= 2
  /\ at \in {"logout", "judge"} =>
       performed[Index] <= try /\ (answer = "ok" => performed[Index] > 0)

\* A session is Reactor's to end, or out of its hands.
Held ==
  /\ NoCookie \notin sessions /\ sessions \subseteq orphans \cup {cookie}
  /\ cookie # NoCookie => at \in {"act", "logout"} /\ request.session
  /\ at \in {"login", "logout"} => request.session

\* The logout is all that may come after the budget.
OnTime ==
  /\ elapsed <= Budget + LogoutTimeout
  /\ at \in {"console", "login", "act", "logout"} => elapsed <= Budget

\* An install without destinations opens nothing, a dry run performs nothing.
Quiet ==
  /\ Disabled \/ install.dryRun => secretsRead = {} /\ sessions = {}
  /\ install.dryRun => \A i \in 1..Len(list) : performed[i] = 0

\* The books of one transition.
DeliveryInv == DeliveryType /\ Counted /\ Underway /\ Held /\ OnTime /\ Quiet

\* What the constants say, and what is known of the action being dealt with.
LEMMA DeliveryConstants ==
  /\ Budget \in Int /\ Timeout \in Int /\ Budget >= 1 /\ Timeout >= 1
  /\ RetryAttempts \in Nat /\ RetryAttempts >= 1
  /\ RetryDelay \in Nat /\ LogoutTimeout \in Nat
BY Bounds

\* The list of the transition is one of edge actions, and the action at hand is on it.
LEMMA TheList ==
  ASSUME DeliveryType
  PROVE  /\ list \in Seq({action \in ToSet(list) : IsEdgeAction(action)})
         /\ Len(list) \in Nat /\ Len(results) \in Nat
         /\ \A i \in 1..Len(list) : IsEdgeAction(list[i])
         /\ More => Index \in 1..Len(list)
<1>. DEFINE E == {action \in ToSet(list) : IsEdgeAction(action)}
<1>1. list \in Seq(E)
  BY Bounds DEF DeliveryType
<1>2. \A i \in 1..Len(list) : list[i] \in E
  BY <1>1
<1>3. Len(list) \in Nat /\ Len(results) \in Nat
  BY <1>1 DEF DeliveryType
<1>. QED  BY <1>1, <1>2, <1>3 DEF More, Index

\* Every action may be carried out some number of times.
LEMMA MostType == \A action : Most(action) \in Nat /\ Most(action) >= 1
BY DeliveryConstants DEF Most

\* Of a request that is built, retrying is what the author may expect.
LEMMA BuiltToBeRetried ==
  ASSUME NEW action, NEW held, IsEdgeAction(action), action.type \in Outbound
  PROVE  /\ Build(action, held).retryable \in BOOLEAN
         /\ Build(action, held).session \in BOOLEAN
         /\ Build(action, held).retryable => Repeatable(action)
<1>1. CASE action.type = "http.request"
  <2>1. Build(action, held) = BuildHTTP(action, held) /\ action.idempotent \in Idempotencies
    BY <1>1 DEF Build, IsEdgeAction, IsHTTPRequest, IsHomeAssistantService, IsQBittorrent, IsNotification
  <2>2. /\ Build(action, held).retryable = Retryable(action.method, action.idempotent)
        /\ Build(action, held).session = FALSE
    BY <2>1 DEF BuildHTTP
  <2>3. Retryable(action.method, action.idempotent) \in BOOLEAN
    <3>1. CASE action.idempotent = "unset"
      BY <3>1 DEF Retryable
    <3>2. CASE action.idempotent # "unset"
      BY <3>2 DEF Retryable
    <3>. QED  BY <3>1, <3>2
  <2>4. Retryable(action.method, action.idempotent) => Repeatable(action)
    BY <1>1, <2>1 DEF Retryable, Repeatable, Idempotencies
  <2>. QED  BY <2>2, <2>3, <2>4
<1>2. CASE action.type = "homeassistant.service"
  <2>1. Build(action, held) = BuildHomeAssistant(action, held)
    BY <1>2 DEF Build
  <2>2. /\ Build(action, held).retryable = (action.idempotent = "yes")
        /\ Build(action, held).session = FALSE
    BY <2>1 DEF BuildHomeAssistant
  <2>3. action.idempotent = "yes" => Repeatable(action)
    BY <1>2 DEF Repeatable
  <2>. QED  BY <2>2, <2>3
<1>3. CASE action.type = "qbittorrent"
  <2>1. Build(action, held) = BuildQBittorrent(action, held)
    BY <1>3 DEF Build
  <2>. QED  BY <1>3, <2>1 DEF BuildQBittorrent, Repeatable
<1>4. CASE action.type = "notification"
  <2>1. Build(action, held) = BuildNotification(action, held)
    BY <1>4 DEF Build
  <2>. QED  BY <1>4, <2>1 DEF BuildNotification, Repeatable
<1>. QED  BY <1>1, <1>2, <1>3, <1>4 DEF Outbound

\* What an attempt may take.
LEMMA LeftBounds ==
  ASSUME DeliveryType, elapsed <= Budget
  PROVE  /\ Left \in Int /\ Remaining \in Int
         /\ elapsed + Left <= Budget /\ elapsed + Remaining <= Budget
<1>1. Remaining \in Int /\ elapsed + Remaining <= Budget
  BY DeliveryConstants DEF DeliveryType, Remaining, Over
<1>. QED  BY <1>1, DeliveryConstants DEF DeliveryType, Left, Least

\* The entry of an action that is over keeps the books.
LEMMA RecordKeeps ==
  ASSUME DeliveryInv, More, UNCHANGED <<given, cancelled>>,
         NEW status \in {"Success", "Failed", "Skipped"}, NEW attempts \in Nat,
         Record(status, attempts),
         NEW count \in Nat, performed' = [performed EXCEPT ![Index] = count],
         count <= attempts, count <= Most(Current),
         status = "Success" => count > 0 \/ Current.type = "unifi",
         status = "Skipped" => count = 0,
         elapsed' \in Int
  PROVE  DeliveryType' /\ Counted' /\ Underway'
<1>1. /\ Index \in 1..Len(list) /\ Len(list) \in Nat /\ Len(results) \in Nat
      /\ Index = Len(results) + 1
  BY TheList DEF DeliveryInv, Index
<1>2. /\ results' = Append(results, EdgeExecution(status, attempts)) /\ results \in Seq(Execution)
      /\ EdgeExecution(status, attempts) \in Execution
  BY DEF Record, EdgeExecution, Execution, DeliveryInv, DeliveryType
<1>3. /\ results' \in Seq(Execution) /\ Len(results') = Len(results) + 1
      /\ \A i \in 1..Len(results) : results'[i] = results[i]
      /\ results'[Index] = EdgeExecution(status, attempts)
  BY <1>1, <1>2
<1>4. list' = list /\ at' = "next" /\ request' = NoRequest /\ try' = 0 /\ answer' = "none"
  BY DEF given, Record
<1>5. performed \in [1..Len(list) -> Nat]
  BY DEF DeliveryInv, DeliveryType
<1>6. performed' \in [1..Len(list) -> Nat]
  BY <1>5
<1>7. performed'[Index] = count /\ \A i \in 1..Len(list) : i # Index => performed'[i] = performed[i]
  BY <1>1, <1>5
<1>8. DeliveryType'
  <2>1. Len(results') <= Len(list')
    BY <1>1, <1>3, <1>4
  <2>2. request'.retryable \in BOOLEAN /\ request'.session \in BOOLEAN
    BY <1>4 DEF NoRequest
  <2>. QED  BY <1>3, <1>4, <1>6, <2>1, <2>2 DEF DeliveryInv, DeliveryType, given, Answers
<1>9. Counted'
  <2>1. ASSUME NEW i \in 1..Len(results')
        PROVE  /\ performed'[i] <= results'[i].attempts /\ performed'[i] <= Most(list'[i])
               /\ results'[i].status = "Success" => performed'[i] > 0 \/ list'[i].type = "unifi"
               /\ results'[i].status = "Skipped" => performed'[i] = 0
    <3>1. CASE i = Index
      BY <1>3, <1>4, <1>7, <3>1 DEF EdgeExecution, Current
    <3>2. CASE i # Index
      <4>1. i \in 1..Len(results) /\ i \in 1..Len(list)
        BY <1>1, <1>3, <3>2
      <4>. QED  BY <1>3, <1>4, <1>7, <3>2, <4>1 DEF DeliveryInv, Counted
    <3>. QED  BY <3>1, <3>2
  <2>2. ASSUME NEW i \in 1..Len(list'), i >= Len(results') + 1 PROVE performed'[i] = 0
    <3>1. i \in 1..Len(list) /\ i > Index
      BY <1>1, <1>3, <1>4, <2>2
    <3>. QED  BY <1>1, <1>7, <3>1 DEF DeliveryInv, Counted
  <2>. QED  BY <1>1, <1>3, <1>4, <2>1, <2>2 DEF Counted, Most, Repeatable, Index
<1>10. Underway'
  BY <1>4 DEF Underway, Requesting
<1>. QED  BY <1>8, <1>9, <1>10

\* A step by which the action goes on leaves the books as they are, but for
\* what is noted of the action itself.
LEMMA GoesOn ==
  ASSUME DeliveryInv, More, UNCHANGED <<given, results>>,
         NEW count \in Nat, performed' = [performed EXCEPT ![Index] = count],
         ~Requesting' => count = 0
  PROVE  Counted' /\ performed' \in [1..Len(list) -> Nat] /\ performed'[Index] = count
<1>1. Index \in 1..Len(list) /\ Len(list) \in Nat /\ Len(results) \in Nat /\ Index = Len(results) + 1
  BY TheList DEF DeliveryInv, Index
<1>2. performed \in [1..Len(list) -> Nat]
  BY DEF DeliveryInv, DeliveryType
<1>3. performed' \in [1..Len(list) -> Nat] /\ performed'[Index] = count
      /\ \A i \in 1..Len(list) : i # Index => performed'[i] = performed[i]
  BY <1>1, <1>2
<1>4. list' = list /\ results' = results /\ Index' = Index
  BY DEF given, Index
<1>5. ASSUME NEW i \in 1..Len(results)
      PROVE  /\ performed'[i] <= results'[i].attempts /\ performed'[i] <= Most(list[i])
             /\ results'[i].status = "Success" => performed'[i] > 0 \/ list'[i].type = "unifi"
             /\ results'[i].status = "Skipped" => performed'[i] = 0
  <2>1. i \in 1..Len(list) /\ i # Index
    BY <1>1 DEF More
  <2>. QED  BY <1>3, <1>4, <2>1 DEF DeliveryInv, Counted
<1>6. ASSUME NEW i \in 1..Len(list), i > Index \/ (i = Index /\ ~Requesting') PROVE performed'[i] = 0
  BY <1>1, <1>3, <1>6 DEF DeliveryInv, Counted
<1>. QED  BY <1>3, <1>4, <1>5, <1>6 DEF Counted, Most, Repeatable

\* The action is over: its entry says what the far ends did.
Settles(status, attempts, count) ==
  /\ More /\ at \notin {"act", "logout"}
  /\ UNCHANGED <<given, cancelled, sessions, orphans>>
  /\ Record(status, attempts)
  /\ performed' = [performed EXCEPT ![Index] = count]
  /\ count <= attempts /\ count <= Most(Current)
  /\ status = "Success" => count > 0 \/ Current.type = "unifi"
  /\ status = "Skipped" \/ install.dryRun => count = 0
  /\ elapsed' \in Int /\ elapsed' <= Budget + LogoutTimeout
  /\ secretsRead' = secretsRead \/ (~Disabled /\ ~install.dryRun)

\* An action is done with: its report is filed and the next one is due.
LEMMA SettledFits ==
  ASSUME DeliveryInv, NEW status \in {"Success", "Failed", "Skipped"},
         NEW attempts \in Nat, NEW count \in Nat, Settles(status, attempts, count)
  PROVE  DeliveryInv'
<1>. USE DEF Settles
<1>1. DeliveryType' /\ Counted' /\ Underway'
  BY RecordKeeps
<1>2. at' = "next" /\ cookie' = NoCookie /\ cookie = NoCookie
  BY DEF Record, DeliveryInv, Held
<1>3. Held'
  BY <1>2 DEF DeliveryInv, Held
<1>4. OnTime'
  BY <1>2 DEF OnTime
<1>5. Quiet'
  <2>1. install' = install /\ list' = list
    BY DEF given
  <2>2. install.dryRun => \A i \in 1..Len(list) : performed'[i] = 0
    BY DEF DeliveryInv, Quiet, DeliveryType
  <2>. QED  BY <2>1, <2>2 DEF DeliveryInv, Quiet, Disabled
<1>. QED  BY <1>1, <1>3, <1>4, <1>5 DEF DeliveryInv

\* Nothing has been done for an action that is about to begin, so far as the
\* far ends' count goes.
LEMMA NotYet ==
  ASSUME DeliveryInv, More, ~Requesting
  PROVE  performed[Index] = 0 /\ performed = [performed EXCEPT ![Index] = 0]
<1>1. Index \in 1..Len(list)
  BY TheList DEF DeliveryInv
<1>2. performed[Index] = 0
  BY <1>1 DEF DeliveryInv, Counted
<1>. QED  BY <1>1, <1>2 DEF DeliveryInv, DeliveryType

\* An action that is not sent at all: a dry run, no time, no console, no
\* destination allowed.
LEMMA NotSent ==
  ASSUME DeliveryInv, SkipDryRun \/ SkipLate \/ NoConsole \/ RefuseDisabled
  PROVE  DeliveryInv'
<1>1. /\ More /\ at = "next" /\ UNCHANGED <<given, cancelled, sessions, orphans, secretsRead>>
      /\ elapsed' = elapsed /\ performed' = performed
  BY DEF SkipDryRun, SkipLate, NoConsole, RefuseDisabled, Ready, farEnd
<1>2. PICK status \in {"Failed", "Skipped"} : Record(status, 0)
  BY DEF SkipDryRun, SkipLate, NoConsole, RefuseDisabled
<1>3. performed' = [performed EXCEPT ![Index] = 0]
  BY <1>1, NotYet DEF Requesting
<1>4. elapsed' \in Int /\ elapsed' <= Budget + LogoutTimeout
  BY <1>1 DEF DeliveryInv, DeliveryType, OnTime
<1>5. Settles(status, 0, 0)
  <2>1. 0 <= 0 /\ 0 <= Most(Current)
    BY MostType
  <2>2. UNCHANGED <<given, cancelled, sessions, orphans>>
    BY <1>1
  <2>3. secretsRead' = secretsRead \/ (~Disabled /\ ~install.dryRun)
    BY <1>1
  <2>4. at \notin {"act", "logout"}
    BY <1>1
  <2>5. More
    BY <1>1
  <2>. QED
    BY <2>1, <2>2, <2>3, <2>4, <2>5, <1>2, <1>3, <1>4 DEF Settles
<1>. QED  BY <1>5, SettledFits

\* Restarting a workload sends nothing outbound.
LEMMA RestartFits == ASSUME DeliveryInv, Restart PROVE DeliveryInv'
<1>1. More /\ at = "next" /\ ~install.dryRun /\ elapsed < Budget
      /\ UNCHANGED <<given, cancelled, sessions, orphans, secretsRead>>
  BY DeliveryConstants DEF Restart, Ready, Over, DeliveryInv, DeliveryType
<1>2. PICK took \in 0..Left, stamped \in BOOLEAN, status \in {"Success", "Failed"} :
        /\ status = "Success" => stamped
        /\ elapsed' = elapsed + took
        /\ performed' = [performed EXCEPT ![Index] = IF stamped THEN @ + 1 ELSE @]
        /\ Record(status, 1)
  BY DEF Restart
<1>3. performed[Index] = 0
  BY <1>1, NotYet DEF Requesting
<1>4. PICK count \in {0, 1} : count = IF stamped THEN 1 ELSE 0
  OBVIOUS
<1>5. performed' = [performed EXCEPT ![Index] = count]
  BY <1>2, <1>3, <1>4
<1>6. elapsed' \in Int /\ elapsed' <= Budget + LogoutTimeout
  BY <1>1, <1>2, LeftBounds, DeliveryConstants DEF DeliveryInv, DeliveryType
<1>7. count <= Most(Current) /\ (status = "Success" => count > 0)
  BY <1>2, <1>4, MostType
<1>8. UNCHANGED <<given, cancelled, sessions, orphans>> /\ secretsRead' = secretsRead
  BY <1>1
<1>9. More /\ at \notin {"act", "logout"} /\ ~install.dryRun
  BY <1>1
<1>10. count <= 1 /\ status # "Skipped" /\ Record(status, 1)
  BY <1>2
<1>11. Settles(status, 1, count)
  BY <1>5, <1>6, <1>7, <1>8, <1>9, <1>10 DEF Settles
<1>. QED  BY <1>11, SettledFits

\* An action handed to the console has time left.
LEMMA HandedToConsoleFits == ASSUME DeliveryInv, HandToConsole PROVE DeliveryInv'
<1>1. /\ More /\ at = "next" /\ ~install.dryRun /\ elapsed < Budget /\ Current.type = "unifi"
      /\ at' = "console"
      /\ UNCHANGED <<given, results, request, try, answer, cookie, elapsed, cancelled, farEnd,
                     secretsRead>>
  BY DeliveryConstants DEF HandToConsole, Ready, Over, DeliveryInv, DeliveryType
<1>2. /\ UNCHANGED <<install, list, results, request, try, answer, cookie, elapsed, cancelled>>
      /\ UNCHANGED <<performed, sessions, orphans, secretsRead>>
  BY <1>1 DEF given, farEnd
<1>3. DeliveryType'
  BY <1>1, <1>2 DEF DeliveryInv, DeliveryType
<1>4. Counted'
  <2>1. performed' = [performed EXCEPT ![Index] = 0]
    BY <1>1, <1>2, NotYet DEF Requesting
  <2>. QED  BY <1>1, <2>1, GoesOn
<1>5. Underway'
  BY <1>1, <1>2 DEF Underway, Requesting, More, Current, Index
<1>6. Held'
  BY <1>1, <1>2 DEF DeliveryInv, Held
<1>7. OnTime'
  BY <1>1, <1>2, DeliveryConstants DEF DeliveryInv, DeliveryType, OnTime
<1>8. Quiet'
  BY <1>2 DEF DeliveryInv, Quiet, Disabled
<1>. QED  BY <1>3, <1>4, <1>5, <1>6, <1>7, <1>8 DEF DeliveryInv

\* The console carried the action out once at most, and says so.
LEMMA HeardFromConsoleFits ==
  ASSUME DeliveryInv, NEW status \in {"Success", "Failed"}, NEW carried \in {0, 1},
         HearFromConsole(status, carried)
  PROVE  DeliveryInv'
<1>1. at = "console" /\ UNCHANGED <<given, cancelled, sessions, orphans, secretsRead>>
      /\ performed' = [performed EXCEPT ![Index] = @ + carried] /\ Record(status, 1)
  BY DEF HearFromConsole
<1>2. More /\ ~install.dryRun /\ Current.type = "unifi" /\ elapsed <= Budget
  BY <1>1 DEF DeliveryInv, Underway, OnTime
<1>3. PICK took \in 0..Left, leaving \in 0..LogoutTimeout : elapsed' = elapsed + took + leaving
  BY DEF HearFromConsole
<1>4. elapsed' \in Int /\ elapsed' <= Budget + LogoutTimeout
  BY <1>2, <1>3, LeftBounds, DeliveryConstants DEF DeliveryInv, DeliveryType
<1>5. performed' = [performed EXCEPT ![Index] = carried]
  <2>1. performed[Index] = 0
    BY <1>1, <1>2, NotYet DEF Requesting
  <2>2. performed[Index] + carried = carried
    BY <2>1
  <2>. QED  BY <1>1, <2>2
<1>6. carried <= 1 /\ carried <= Most(Current)
  BY MostType
<1>7. UNCHANGED <<given, cancelled, sessions, orphans>> /\ secretsRead' = secretsRead
  BY <1>1
<1>8. at \notin {"act", "logout"} /\ status # "Skipped" /\ Record(status, 1)
  BY <1>1
<1>9. Settles(status, 1, carried)
  BY <1>2, <1>4, <1>5, <1>6, <1>7, <1>8 DEF Settles
<1>. QED  BY <1>9, SettledFits

\* A request goes out only for an install that sends, and to be repeated only
\* if the author may expect it.
LEMMA PrepareFits == ASSUME DeliveryInv, Prepare PROVE DeliveryInv'
<1>. DEFINE held == Credentials(Current)
            built == Build(Current, held)
<1>1. /\ More /\ at = "next" /\ ~install.dryRun /\ elapsed < Budget
      /\ Current.type \in Outbound /\ ~Disabled
      /\ UNCHANGED <<given, cancelled, farEnd>>
  BY DeliveryConstants DEF Prepare, Ready, Over, DeliveryInv, DeliveryType
<1>2. PICK took \in 0..Remaining :
        /\ elapsed' = IF Current.secret = NoSecret THEN elapsed ELSE elapsed + took
        /\ LET usable == Readable(held) /\ took < Remaining /\ Current.renders
               made == IF usable THEN built ELSE NoRequest
           IN  IF made.url # NoURL /\ Approved(install.entries, made.url)
               THEN /\ at' = IF made.session THEN "login" ELSE "act"
                    /\ request' = made /\ try' = 1
                    /\ UNCHANGED <<results, answer, cookie>>
               ELSE Record("Failed", 0)
  BY DEF Prepare
<1>3. elapsed' \in Int /\ elapsed' <= Budget
  BY <1>1, <1>2, LeftBounds, DeliveryConstants DEF DeliveryInv, DeliveryType
<1>4. UNCHANGED <<install, list, cancelled, performed, sessions, orphans>>
  BY <1>1 DEF given, farEnd
<1>5. performed[Index] = 0 /\ performed' = [performed EXCEPT ![Index] = 0]
  BY <1>1, <1>4, NotYet DEF Requesting
<1>6. CASE Record("Failed", 0)
  <2>1. UNCHANGED <<given, cancelled, sessions, orphans>>
    BY <1>1, <1>4
  <2>2. elapsed' \in Int /\ elapsed' <= Budget + LogoutTimeout
    BY <1>3, DeliveryConstants
  <2>3. Settles("Failed", 0, 0)
    BY <1>1, <1>5, <1>6, <2>1, <2>2, MostType DEF Settles
  <2>. QED  BY <2>3, SettledFits
<1>7. CASE ~Record("Failed", 0)
  <2>1. request' = built \/ request' = NoRequest
    BY <1>2, <1>7
  <2>2. at' = (IF request'.session THEN "login" ELSE "act") /\ try' = 1
        /\ results' = results /\ answer' = answer /\ cookie' = cookie
    BY <1>2, <1>7
  <2>3. request'.retryable \in BOOLEAN /\ request'.session \in BOOLEAN
        /\ (request'.retryable => Repeatable(Current))
    <3>1. IsEdgeAction(Current)
      BY <1>1, TheList DEF DeliveryInv, Current
    <3>2. CASE request' = built
      BY <1>1, <3>1, <3>2, BuiltToBeRetried
    <3>3. CASE request' = NoRequest
      BY <3>3 DEF NoRequest
    <3>. QED  BY <2>1, <3>2, <3>3
  <2>. HIDE DEF built, held
  <2>4. Requesting' /\ at' \in {"login", "act"} /\ Current' = Current /\ Index' = Index
    BY <1>4, <2>2 DEF Requesting, Current, Index
  <2>5. DeliveryType'
    BY <1>3, <1>4, <2>2, <2>3 DEF DeliveryInv, DeliveryType
  <2>6. Counted'
    <3>1. UNCHANGED <<given, results>>
      BY <1>1, <2>2
    <3>2. More /\ performed' = [performed EXCEPT ![Index] = 0]
      BY <1>1, <1>5
    <3>. QED  BY <3>1, <3>2, GoesOn
  <2>7. Underway'
    <3>1. More' /\ ~install'.dryRun /\ ~Disabled'
      BY <1>1, <1>4, <2>2 DEF More, Disabled
    <3>2. try' \in 1..Attempts'
      BY <2>2, DeliveryConstants DEF Attempts
    <3>3. Repeatable(Current)' = Repeatable(Current)
      BY <2>4 DEF Repeatable
    <3>4. performed'[Index'] = 0
      BY <1>4, <1>5, <2>4
    <3>. QED  BY <1>1, <2>2, <2>3, <2>4, <3>1, <3>2, <3>3, <3>4 DEF Underway
  <2>8. Held'
    BY <1>1, <1>4, <2>2, <2>3 DEF DeliveryInv, Held
  <2>9. OnTime'
    BY <1>3, DeliveryConstants DEF OnTime
  <2>10. Quiet'
    BY <1>1, <1>4 DEF DeliveryInv, Quiet, Disabled
  <2>. QED  BY <2>5, <2>6, <2>7, <2>8, <2>9, <2>10 DEF DeliveryInv
<1>. QED  BY <1>6, <1>7

\* The request under way is one that may go out, and its action stays the one
\* being dealt with.
LEMMA SameRequest ==
  ASSUME DeliveryInv, Requesting
  PROVE  /\ More /\ ~install.dryRun /\ ~Disabled
         /\ Index \in 1..Len(list) /\ performed[Index] \in Nat
         /\ performed = [performed EXCEPT ![Index] = performed[Index]]
         /\ performed[Index] <= try /\ try \in 1..Attempts /\ Attempts <= Most(Current)
         /\ Attempts \in Nat
<1>1. More /\ ~install.dryRun /\ ~Disabled /\ try \in 1..Attempts
      /\ (request.retryable => Repeatable(Current))
  BY DEF DeliveryInv, Underway, Requesting
<1>2. Index \in 1..Len(list) /\ performed \in [1..Len(list) -> Nat]
  BY <1>1, TheList DEF DeliveryInv, DeliveryType
<1>3. Attempts \in Nat /\ Attempts <= Most(Current)
  BY <1>1, DeliveryConstants DEF Attempts, Most
<1>4. performed[Index] <= try
  BY <1>1, <1>2 DEF DeliveryInv, Underway, Requesting
<1>. QED  BY <1>1, <1>2, <1>3, <1>4

\* The request under way goes on, to be retried only if it may be.
LEMMA SameRequestFits ==
  ASSUME DeliveryInv, Requesting, Requesting', UNCHANGED <<given, results, request>>,
         try' \in 1..Attempts,
         NEW count \in Nat, performed' = [performed EXCEPT ![Index] = count],
         at' \in {"login", "act", "wait"} => count <= try' - 1,
         at' = "wait" => try' >= 2,
         at' \in {"logout", "judge"} => count <= try' /\ (answer' = "ok" => count > 0)
  PROVE  Counted' /\ Underway' /\ performed' \in [1..Len(list') -> Nat]
<1>1. More /\ ~install.dryRun /\ ~Disabled
  BY SameRequest
<1>2. install' = install /\ list' = list /\ results' = results /\ request' = request
  BY DEF given
<1>3. Counted' /\ performed' \in [1..Len(list) -> Nat] /\ performed'[Index] = count
  BY <1>1, <1>2, GoesOn
<1>4. Index' = Index /\ Current' = Current /\ More' /\ ~install'.dryRun /\ ~Disabled' /\ Attempts' = Attempts
  BY <1>1, <1>2 DEF Index, Current, More, Disabled, Attempts
<1>5. Current.type \in Outbound /\ (request.retryable => Repeatable(Current)) /\ at' # "console"
  BY DEF DeliveryInv, Underway, Requesting
<1>6. Repeatable(Current)' = Repeatable(Current)
  BY <1>4 DEF Repeatable
<1>7. Underway'
  BY <1>2, <1>3, <1>4, <1>5, <1>6 DEF Underway
<1>. QED  BY <1>2, <1>3, <1>7

\* A login opens a session that the client knows of, or whose answer was lost.
LEMMA LoginFits == ASSUME DeliveryInv, Login PROVE DeliveryInv'
<1>1. at = "login" /\ Requesting /\ UNCHANGED <<given, results, request, try, performed, secretsRead>>
  BY DEF Login, Requesting
<1>2. PICK answered \in Answers, acted \in BOOLEAN, took \in 0..Left :
        /\ cancelled' \in {cancelled, TRUE}
        /\ answered = "ok" => acted
        /\ elapsed' = elapsed + took
        /\ sessions' = IF acted THEN sessions \cup {<<Index, try>>} ELSE sessions
        /\ orphans' = IF acted /\ answered # "ok" THEN orphans \cup {<<Index, try>>} ELSE orphans
        /\ IF answered = "ok"
           THEN at' = "act" /\ cookie' = <<Index, try>> /\ UNCHANGED answer
           ELSE at' = "judge" /\ answer' = answered /\ UNCHANGED cookie
  BY DEF Login, Ends
<1>3. /\ request.session /\ cookie = NoCookie /\ NoCookie \notin sessions
      /\ sessions \subseteq orphans \cup {cookie} /\ elapsed <= Budget
      /\ performed[Index] <= try - 1
  BY <1>1 DEF DeliveryInv, Held, OnTime, Underway
<1>4. UNCHANGED <<install, list>> /\ ~install.dryRun /\ ~Disabled
  BY <1>1, SameRequest DEF given
<1>5. at' \in {"act", "judge"} /\ Requesting' /\ answer' \in Answers \cup {"none"}
  BY <1>2 DEF Requesting, DeliveryInv, DeliveryType
<1>6. elapsed' \in Int /\ elapsed' <= Budget
  <2>1. DeliveryType /\ elapsed \in Int
    BY DEF DeliveryInv, DeliveryType
  <2>2. Left \in Int /\ elapsed + Left <= Budget
    BY <1>3, <2>1, LeftBounds
  <2>3. elapsed' = elapsed + took
    BY <1>2
  <2>. QED  BY <2>1, <2>2, <2>3, DeliveryConstants
<1>7. Counted' /\ Underway' /\ performed' \in [1..Len(list') -> Nat]
  <2>1. performed[Index] \in Nat /\ try \in 1..Attempts /\ Attempts \in Nat
        /\ performed' = [performed EXCEPT ![Index] = performed[Index]]
    BY <1>1, SameRequest
  <2>2. at' = "judge" => answer' # "ok"
    BY <1>2
  <2>3. performed[Index] <= try
    BY <1>3, <2>1
  <2>. QED  BY <1>1, <1>3, <1>5, <2>1, <2>2, <2>3, SameRequestFits
<1>8. DeliveryType'
  BY <1>1, <1>2, <1>4, <1>5, <1>6, <1>7 DEF DeliveryInv, DeliveryType
<1>9. Held'
  <2>1. <<Index, try>> # NoCookie
    BY DEF NoCookie
  <2>2. CASE answered = "ok"
    BY <1>1, <1>2, <1>3, <2>1, <2>2 DEF Held
  <2>3. CASE answered # "ok"
    BY <1>1, <1>2, <1>3, <2>1, <2>3 DEF Held
  <2>. QED  BY <2>2, <2>3
<1>10. OnTime'
  BY <1>6, DeliveryConstants DEF OnTime
<1>11. Quiet'
  BY <1>4 DEF Quiet, Disabled
<1>. QED  BY <1>7, <1>8, <1>9, <1>10, <1>11 DEF DeliveryInv

\* A call acts once at most, and within its deadline.
LEMMA ActFits == ASSUME DeliveryInv, Act PROVE DeliveryInv'
<1>1. at = "act" /\ Requesting
      /\ UNCHANGED <<given, results, request, try, cookie, sessions, orphans, secretsRead>>
  BY DEF Act, Requesting
<1>2. PICK answered \in Answers, acted \in BOOLEAN, took \in 0..Left :
        /\ cancelled' \in {cancelled, TRUE}
        /\ answered = "ok" => acted
        /\ elapsed' = elapsed + took
        /\ performed' = [performed EXCEPT ![Index] = IF acted THEN @ + 1 ELSE @]
        /\ answer' = answered
        /\ at' = IF request.session THEN "logout" ELSE "judge"
  BY DEF Act, Ends
<1>3. performed[Index] <= try - 1 /\ elapsed <= Budget /\ performed[Index] \in Nat
      /\ try \in 1..Attempts /\ Attempts \in Nat
  BY <1>1, SameRequest DEF DeliveryInv, OnTime, Underway
<1>4. UNCHANGED <<install, list>> /\ ~install.dryRun /\ ~Disabled
  BY <1>1, SameRequest DEF given
<1>5. at' \in {"logout", "judge"} /\ Requesting'
  BY <1>2 DEF Requesting
<1>6. elapsed' \in Int /\ elapsed' <= Budget
  <2>1. DeliveryType /\ elapsed \in Int
    BY DEF DeliveryInv, DeliveryType
  <2>2. Left \in Int /\ elapsed + Left <= Budget
    BY <1>3, <2>1, LeftBounds
  <2>3. elapsed' = elapsed + took
    BY <1>2
  <2>. QED  BY <2>1, <2>2, <2>3, DeliveryConstants
<1>7. Counted' /\ Underway' /\ performed' \in [1..Len(list') -> Nat]
  <2>1. PICK count \in Nat : count = IF acted THEN performed[Index] + 1 ELSE performed[Index]
    BY <1>3
  <2>2. performed' = [performed EXCEPT ![Index] = count]
    BY <1>2, <2>1
  <2>3. count <= try /\ (answer' = "ok" => count > 0)
    BY <1>2, <1>3, <2>1
  <2>4. try' \in 1..Attempts /\ try' = try /\ UNCHANGED <<given, results, request>>
    BY <1>1, <1>3
  <2>. QED  BY <1>1, <1>5, <2>2, <2>3, <2>4, SameRequestFits
<1>8. DeliveryType'
  BY <1>1, <1>2, <1>4, <1>5, <1>6, <1>7 DEF DeliveryInv, DeliveryType
<1>9. Held'
  BY <1>1, <1>2 DEF DeliveryInv, Held
<1>10. OnTime'
  BY <1>6, DeliveryConstants DEF OnTime
<1>11. Quiet'
  BY <1>4 DEF Quiet, Disabled
<1>. QED  BY <1>7, <1>8, <1>9, <1>10, <1>11 DEF DeliveryInv

\* A logout ends the session the client knows of, whatever is left of the budget.
LEMMA LogoutFits == ASSUME DeliveryInv, Logout PROVE DeliveryInv'
<1>1. /\ at = "logout" /\ at' = "judge" /\ cookie' = NoCookie
      /\ UNCHANGED <<given, results, request, try, answer, cancelled, performed, secretsRead>>
  BY DEF Logout
<1>2. PICK took \in 0..LogoutTimeout, closed \in BOOLEAN :
        /\ elapsed' = elapsed + took
        /\ sessions' = IF closed THEN sessions \ {cookie} ELSE sessions
        /\ orphans' = IF closed THEN orphans ELSE orphans \cup {cookie}
  BY DEF Logout
<1>3. Requesting /\ Requesting'
  BY <1>1 DEF Requesting
<1>4. /\ elapsed <= Budget /\ elapsed \in Int
      /\ performed[Index] <= try /\ (answer = "ok" => performed[Index] > 0)
      /\ NoCookie \notin sessions /\ sessions \subseteq orphans \cup {cookie}
  BY <1>1 DEF DeliveryInv, DeliveryType, OnTime, Underway, Held
<1>5. UNCHANGED <<install, list>> /\ ~install.dryRun /\ ~Disabled
  BY <1>1, <1>3, SameRequest DEF given
<1>6. elapsed' \in Int /\ elapsed' <= Budget + LogoutTimeout
  BY <1>2, <1>4, DeliveryConstants
<1>7. Counted' /\ Underway' /\ performed' \in [1..Len(list') -> Nat]
  <2>1. performed[Index] \in Nat /\ try \in 1..Attempts
        /\ performed' = [performed EXCEPT ![Index] = performed[Index]]
    BY <1>1, <1>3, SameRequest
  <2>2. try' \in 1..Attempts /\ try' = try /\ answer' = answer /\ UNCHANGED <<given, results, request>>
    BY <1>1, <2>1
  <2>. QED  BY <1>1, <1>3, <1>4, <2>1, <2>2, SameRequestFits
<1>8. DeliveryType'
  BY <1>1, <1>5, <1>6, <1>7 DEF DeliveryInv, DeliveryType
<1>9. Held'
  BY <1>1, <1>2, <1>4 DEF Held
<1>10. OnTime'
  BY <1>1, <1>6 DEF OnTime
<1>11. Quiet'
  BY <1>5 DEF Quiet, Disabled
<1>. QED  BY <1>7, <1>8, <1>9, <1>10, <1>11 DEF DeliveryInv

\* The attempt counts as one whether it is the last or not.
LEMMA JudgeFits == ASSUME DeliveryInv, Judge PROVE DeliveryInv'
<1>1. at = "judge" /\ Requesting /\ UNCHANGED <<given, elapsed, cancelled, farEnd, secretsRead>>
  BY DEF Judge, Requesting
<1>2. UNCHANGED <<install, list, performed, sessions, orphans>>
  BY <1>1 DEF given, farEnd
<1>3. /\ performed[Index] \in Nat /\ performed[Index] <= try
      /\ try \in 1..Attempts /\ Attempts \in Nat /\ Attempts <= Most(Current)
      /\ performed' = [performed EXCEPT ![Index] = performed[Index]]
      /\ More /\ ~install.dryRun /\ ~Disabled
  BY <1>1, <1>2, SameRequest
<1>4. elapsed' \in Int /\ elapsed' <= Budget + LogoutTimeout
  BY <1>1 DEF DeliveryInv, DeliveryType, OnTime
<1>5. answer = "ok" => performed[Index] > 0
  BY <1>1 DEF DeliveryInv, Underway
<1>6. ASSUME NEW status \in {"Success", "Failed"}, Record(status, try),
             status = "Success" => answer = "ok"
      PROVE  DeliveryInv'
  <2>1. performed[Index] <= Most(Current) /\ try \in Nat
    BY <1>3, MostType
  <2>2. UNCHANGED <<given, cancelled, sessions, orphans>> /\ at \notin {"act", "logout"}
    BY <1>1, <1>2
  <2>3. Settles(status, try, performed[Index])
    BY <1>3, <1>4, <1>5, <1>6, <2>1, <2>2 DEF Settles
  <2>. QED  BY <1>3, <2>1, <2>3, SettledFits
<1>7. ASSUME try < Attempts, at' = "wait", try' = try + 1, answer' = "none",
             UNCHANGED <<results, request, cookie>>
      PROVE  DeliveryInv'
  <2>1. Requesting' /\ try' \in 1..Attempts /\ try' >= 2 /\ try' - 1 = try /\ try' \in Nat
    BY <1>3, <1>7 DEF Requesting
  <2>2. Counted' /\ Underway' /\ performed' \in [1..Len(list') -> Nat]
    <3>1. UNCHANGED <<given, results, request>>
      BY <1>1, <1>7
    <3>2. performed[Index] <= try' - 1
      BY <1>3, <2>1
    <3>. QED  BY <1>1, <1>3, <1>7, <2>1, <3>1, <3>2, SameRequestFits
  <2>3. DeliveryType'
    BY <1>1, <1>2, <1>4, <1>7, <2>1, <2>2 DEF DeliveryInv, DeliveryType
  <2>4. Held'
    BY <1>1, <1>2, <1>7 DEF DeliveryInv, Held
  <2>5. OnTime'
    BY <1>4, <1>7 DEF OnTime
  <2>6. Quiet'
    BY <1>2, <1>3 DEF Quiet, Disabled
  <2>. QED  BY <2>2, <2>3, <2>4, <2>5, <2>6 DEF DeliveryInv
<1>8. \/ Record("Success", try) /\ answer = "ok"
      \/ Record("Failed", try)
      \/ /\ try < Attempts /\ at' = "wait" /\ try' = try + 1 /\ answer' = "none"
         /\ UNCHANGED <<results, request, cookie>>
  BY DEF Judge
<1>. QED  BY <1>6, <1>7, <1>8

\* A request that was never repeated again is no longer counted.
LEMMA WaitFits == ASSUME DeliveryInv, Wait PROVE DeliveryInv'
<1>1. at = "wait" /\ Requesting /\ UNCHANGED <<given, cancelled, farEnd, secretsRead>>
  BY DEF Wait, Requesting
<1>2. UNCHANGED <<install, list, performed, sessions, orphans>>
  BY <1>1 DEF given, farEnd
<1>3. /\ performed[Index] \in Nat /\ performed[Index] <= try - 1 /\ try >= 2
      /\ try \in 1..Attempts /\ Attempts \in Nat /\ Attempts <= Most(Current)
      /\ performed' = [performed EXCEPT ![Index] = performed[Index]]
      /\ More /\ ~install.dryRun /\ ~Disabled
  BY <1>1, <1>2, SameRequest DEF DeliveryInv, Underway
<1>4. elapsed \in Int /\ elapsed <= Budget + LogoutTimeout /\ cookie = NoCookie
  BY <1>1 DEF DeliveryInv, DeliveryType, OnTime, Held
<1>5. CASE Record("Failed", try - 1)
  <2>1. try - 1 \in Nat /\ performed[Index] <= Most(Current)
    BY <1>3, MostType
  <2>2. UNCHANGED <<given, cancelled, sessions, orphans>> /\ at \notin {"act", "logout"}
    BY <1>1, <1>2
  <2>3. elapsed' = elapsed \/ elapsed' = Budget
    <3>1. at' = "next"
      BY <1>5 DEF Record
    <3>2. at' # "login" /\ at' # "act"
      BY <3>1
    <3>. QED  BY <3>2 DEF Wait
  <2>4. elapsed' \in Int /\ elapsed' <= Budget + LogoutTimeout
    BY <1>4, <2>3, DeliveryConstants
  <2>5. secretsRead' = secretsRead \/ (~Disabled /\ ~install.dryRun)
    BY <1>1
  <2>6. Settles("Failed", try - 1, performed[Index])
    BY <1>3, <1>5, <2>1, <2>2, <2>4, <2>5 DEF Settles
  <2>. QED  BY <1>3, <2>1, <2>6, SettledFits
<1>6. CASE ~Record("Failed", try - 1)
  <2>1. /\ elapsed + Pause <= Budget /\ elapsed' = elapsed + Pause
        /\ at' = IF request.session THEN "login" ELSE "act"
        /\ UNCHANGED <<results, request, try, answer, cookie>>
    BY <1>6 DEF Wait
  <2>2. at' \in {"login", "act"} /\ Requesting'
    BY <2>1 DEF Requesting
  <2>3. elapsed' \in Int /\ elapsed' <= Budget
    <3>1. Pause \in Int
      BY <1>3, DeliveryConstants DEF Pause
    <3>. QED  BY <1>4, <2>1, <3>1
  <2>4. Counted' /\ Underway' /\ performed' \in [1..Len(list') -> Nat]
    <3>1. UNCHANGED <<given, results, request>> /\ try' = try
      BY <1>1, <2>1
    <3>. QED  BY <1>1, <1>3, <2>2, <3>1, SameRequestFits
  <2>5. DeliveryType'
    BY <1>1, <1>2, <2>1, <2>2, <2>3, <2>4 DEF DeliveryInv, DeliveryType
  <2>6. Held'
    BY <1>2, <1>4, <2>1 DEF DeliveryInv, Held
  <2>7. OnTime'
    BY <2>3, DeliveryConstants DEF OnTime
  <2>8. Quiet'
    BY <1>2, <1>3 DEF Quiet, Disabled
  <2>. QED  BY <2>4, <2>5, <2>6, <2>7, <2>8 DEF DeliveryInv
<1>. QED  BY <1>5, <1>6

\* A manager told to stop changes nothing of what was done.
LEMMA ShutdownFits == ASSUME DeliveryInv, Shutdown \/ UNCHANGED deliveryVars PROVE DeliveryInv'
<1>1. /\ UNCHANGED <<install, list, results, at, request, try, answer, cookie, elapsed>>
      /\ UNCHANGED <<performed, sessions, orphans, secretsRead>>
      /\ cancelled' \in {cancelled, TRUE}
  BY DEF Shutdown, deliveryVars, given, farEnd
<1>2. DeliveryType'
  BY <1>1 DEF DeliveryInv, DeliveryType
<1>3. Counted'
  BY <1>1 DEF DeliveryInv, Counted, Most, Repeatable, Index, Requesting
<1>4. Underway'
  BY <1>1 DEF DeliveryInv, Underway, Requesting, More, Current, Index, Disabled, Attempts, Repeatable
<1>5. Held' /\ OnTime' /\ Quiet'
  BY <1>1 DEF DeliveryInv, Held, OnTime, Quiet, Disabled
<1>. QED  BY <1>2, <1>3, <1>4, <1>5 DEF DeliveryInv

\* Every step of the delivery preserves the invariant.
LEMMA DeliveryStep == ASSUME DeliveryInv, DeliveryNext PROVE DeliveryInv'
BY NotSent, RestartFits, PrepareFits, LoginFits, ActFits, LogoutFits, JudgeFits, WaitFits,
   ShutdownFits DEF DeliveryNext

\* Initially nothing has been sent.
LEMMA DeliveryFirst == ASSUME DeliveryInit PROVE DeliveryInv
<1>. USE DEF DeliveryInit
<1>1. Len(list) \in Nat
  BY Bounds
<1>2. DeliveryType
  <2>1. results \in Seq(Execution) /\ Len(results) <= Len(list)
    BY <1>1
  <2>2. request.retryable \in BOOLEAN /\ request.session \in BOOLEAN
    BY DEF NoRequest
  <2>3. performed \in [1..Len(list) -> Nat] /\ elapsed \in Int
    BY <1>1
  <2>. QED  BY <2>1, <2>2, <2>3 DEF DeliveryType, Answers
<1>3. Counted /\ Underway
  BY <1>1 DEF Counted, Underway, Requesting, Index
<1>4. Held /\ Quiet
  BY <1>1 DEF Held, Quiet
<1>5. OnTime
  BY DeliveryConstants DEF OnTime
<1>. QED  BY <1>2, <1>3, <1>4, <1>5 DEF DeliveryInv

(***************************************************************************)
(* The manager.                                                            *)
(***************************************************************************)

\* The three systems side by side.
Inv == DeliveryInv /\ ConsoleInv /\ RegistrarInv

\* The report a worker files is the one the transition records.
LEMMA TakeBackFits == ASSUME DeliveryInv, ConsoleInv, TakeBack PROVE DeliveryInv' /\ ConsoleInv'
<1>1. /\ writer[Mine].at = "idle" /\ writer[Mine].report # "none"
      /\ HearFromConsole(writer[Mine].report, writer[Mine].carried)
      /\ writer' = [writer EXCEPT ![Mine] = Resting]
      /\ UNCHANGED <<policy, console, table>>
  BY DEF TakeBack
<1>2. writer[Mine] \in Writer /\ Fit(writer[Mine])
  BY Worker DEF ConsoleInv, ConsoleType
<1>3. writer[Mine].report \in {"Success", "Failed"} /\ writer[Mine].carried \in {0, 1}
  BY <1>1, <1>2 DEF Writer, Fit
<1>4. DeliveryInv'
  BY <1>1, <1>3, HeardFromConsoleFits
<1>5. ConsoleInv'
  BY <1>1, Worker, RestingFits, OneWriterMoves
<1>. QED  BY <1>4, <1>5

\* The part of the system that does not move stays as it was.
LEMMA UnchangedFits ==
  /\ DeliveryInv /\ UNCHANGED deliveryVars => DeliveryInv'
  /\ ConsoleInv /\ UNCHANGED consoleVars => ConsoleInv'
  /\ RegistrarInv /\ UNCHANGED registrarVars => RegistrarInv'
<1>1. DeliveryInv /\ UNCHANGED deliveryVars => DeliveryInv'
  BY ShutdownFits
<1>2. ASSUME ConsoleInv, UNCHANGED consoleVars PROVE ConsoleInv'
  <2>1. UNCHANGED <<policy, console, table, writer>>
    BY <1>2 DEF consoleVars
  <2>2. ConsoleType'
    BY <1>2, <2>1 DEF ConsoleInv, ConsoleType
  <2>3. ASSUME NEW w \in Writers PROVE Fit(writer[w])'
    BY <1>2, <2>1, SameDocuments DEF ConsoleInv
  <2>. QED  BY <2>2, <2>3 DEF ConsoleInv
<1>3. RegistrarInv /\ UNCHANGED registrarVars => RegistrarInv'
  BY RegistrarStep
<1>. QED  BY <1>1, <1>2, <1>3

\* Every step of the composed system preserves the invariant of each part.
LEMMA Step == Inv /\ [Next]_vars => Inv'
<1>. SUFFICES ASSUME Inv, [Next]_vars PROVE Inv'
  OBVIOUS
<1>0. DeliveryInv /\ ConsoleInv /\ RegistrarInv
  BY DEF Inv
<1>1. CASE Deliver
  BY <1>0, <1>1, DeliveryStep, UnchangedFits DEF Inv, Deliver, consoleVars, registrarVars
<1>2. CASE HandOver
  BY <1>0, <1>2, HandedToConsoleFits, BeginFits, Worker, UnchangedFits DEF Inv, HandOver
<1>3. CASE TakeBack
  BY <1>0, <1>3, TakeBackFits, UnchangedFits DEF Inv, TakeBack, registrarVars
<1>4. CASE AtTheConsole
  BY <1>0, <1>4, ConsoleStep, UnchangedFits DEF Inv, AtTheConsole, registrarVars, deliveryVars
<1>5. CASE Register
  BY <1>0, <1>5, RegistrarStep, UnchangedFits DEF Inv, Register, consoleVars, deliveryVars
<1>6. CASE UNCHANGED vars
  BY <1>0, <1>6, UnchangedFits DEF Inv, vars, consoleVars, registrarVars, deliveryVars
<1>. QED  BY <1>1, <1>2, <1>3, <1>4, <1>5, <1>6 DEF Next

\* The initial states satisfy the invariant of each part.
LEMMA First == Init => Inv
<1>1. ASSUME RegistrarInit PROVE RegistrarInv
  <2>1. rules = 0 /\ posts = 0 /\ raced = FALSE /\ registrar = "off"
    BY <1>1 DEF RegistrarInit
  <2>2. raced \in BOOLEAN
    BY <2>1
  <2>3. rules \in Nat /\ posts \in Nat /\ rules + posts <= 1 /\ registrar # "create"
    BY <2>1
  <2>. QED  BY <2>2, <2>3 DEF RegistrarInv
<1>. QED  BY <1>1, DeliveryFirst, ConsoleFirst DEF Init, Inv

\* The books of the transition, the records of the console's writers and the
\* registrar's rule stay consistent through every interleaving of the worker,
\* the other workers, a person and the console (edge_actions.go, client.go,
\* write.go, alarm.go).
THEOREM InvHolds == Spec => []Inv
BY First, Step, PTL DEF Spec

\* A side effect that the author did not declare repeatable takes place at most
\* once per transition, for every list, budget and course of the answers.
THEOREM AtMostOnceHolds == Spec => []AtMostOnce
<1>1. Inv => AtMostOnce
  <2>. SUFFICES ASSUME DeliveryInv, NEW i \in 1..Len(list) PROVE performed[i] <= Most(list[i])
    BY DEF Inv, AtMostOnce, Most
  <2>1. Len(list) \in Nat /\ Len(results) \in Nat /\ Index = Len(results) + 1
        /\ performed[i] \in Nat
    BY TheList DEF DeliveryInv, DeliveryType, Index
  <2>2. CASE i < Index
    BY <2>1, <2>2 DEF DeliveryInv, Counted
  <2>3. CASE i = Index /\ Requesting
    <3>1. performed[Index] <= try /\ try \in 1..Attempts /\ Attempts <= Most(Current) /\ Attempts \in Nat
      BY <2>3, SameRequest
    <3>. QED  BY <2>1, <2>3, <3>1, MostType DEF Current
  <2>4. CASE i > Index \/ (i = Index /\ ~Requesting)
    <3>1. performed[i] = 0
      BY <2>4 DEF DeliveryInv, Counted
    <3>. QED  BY <3>1, MostType
  <2>. QED  BY <2>1, <2>2, <2>3, <2>4
<1>. QED  BY <1>1, InvHolds, PTL

\* Between two actions Reactor holds no session at a far end that it could
\* still end, whatever became of the request, the budget or the manager.
THEOREM SessionsEndedHolds == Spec => []SessionsEnded
<1>1. Inv => SessionsEnded
  BY DEF Inv, DeliveryInv, Held, SessionsEnded
<1>. QED  BY <1>1, InvHolds, PTL

\* A transition's actions occupy the worker no longer than the budget and one
\* logout.
THEOREM WithinBudgetHolds == Spec => []WithinBudget
<1>1. Inv => WithinBudget
  BY DEF Inv, DeliveryInv, OnTime, WithinBudget
<1>. QED  BY <1>1, InvHolds, PTL

\* status.edgeActions reports what the far ends did.
THEOREM ReportedAsItWentHolds == Spec => []ReportedAsItWent
<1>1. Inv => ReportedAsItWent
  BY DEF Inv, DeliveryInv, Counted, ReportedAsItWent
<1>. QED  BY <1>1, InvHolds, PTL

\* An install without destinations reads no credential, a dry run does nothing.
THEOREM OffMeansOffHolds == Spec => []OffMeansOff
<1>1. Inv => OffMeansOff
  BY DEF Inv, DeliveryInv, Quiet, OffMeansOff
<1>. QED  BY <1>1, InvHolds, PTL

\* A console action that succeeded was written once or found nothing to do.
THEOREM SuccessMeansSetHolds == Spec => []SuccessMeansSet
<1>1. Inv => SuccessMeansSet
  BY DEF Inv, ConsoleInv, Fit, SuccessMeansSet
<1>. QED  BY <1>1, InvHolds, PTL

\* No worker rests with a session on the console.
THEOREM NoSessionLeftHolds == Spec => []NoSessionLeft
<1>1. Inv => NoSessionLeft
  BY DEF Inv, ConsoleInv, Fit, NoSessionLeft
<1>. QED  BY <1>1, InvHolds, PTL

\* The console holds one rule of Reactor's unless two creates crossed.
THEOREM OneRuleHolds == Spec => []OneRule
<1>1. Inv => OneRule
  BY DEF Inv, RegistrarInv, OneRule
<1>. QED  BY <1>1, InvHolds, PTL

\* What is known of a step of the manager in which a write reaches the console.
LEMMA CarriedOut ==
  ASSUME Inv, [Next]_vars, NEW w \in Writers, CarriesOut(w)
  PROVE  /\ writer[w].at = "write" /\ console' = Take(w)
         /\ writer[w].action \in ConsoleActions /\ Allowed(writer[w].action)
         /\ Meant(writer[w].action, writer[w].body)
         /\ writer[w].fresh => writer[w].body = Body(writer[w].action) /\ Named(writer[w].action)
<1>0. ConsoleInv /\ writer[w] \in Writer /\ Fit(writer[w]) /\ writer \in [Writers -> Writer]
  BY DEF Inv, ConsoleInv, ConsoleType
<1>1. writer[w].carried \in Nat
  BY <1>0 DEF Writer
<1>2. writer' # writer
  BY <1>1 DEF CarriesOut
<1>3. ~TakeBack
  <2>1. SUFFICES ASSUME writer' = [writer EXCEPT ![Mine] = Resting] PROVE FALSE
    BY DEF TakeBack
  <2>2. writer'[w].carried \in {0, writer[w].carried}
    BY <1>0, <2>1 DEF Resting
  <2>. QED  BY <1>1, <2>2 DEF CarriesOut
<1>4. \/ PersonOrConsole
      \/ \E v \in Writers : WriterSteps(v)
      \/ \E v \in Writers, action \in ConsoleActions : BeginWrite(v, action)
  <2>1. ~Deliver /\ ~Register /\ ~UNCHANGED vars
    BY <1>2 DEF Deliver, Register, vars, consoleVars
  <2>2. HandOver \/ AtTheConsole
    BY <1>3, <2>1 DEF Next
  <2>. QED  BY <2>2, Worker DEF HandOver, AtTheConsole
<1>5. writer[w].at = "write" /\ console' = Take(w)
  BY <1>0, <1>4, OnlySendsCarryOut
<1>. QED  BY <1>0, <1>5 DEF Fit

\* If nothing changed between a worker's read and its write, the write changes
\* the one field that the Automation asked about and nothing else on the
\* console, however many outlets the device has.
THEOREM OnlyTheAddressedHolds == Spec => OnlyTheAddressed
<1>1. ASSUME Inv, [Next]_vars, NEW w \in Writers, CarriesOut(w), writer[w].fresh,
             NEW action, action = writer[w].action
      PROVE  console' \in {console,
                     [console EXCEPT !.wlan.on = IF action.kind = "wlan" THEN action.want ELSE @],
                     [console EXCEPT !.overrides =
                        [o \in DOMAIN @ |-> IF action.kind = "outlet" /\ o = action.outlet
                                            THEN [@[o] EXCEPT !.on = action.want] ELSE @[o]]]}
  <2>1. console' = Take(w) /\ action \in ConsoleActions /\ writer[w].body = Body(action)
    BY <1>1, CarriedOut
  <2>2. console \in Document
    BY <1>1 DEF Inv, ConsoleInv, ConsoleType
  <2>3. CASE action.kind = "wlan"
    <3>1. console' = [console EXCEPT !.wlan = [console.wlan EXCEPT !.on = action.want]]
      BY <1>1, <2>1, <2>3 DEF Take, Body
    <3>. QED  BY <2>3, <3>1
  <2>4. CASE action.kind = "poe"
    BY <1>1, <2>1, <2>4 DEF Take
  <2>5. CASE action.kind = "outlet"
    <3>1. console' = [console EXCEPT !.overrides =
                        [console.overrides EXCEPT ![action.outlet].on = action.want]]
      BY <1>1, <2>1, <2>5 DEF Take, Body
    <3>2. [console.overrides EXCEPT ![action.outlet].on = action.want] =
            [o \in DOMAIN console.overrides |->
               IF action.kind = "outlet" /\ o = action.outlet
               THEN [console.overrides[o] EXCEPT !.on = action.want] ELSE console.overrides[o]]
      BY <2>5
    <3>. QED  BY <3>1, <3>2
  <2>. QED  BY <2>1, <2>3, <2>4, <2>5, Kinds
<1>2. Inv /\ [Next]_vars =>
        [\A w \in Writers : CarriesOut(w) /\ writer[w].fresh =>
           LET action == writer[w].action IN
           console' \in {console,
                     [console EXCEPT !.wlan.on = IF action.kind = "wlan" THEN action.want ELSE @],
                     [console EXCEPT !.overrides =
                        [o \in DOMAIN @ |-> IF action.kind = "outlet" /\ o = action.outlet
                                            THEN [@[o] EXCEPT !.on = action.want] ELSE @[o]]]}
        ]_consoleVars
  BY <1>1
<1>. QED  BY <1>2, InvHolds, PTL DEF Spec, OnlyTheAddressed

\* Install, Automation and console agree on the object of every write.
THEOREM AgreedWhenWrittenHolds == Spec => AgreedWhenWritten
<1>1. ASSUME Inv, [Next]_vars, NEW w \in Writers, CarriesOut(w),
             NEW action, action = writer[w].action
      PROVE  /\ action.kind = "wlan" => action.name \in policy.wlans
             /\ action.kind = "outlet" => /\ <<action.outlet, action.name>> \in policy.outlets
                                          /\ Bank[action.outlet] # "unread"
                                          /\ Bank[action.outlet] = "battery" => policy.battery
             /\ writer[w].fresh =>
                  CASE action.kind = "wlan" -> console.wlan.name = action.name
                    [] action.kind = "poe"  -> console.port.name = action.name /\ console.port.uplink = "no"
                    [] OTHER -> console.overrides[action.outlet].name = action.name
  <2>1. /\ action \in ConsoleActions /\ Allowed(action) /\ Meant(action, writer[w].body)
        /\ writer[w].fresh => Named(action)
    BY <1>1, CarriedOut
  <2>2. CASE action.kind = "wlan"
    BY <2>1, <2>2 DEF Allowed, Named
  <2>3. CASE action.kind = "poe"
    BY <2>1, <2>3 DEF Named
  <2>4. CASE action.kind = "outlet"
    BY <2>1, <2>4 DEF Allowed, Meant, Named, Addressable
  <2>. QED  BY <2>1, <2>2, <2>3, <2>4, Kinds
<1>2. Inv /\ [Next]_vars =>
        [\A w \in Writers : CarriesOut(w) =>
           LET action == writer[w].action IN
           /\ action.kind = "wlan" => action.name \in policy.wlans
           /\ action.kind = "outlet" => /\ <<action.outlet, action.name>> \in policy.outlets
                                        /\ Bank[action.outlet] # "unread"
                                        /\ Bank[action.outlet] = "battery" => policy.battery
           /\ writer[w].fresh =>
                CASE action.kind = "wlan" -> console.wlan.name = action.name
                  [] action.kind = "poe"  -> console.port.name = action.name /\ console.port.uplink = "no"
                  [] OTHER -> console.overrides[action.outlet].name = action.name
        ]_consoleVars
  BY <1>1
<1>. QED  BY <1>2, InvHolds, PTL DEF Spec, AgreedWhenWritten

=============================================================================
