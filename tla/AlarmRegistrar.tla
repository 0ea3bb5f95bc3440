--------------------------- MODULE AlarmRegistrar ---------------------------
(***************************************************************************)
(* Registration of Reactor's rule in the console's Alarm Manager:          *)
(* internal/providers/unifi/alarm.go.  It runs once per start of the       *)
(* leading manager, swallows every failure and never edits a rule.         *)
(***************************************************************************)
EXTENDS Naturals, FiniteSets

CONSTANTS
  Manifests,  \* sets of action and trigger ids a console may offer
  Webhook,    \* network:webhook
  Triggers,   \* DefaultAlarmTriggers
  MaxStarts   \* bound on the starts of a manager

VARIABLES
  manifest,   \* what this console offers
  registrar,  \* the step the leader's registrar is at
  rules,      \* the triggers of each rule titled Reactor's, by order of creation
  posts,      \* creates under way whose sender has given up
  starts,     \* starts of a leader so far
  raced       \* a registrar listed the rules while such a create was under way

registrarVars == <<manifest, registrar, rules, posts, starts, raced>>

RegistrarInit ==
  /\ manifest \in Manifests
  /\ registrar = "off"
  /\ rules = 0
  /\ posts = 0
  /\ starts = 0
  /\ raced = FALSE

Offered == Triggers \cap manifest

\* A manager becomes leader and starts the registrar.  Without a token or a
\* callback address the console could use it refuses; otherwise it logs in.
StartRegistrar ==
  /\ starts < MaxStarts
  /\ starts' = starts + 1
  /\ registrar' \in {"off", "login"}
  /\ UNCHANGED <<manifest, rules, posts, raced>>

\* Any call fails: logged and swallowed until the next start.
RegistrarFails ==
  /\ registrar \in {"login", "manifest", "list"}
  /\ registrar' = "off"
  /\ UNCHANGED <<manifest, rules, posts, starts, raced>>

LogIn ==
  /\ registrar = "login" /\ registrar' = "manifest"
  /\ UNCHANGED <<manifest, rules, posts, starts, raced>>

\* The console must offer the webhook action and one of the triggers at least.
ReadManifest ==
  /\ registrar = "manifest"
  /\ registrar' = IF Webhook \in manifest /\ Offered # {} THEN "list" ELSE "off"
  /\ UNCHANGED <<manifest, rules, posts, starts, raced>>

\* Wrong: a list that cannot be read is taken for an empty one.
ListOrAssume ==
  /\ registrar = "list"
  /\ registrar' \in {IF rules > 0 THEN "off" ELSE "create", "create"}
  /\ raced' = (raced \/ posts > 0)
  /\ UNCHANGED <<manifest, rules, posts, starts>>

\* A rule of Reactor's title is left untouched, whatever is in it.
ListRules ==
  /\ registrar = "list"
  /\ registrar' = IF rules > 0 THEN "off" ELSE "create"
  /\ raced' = (raced \/ posts > 0)
  /\ UNCHANGED <<manifest, rules, posts, starts>>

\* The create: done, refused, or given up on while it is still on its way.
CreateRule ==
  /\ registrar = "create"
  /\ registrar' = "off"
  /\ \/ rules' = rules + 1 /\ UNCHANGED posts
     \/ posts' = posts + 1 /\ UNCHANGED rules
     \/ UNCHANGED <<rules, posts>>
  /\ UNCHANGED <<manifest, starts, raced>>

\* A create its sender has given up on arrives, or is lost.
PostLands ==
  /\ posts > 0 /\ posts' = posts - 1
  /\ rules' \in {rules, rules + 1}
  /\ UNCHANGED <<manifest, registrar, starts, raced>>

\* Somebody deletes the rule in the UniFi UI.
DeleteRule ==
  /\ rules > 0 /\ rules' = rules - 1
  /\ UNCHANGED <<manifest, registrar, posts, starts, raced>>

RegistrarNext ==
  \/ StartRegistrar \/ RegistrarFails \/ LogIn \/ ReadManifest \/ ListRules
  \/ CreateRule \/ PostLands \/ DeleteRule

\* However often managers start, fail and lose the lead, the console never
\* holds two rules of Reactor's, which would post every alarm twice, unless one
\* listed the rules while an earlier create was still under way (alarm.go,
\* register: the list comes before the create, in the same session).
OneRule == rules + posts > 1 => raced

=============================================================================
