---------------------------- MODULE Destinations ----------------------------
(***************************************************************************)
(* Where an outbound action may go: internal/actions/destination.go.  A    *)
(* host is the sequence of its labels, a port a number with 0 for none     *)
(* written, an address only its class.                                     *)
(***************************************************************************)
EXTENDS Naturals, Sequences, SequencesExt

DefaultPort(scheme) == IF scheme = "https" THEN 443 ELSE 80

EffectivePort(port, scheme) == IF port = 0 THEN DefaultPort(scheme) ELSE port

\* An entry the operator may write: a web origin without a path, a wildcard
\* only as the leading label.
Usable(entry) ==
  \/ entry.any
  \/ /\ entry.scheme \in {"http", "https"}
     /\ entry.host # <<>>
     /\ ~entry.path
     /\ \A i \in 2..Len(entry.host) : entry.host[i] # "*"

\* What the policy keeps of an entry: the literal host, or what follows its
\* wildcard, and the port that is meant when none is written.
Parsed(entry) ==
  LET wildcard == ~entry.any /\ Head(entry.host) = "*" IN
  [any      |-> entry.any,
   wildcard |-> wildcard,
   scheme   |-> entry.scheme,
   host     |-> IF wildcard THEN Tail(entry.host) ELSE entry.host,
   port     |-> EffectivePort(entry.port, entry.scheme)]

\* ParsePolicy: one entry that does not parse and the manager does not start.
WellFormed(entries) == \A e \in entries : Usable(e)

Matches(destination, url) ==
  \/ destination.any
  \/ /\ destination.scheme = url.scheme
     /\ destination.port = EffectivePort(url.port, url.scheme)
     /\ IF destination.wildcard
        THEN /\ IsSuffix(destination.host, url.host)
             /\ Len(url.host) > Len(destination.host)
        ELSE destination.host = url.host

\* Policy.Check: a web address of a host, with no user in it, that some entry
\* of the allowlist matches.
Approved(entries, url) ==
  /\ url.scheme \in {"http", "https"}
  /\ ~url.user
  /\ url.host # <<>>
  /\ \E e \in entries : Matches(Parsed(e), url)

\* The floor, on the address that is really dialled and whatever the allowlist.
Dialable(address) == address \notin {"loopback", "link-local", "unspecified", "multicast"}

=============================================================================
