--------------------------- MODULE MCHerdrSpaces ---------------------------
(* Instances of HerdrSpaces for TLC.                                       *)
EXTENDS HerdrSpaces

CONSTANTS s1, s2, s3, c1, c2, c3, k1, k2, k3, k4

TwoSpaces == <<s1, s2>>

\* Two calls of a client with a relay, one of a writer without, one of a reader.
Callers == [k \in Call |-> CASE k = k3 -> c2 [] k = k4 -> c3 [] OTHER -> c1]
Kinds == [k \in Call |-> CASE k = k1 -> {"close", "switch"}
                           [] k = k2 -> {"close", "switch", "tab", "get", "create"}
                           [] k = k3 -> {"switch", "tab"}
                           [] OTHER  -> {"switch"}]

\* All with the one id or all with the other.
OneSpelling == {[c \in Client |-> i] : i \in {"qualified", "bare"}}

\* Bound: under the bare id it is k3 that moves the daemon's focus instead of a
\* desktop client, and the reader stays out.
Bounded == idOf[c1] = "bare" => moved = 0 /\ stage[k4] = "idle"

=============================================================================
