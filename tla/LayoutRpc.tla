----------------------------- MODULE LayoutRpc -----------------------------
(***************************************************************************)
(* What the layout queries of a relay promise the GetLayout calls that     *)
(* make them (muxrd/src/grpc/layout.rs), whoever answers and in whatever   *)
(* order: a call ends, with a snapshot or without, and a snapshot is made  *)
(* of what one query was told.  Which query that is, is not promised.      *)
(***************************************************************************)

CONSTANT Query  \* the GetLayout calls, each made once

VARIABLES
  call,   \* of each: "idle", "pending", "snapshot" or "fallback"
  fired,  \* the queries sent to the multiplexer, completely
  from    \* of each snapshot: the queries it is made of

vars == <<call, fired, from>>

Pending == {q \in Query : call[q] = "pending"}

Init ==
  /\ call = [q \in Query |-> "idle"]
  /\ fired = {}
  /\ from = [q \in Query |-> {}]

\* get_layout_impl: by the relay, or at once by other means.
Ask(q) ==
  /\ call[q] = "idle"
  /\ \E to \in {"pending", "fallback"} : call' = [call EXCEPT ![q] = to]
  /\ UNCHANGED <<fired, from>>

\* The query is sent, also when its call has given up.
Fire(q) ==
  /\ call[q] # "idle"
  /\ fired' = fired \cup {q}
  /\ UNCHANGED <<call, from>>

Answer(q) ==
  /\ call[q] = "pending"
  /\ call' = [call EXCEPT ![q] = "snapshot"]
  /\ \E p \in fired : from' = [from EXCEPT ![q] = {p}]
  /\ UNCHANGED fired

\* The relay's end, a newer query or a timeout: calls fall back, together or alone.
GiveUp(qs) ==
  /\ qs # {} /\ qs \subseteq Pending
  /\ call' = [q \in Query |-> IF q \in qs THEN "fallback" ELSE call[q]]
  /\ UNCHANGED <<fired, from>>

Ends(q) == Answer(q) \/ \E qs \in SUBSET Query : q \in qs /\ GiveUp(qs)

Next == \E q \in Query : Ask(q) \/ Fire(q) \/ Ends(q)

Spec == Init /\ [][Next]_vars

\* Every call comes to its end.
FairSpec == Spec /\ \A q \in Query : WF_vars(Ends(q))

=============================================================================
