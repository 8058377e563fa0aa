---------------------------- MODULE AttachProofs ----------------------------
(***************************************************************************)
(* What RelayLifecycle promises, proved for any attaches, sessions and     *)
(* bound of the channel: the count, the registries and the threads of the  *)
(* relays stay in step; and what ZellijSession promises of a session that  *)
(* calls and attaches share, for any of them and any sizes and limits.     *)
(***************************************************************************)
EXTENDS RelayLifecycle, ZellijSession, TLAPS, FiniteSetTheorems, SequenceTheorems,
        WellFoundedInduction

\* Where an attach is in the registries follows from where its task is: it can
\* be routed to while it serves, and its view is there for longer than that.
Listed(c) ==
  /\ c \in control => task[c] = "serving"
  /\ task[c] \in {"viewed", "serving"} => c \in views
  /\ c \in views => task[c] \in {"viewed", "serving", "unlisted"}

\* A thread runs for an attach that holds its guard only.
Held(c) == Running(c) => task[c] \in Guarded

\* The attaches of a session that hold a guard.
Holders(s) == {c \in Conn : KeyOf[c] = s /\ task[c] \in Guarded}

\* The count, with the finiteness its cardinality needs.
Counted == \A s \in Session : IsFiniteSet(Holders(s)) /\ count[s] = Cardinality(Holders(s))

\* The types of all but the count, which is a number because it is exact.
TaskTypeOK ==
  /\ task \in [Conn -> {"idle", "opening", "closed"} \cup Guarded]
  /\ control \subseteq Conn /\ views \subseteq Conn
  /\ DOMAIN count = Session /\ count = [s \in Session |-> count[s]]

ReaderTypeOK ==
  /\ reader \in [Conn -> {"none", "top", "recv", "got", "send", "exited"}]
  /\ frames \in [Conn -> 0 .. Bound]
  /\ outlet \in [Conn -> {"none", "rpc", "client", "dropped"}]

OutsideTypeOK ==
  /\ wire \in [Conn -> Nat]
  /\ sent \in [Conn -> 0 .. MaxMessages]
  /\ link \in [Conn -> {"none", "up", "down"}]
  /\ client \in [Conn -> {"open", "detached", "gone"}]
  /\ token \in [Conn -> {"valid", "revoked"}]

AllTypeOK == TaskTypeOK /\ ReaderTypeOK /\ OutsideTypeOK

IInv == AllTypeOK /\ Counted /\ \A c \in Conn : Listed(c) /\ Held(c)

----------------------------------------------------------------------------
\* Nothing is held at the start.
LEMMA InitIInv == Init => IInv
<1> SUFFICES ASSUME Init PROVE IInv
  OBVIOUS
<1> USE LifecycleAssumption
<1>1. TaskTypeOK /\ ReaderTypeOK /\ OutsideTypeOK
  BY DEF Init, TaskTypeOK, ReaderTypeOK, OutsideTypeOK
<1>2. \A c \in Conn : Listed(c) /\ Held(c)
  BY DEF Init, Listed, Held, Running
<1>3. ASSUME NEW s \in Session
      PROVE  IsFiniteSet(Holders(s)) /\ count[s] = Cardinality(Holders(s))
  <2>1. Holders(s) = {}
    BY DEF Init, Holders, Guarded
  <2>2. count[s] = 0
    BY DEF Init
  <2> QED BY <2>1, <2>2, FS_EmptySet
<1> QED BY <1>1, <1>2, <1>3 DEF IInv, AllTypeOK, Counted

\* A step that hands out and takes back no guard keeps the count exact.
LEMMA CountFrame ==
  ASSUME Counted, UNCHANGED count,
         \A c \in Conn : task'[c] \in Guarded <=> task[c] \in Guarded
  PROVE  Counted'
<1>1. \A s \in Session : Holders(s)' = Holders(s)
  BY DEF Holders
<1> QED BY <1>1 DEF Counted

\* One that hands out a guard counts it (SessionClients::attach).
LEMMA CountAttach ==
  ASSUME TaskTypeOK, Counted, NEW c \in Conn, task[c] \notin Guarded,
         Attach(KeyOf[c]), NEW next \in Guarded, task' = [task EXCEPT ![c] = next]
  PROVE  Counted'
<1> USE LifecycleAssumption
<1>1. ASSUME NEW s \in Session
      PROVE  IsFiniteSet(Holders(s)') /\ count'[s] = Cardinality(Holders(s)')
  <2>1. CASE s = KeyOf[c]
    <3>1. Holders(s)' = Holders(s) \cup {c} /\ c \notin Holders(s)
      BY <2>1 DEF Holders, TaskTypeOK
    <3>2. count'[s] = count[s] + 1
      BY <2>1 DEF Attach, TaskTypeOK
    <3> QED BY <3>1, <3>2, FS_AddElement DEF Counted
  <2>2. CASE s # KeyOf[c]
    <3>1. Holders(s)' = Holders(s)
      BY <2>2 DEF Holders, TaskTypeOK
    <3>2. count'[s] = count[s]
      BY <2>2 DEF Attach, TaskTypeOK
    <3> QED BY <3>1, <3>2 DEF Counted
  <2> QED BY <2>1, <2>2
<1> QED BY <1>1 DEF Counted

\* One that takes a guard back uncounts it (ClientGuard::drop).
LEMMA CountDetach ==
  ASSUME TaskTypeOK, Counted, NEW c \in Conn, task[c] \in Guarded,
         Detach(KeyOf[c]), task' = [task EXCEPT ![c] = "closed"]
  PROVE  Counted'
<1> USE LifecycleAssumption
<1>1. ASSUME NEW s \in Session
      PROVE  IsFiniteSet(Holders(s)') /\ count'[s] = Cardinality(Holders(s)')
  <2>1. CASE s = KeyOf[c]
    <3>1. Holders(s)' = Holders(s) \ {c} /\ c \in Holders(s)
      BY <2>1 DEF Holders, TaskTypeOK, Guarded
    <3>2. count'[s] = count[s] - 1
      BY <2>1 DEF Detach, TaskTypeOK
    <3> QED BY <3>1, <3>2, FS_RemoveElement DEF Counted
  <2>2. CASE s # KeyOf[c]
    <3>1. Holders(s)' = Holders(s)
      BY <2>2 DEF Holders, TaskTypeOK
    <3>2. count'[s] = count[s]
      BY <2>2 DEF Detach, TaskTypeOK
    <3> QED BY <3>1, <3>2 DEF Counted
  <2> QED BY <2>1, <2>2
<1> QED BY <1>1 DEF Counted

----------------------------------------------------------------------------
\* A step of one attach: its task, entries and thread agree after it, and those
\* of the others are left alone.
LEMMA OneAttach ==
  ASSUME IInv, NEW c \in Conn, Listed(c)', Held(c)',
         \A x \in Conn \ {c} :
           /\ task'[x] = task[x]
           /\ x \in control' <=> x \in control
           /\ x \in views' <=> x \in views
           /\ reader'[x] = reader[x]
  PROVE  \A x \in Conn : Listed(x)' /\ Held(x)'
<1>1. \A x \in Conn \ {c} : Listed(x)' /\ Held(x)'
  BY DEF IInv, Listed, Held, Running
<1> QED BY <1>1

\* The RPC and the inbound task keep the types.
LEMMA TaskTypes ==
  ASSUME AllTypeOK, NEW c \in Conn, Rpc(c) \/ Inbound(c)
  PROVE  AllTypeOK'
<1> USE LifecycleAssumption DEF AllTypeOK
<1>1. ASSUME FirstFrame(c) PROVE AllTypeOK'
  <2>1. TaskTypeOK'
    BY <1>1 DEF FirstFrame, TaskTypeOK, Guarded, registries
  <2>2. ReaderTypeOK'
    BY <1>1 DEF FirstFrame, ReaderTypeOK, readerVars
  <2>3. OutsideTypeOK'
    BY <1>1 DEF FirstFrame, OutsideTypeOK, backendVars, clientVars
  <2> QED BY <2>1, <2>2, <2>3
<1>2. ASSUME OpenFails(c) PROVE AllTypeOK'
  <2>1. TaskTypeOK'
    BY <1>2 DEF OpenFails, TaskTypeOK, Guarded, registries
  <2>2. ReaderTypeOK'
    BY <1>2 DEF OpenFails, ReaderTypeOK, readerVars
  <2>3. OutsideTypeOK'
    BY <1>2 DEF OpenFails, OutsideTypeOK, backendVars, clientVars
  <2> QED BY <2>1, <2>2, <2>3
<1>3. ASSUME Opened(c) PROVE AllTypeOK'
  <2>1. TaskTypeOK'
    BY <1>3 DEF Opened, TaskTypeOK, Guarded, registries, Attach
  <2>2. ReaderTypeOK'
    BY <1>3 DEF Opened, ReaderTypeOK, readerVars
  <2>3. OutsideTypeOK'
    BY <1>3 DEF Opened, OutsideTypeOK, backendVars, clientVars
  <2> QED BY <2>1, <2>2, <2>3
<1>4. ASSUME InsertView(c) PROVE AllTypeOK'
  <2>1. TaskTypeOK'
    BY <1>4 DEF InsertView, TaskTypeOK, Guarded, registries
  <2>2. ReaderTypeOK'
    BY <1>4 DEF InsertView, ReaderTypeOK, readerVars
  <2>3. OutsideTypeOK'
    BY <1>4 DEF InsertView, OutsideTypeOK, backendVars, clientVars
  <2> QED BY <2>1, <2>2, <2>3
<1>5. ASSUME Register(c) PROVE AllTypeOK'
  <2>1. TaskTypeOK'
    BY <1>5 DEF Register, TaskTypeOK, Guarded, registries
  <2>2. ReaderTypeOK'
    BY <1>5 DEF Register, ReaderTypeOK, readerVars
  <2>3. OutsideTypeOK'
    BY <1>5 DEF Register, OutsideTypeOK, backendVars, clientVars
  <2> QED BY <2>1, <2>2, <2>3
<1>6. ASSUME Cancel(c) PROVE AllTypeOK'
  <2>1. TaskTypeOK'
    BY <1>6 DEF Cancel, TaskTypeOK, Guarded, registries
  <2>2. ReaderTypeOK'
    BY <1>6 DEF Cancel, ReaderTypeOK, readerVars
  <2>3. OutsideTypeOK'
    BY <1>6 DEF Cancel, OutsideTypeOK, backendVars, clientVars, Nudge
  <2> QED BY <2>1, <2>2, <2>3
<1>7. ASSUME Unwound(c) PROVE AllTypeOK'
  <2>1. TaskTypeOK'
    BY <1>7 DEF Unwound, TaskTypeOK, Guarded, registries, Detach
  <2>2. ReaderTypeOK'
    BY <1>7 DEF Unwound, ReaderTypeOK, readerVars
  <2>3. OutsideTypeOK'
    BY <1>7 DEF Unwound, OutsideTypeOK, backendVars, clientVars
  <2> QED BY <2>1, <2>2, <2>3
<1>8. ASSUME Deregister(c) PROVE AllTypeOK'
  <2>1. TaskTypeOK'
    BY <1>8 DEF Deregister, TaskTypeOK, Guarded, registries
  <2>2. ReaderTypeOK'
    BY <1>8 DEF Deregister, ReaderTypeOK, readerVars
  <2>3. OutsideTypeOK'
    BY <1>8 DEF Deregister, OutsideTypeOK, backendVars, clientVars
  <2> QED BY <2>1, <2>2, <2>3
<1>9. ASSUME RemoveView(c) PROVE AllTypeOK'
  <2>1. TaskTypeOK'
    BY <1>9 DEF RemoveView, TaskTypeOK, Guarded, registries
  <2>2. ReaderTypeOK'
    BY <1>9 DEF RemoveView, ReaderTypeOK, readerVars
  <2>3. OutsideTypeOK'
    BY <1>9 DEF RemoveView, OutsideTypeOK, backendVars, clientVars
  <2> QED BY <2>1, <2>2, <2>3
<1>10. ASSUME Shutdown(c) PROVE AllTypeOK'
  <2>1. TaskTypeOK'
    BY <1>10 DEF Shutdown, TaskTypeOK, Guarded, registries
  <2>2. ReaderTypeOK'
    BY <1>10 DEF Shutdown, ReaderTypeOK, readerVars
  <2>3. OutsideTypeOK'
    BY <1>10 DEF Shutdown, OutsideTypeOK, backendVars, clientVars, Nudge
  <2> QED BY <2>1, <2>2, <2>3
<1>11. ASSUME Join(c) PROVE AllTypeOK'
  <2>1. TaskTypeOK'
    BY <1>11 DEF Join, TaskTypeOK, Guarded, registries, Detach
  <2>2. ReaderTypeOK'
    BY <1>11 DEF Join, ReaderTypeOK, readerVars
  <2>3. OutsideTypeOK'
    BY <1>11 DEF Join, OutsideTypeOK, backendVars, clientVars
  <2> QED BY <2>1, <2>2, <2>3
<1> QED
  BY <1>1, <1>2, <1>3, <1>4, <1>5, <1>6, <1>7, <1>8, <1>9, <1>10, <1>11 DEF Rpc,
                                                                            Inbound

\* The RPC and the inbound task keep the count exact.
LEMMA TaskCounts ==
  ASSUME IInv, NEW c \in Conn, Rpc(c) \/ Inbound(c)
  PROVE  Counted'
<1> USE DEF IInv, AllTypeOK
<1>1. ASSUME FirstFrame(c) PROVE Counted'
  <2>1. \A x \in Conn : task'[x] \in Guarded <=> task[x] \in Guarded
    BY <1>1 DEF FirstFrame, TaskTypeOK, Guarded
  <2>2. UNCHANGED count
    BY <1>1 DEF FirstFrame
  <2> QED BY <2>1, <2>2, CountFrame
<1>2. ASSUME OpenFails(c) PROVE Counted'
  <2>1. \A x \in Conn : task'[x] \in Guarded <=> task[x] \in Guarded
    BY <1>2 DEF OpenFails, TaskTypeOK, Guarded
  <2>2. UNCHANGED count
    BY <1>2 DEF OpenFails
  <2> QED BY <2>1, <2>2, CountFrame
<1>3. ASSUME Opened(c) PROVE Counted'
  BY <1>3, CountAttach DEF Opened, Guarded
<1>4. ASSUME InsertView(c) PROVE Counted'
  <2>1. \A x \in Conn : task'[x] \in Guarded <=> task[x] \in Guarded
    BY <1>4 DEF InsertView, TaskTypeOK, Guarded
  <2>2. UNCHANGED count
    BY <1>4 DEF InsertView
  <2> QED BY <2>1, <2>2, CountFrame
<1>5. ASSUME Register(c) PROVE Counted'
  <2>1. \A x \in Conn : task'[x] \in Guarded <=> task[x] \in Guarded
    BY <1>5 DEF Register, TaskTypeOK, Guarded
  <2>2. UNCHANGED count
    BY <1>5 DEF Register
  <2> QED BY <2>1, <2>2, CountFrame
<1>6. ASSUME Cancel(c) PROVE Counted'
  <2>1. \A x \in Conn : task'[x] \in Guarded <=> task[x] \in Guarded
    BY <1>6 DEF Cancel, TaskTypeOK, Guarded
  <2>2. UNCHANGED count
    BY <1>6 DEF Cancel
  <2> QED BY <2>1, <2>2, CountFrame
<1>7. ASSUME Unwound(c) PROVE Counted'
  BY <1>7, CountDetach DEF Unwound, Guarded
<1>8. ASSUME Deregister(c) PROVE Counted'
  <2>1. \A x \in Conn : task'[x] \in Guarded <=> task[x] \in Guarded
    BY <1>8 DEF Deregister, TaskTypeOK, Guarded
  <2>2. UNCHANGED count
    BY <1>8 DEF Deregister
  <2> QED BY <2>1, <2>2, CountFrame
<1>9. ASSUME RemoveView(c) PROVE Counted'
  <2>1. \A x \in Conn : task'[x] \in Guarded <=> task[x] \in Guarded
    BY <1>9 DEF RemoveView, TaskTypeOK, Guarded
  <2>2. UNCHANGED count
    BY <1>9 DEF RemoveView
  <2> QED BY <2>1, <2>2, CountFrame
<1>10. ASSUME Shutdown(c) PROVE Counted'
  <2>1. \A x \in Conn : task'[x] \in Guarded <=> task[x] \in Guarded
    BY <1>10 DEF Shutdown, TaskTypeOK, Guarded
  <2>2. UNCHANGED count
    BY <1>10 DEF Shutdown
  <2> QED BY <2>1, <2>2, CountFrame
<1>11. ASSUME Join(c) PROVE Counted'
  BY <1>11, CountDetach DEF Join, Guarded
<1> QED
  BY <1>1, <1>2, <1>3, <1>4, <1>5, <1>6, <1>7, <1>8, <1>9, <1>10, <1>11 DEF Rpc,
                                                                            Inbound

\* The RPC and the inbound task keep registries and threads in step.
LEMMA TaskListed ==
  ASSUME IInv, NEW c \in Conn, Rpc(c) \/ Inbound(c)
  PROVE  \A x \in Conn : Listed(x)' /\ Held(x)'
<1>1. ASSUME FirstFrame(c) PROVE \A x \in Conn : Listed(x)' /\ Held(x)'
  <2>1. Listed(c)' /\ Held(c)'
    BY <1>1 DEF IInv, AllTypeOK, FirstFrame, Listed, Held, Running, Guarded,
                TaskTypeOK, ReaderTypeOK, registries, readerVars
  <2>2. \A x \in Conn \ {c} : /\ task'[x] = task[x]
                              /\ x \in control' <=> x \in control
                              /\ x \in views' <=> x \in views
                              /\ reader'[x] = reader[x]
    BY <1>1 DEF IInv, AllTypeOK, FirstFrame, TaskTypeOK, ReaderTypeOK, registries,
                readerVars
  <2> QED BY <2>1, <2>2, OneAttach
<1>2. ASSUME OpenFails(c) PROVE \A x \in Conn : Listed(x)' /\ Held(x)'
  <2>1. Listed(c)' /\ Held(c)'
    BY <1>2 DEF IInv, AllTypeOK, OpenFails, Listed, Held, Running, Guarded,
                TaskTypeOK, ReaderTypeOK, registries, readerVars
  <2>2. \A x \in Conn \ {c} : /\ task'[x] = task[x]
                              /\ x \in control' <=> x \in control
                              /\ x \in views' <=> x \in views
                              /\ reader'[x] = reader[x]
    BY <1>2 DEF IInv, AllTypeOK, OpenFails, TaskTypeOK, ReaderTypeOK, registries,
                readerVars
  <2> QED BY <2>1, <2>2, OneAttach
<1>3. ASSUME Opened(c) PROVE \A x \in Conn : Listed(x)' /\ Held(x)'
  <2>1. Listed(c)' /\ Held(c)'
    BY <1>3 DEF IInv, AllTypeOK, Opened, Listed, Held, Running, Guarded,
                TaskTypeOK, ReaderTypeOK, registries, readerVars
  <2>2. \A x \in Conn \ {c} : /\ task'[x] = task[x]
                              /\ x \in control' <=> x \in control
                              /\ x \in views' <=> x \in views
                              /\ reader'[x] = reader[x]
    BY <1>3 DEF IInv, AllTypeOK, Opened, TaskTypeOK, ReaderTypeOK, registries,
                readerVars
  <2> QED BY <2>1, <2>2, OneAttach
<1>4. ASSUME InsertView(c) PROVE \A x \in Conn : Listed(x)' /\ Held(x)'
  <2>1. Listed(c)' /\ Held(c)'
    BY <1>4 DEF IInv, AllTypeOK, InsertView, Listed, Held, Running, Guarded,
                TaskTypeOK, ReaderTypeOK, registries, readerVars
  <2>2. \A x \in Conn \ {c} : /\ task'[x] = task[x]
                              /\ x \in control' <=> x \in control
                              /\ x \in views' <=> x \in views
                              /\ reader'[x] = reader[x]
    BY <1>4 DEF IInv, AllTypeOK, InsertView, TaskTypeOK, ReaderTypeOK, registries,
                readerVars
  <2> QED BY <2>1, <2>2, OneAttach
<1>5. ASSUME Register(c) PROVE \A x \in Conn : Listed(x)' /\ Held(x)'
  <2>1. Listed(c)' /\ Held(c)'
    BY <1>5 DEF IInv, AllTypeOK, Register, Listed, Held, Running, Guarded,
                TaskTypeOK, ReaderTypeOK, registries, readerVars
  <2>2. \A x \in Conn \ {c} : /\ task'[x] = task[x]
                              /\ x \in control' <=> x \in control
                              /\ x \in views' <=> x \in views
                              /\ reader'[x] = reader[x]
    BY <1>5 DEF IInv, AllTypeOK, Register, TaskTypeOK, ReaderTypeOK, registries,
                readerVars
  <2> QED BY <2>1, <2>2, OneAttach
<1>6. ASSUME Cancel(c) PROVE \A x \in Conn : Listed(x)' /\ Held(x)'
  <2>1. Listed(c)' /\ Held(c)'
    BY <1>6 DEF IInv, AllTypeOK, Cancel, Listed, Held, Running, Guarded,
                TaskTypeOK, ReaderTypeOK, registries, readerVars
  <2>2. \A x \in Conn \ {c} : /\ task'[x] = task[x]
                              /\ x \in control' <=> x \in control
                              /\ x \in views' <=> x \in views
                              /\ reader'[x] = reader[x]
    BY <1>6 DEF IInv, AllTypeOK, Cancel, TaskTypeOK, ReaderTypeOK, registries,
                readerVars
  <2> QED BY <2>1, <2>2, OneAttach
<1>7. ASSUME Unwound(c) PROVE \A x \in Conn : Listed(x)' /\ Held(x)'
  <2>1. Listed(c)' /\ Held(c)'
    BY <1>7 DEF IInv, AllTypeOK, Unwound, Listed, Held, Running, Guarded,
                TaskTypeOK, ReaderTypeOK, registries, readerVars
  <2>2. \A x \in Conn \ {c} : /\ task'[x] = task[x]
                              /\ x \in control' <=> x \in control
                              /\ x \in views' <=> x \in views
                              /\ reader'[x] = reader[x]
    BY <1>7 DEF IInv, AllTypeOK, Unwound, TaskTypeOK, ReaderTypeOK, registries,
                readerVars
  <2> QED BY <2>1, <2>2, OneAttach
<1>8. ASSUME Deregister(c) PROVE \A x \in Conn : Listed(x)' /\ Held(x)'
  <2>1. Listed(c)' /\ Held(c)'
    BY <1>8 DEF IInv, AllTypeOK, Deregister, Listed, Held, Running, Guarded,
                TaskTypeOK, ReaderTypeOK, registries, readerVars
  <2>2. \A x \in Conn \ {c} : /\ task'[x] = task[x]
                              /\ x \in control' <=> x \in control
                              /\ x \in views' <=> x \in views
                              /\ reader'[x] = reader[x]
    BY <1>8 DEF IInv, AllTypeOK, Deregister, TaskTypeOK, ReaderTypeOK, registries,
                readerVars
  <2> QED BY <2>1, <2>2, OneAttach
<1>9. ASSUME RemoveView(c) PROVE \A x \in Conn : Listed(x)' /\ Held(x)'
  <2>1. Listed(c)' /\ Held(c)'
    BY <1>9 DEF IInv, AllTypeOK, RemoveView, Listed, Held, Running, Guarded,
                TaskTypeOK, ReaderTypeOK, registries, readerVars
  <2>2. \A x \in Conn \ {c} : /\ task'[x] = task[x]
                              /\ x \in control' <=> x \in control
                              /\ x \in views' <=> x \in views
                              /\ reader'[x] = reader[x]
    BY <1>9 DEF IInv, AllTypeOK, RemoveView, TaskTypeOK, ReaderTypeOK, registries,
                readerVars
  <2> QED BY <2>1, <2>2, OneAttach
<1>10. ASSUME Shutdown(c) PROVE \A x \in Conn : Listed(x)' /\ Held(x)'
  <2>1. Listed(c)' /\ Held(c)'
    BY <1>10 DEF IInv, AllTypeOK, Shutdown, Listed, Held, Running, Guarded,
                 TaskTypeOK, ReaderTypeOK, registries, readerVars
  <2>2. \A x \in Conn \ {c} : /\ task'[x] = task[x]
                              /\ x \in control' <=> x \in control
                              /\ x \in views' <=> x \in views
                              /\ reader'[x] = reader[x]
    BY <1>10 DEF IInv, AllTypeOK, Shutdown, TaskTypeOK, ReaderTypeOK, registries,
                 readerVars
  <2> QED BY <2>1, <2>2, OneAttach
<1>11. ASSUME Join(c) PROVE \A x \in Conn : Listed(x)' /\ Held(x)'
  <2>1. Listed(c)' /\ Held(c)'
    BY <1>11 DEF IInv, AllTypeOK, Join, Listed, Held, Running, Guarded,
                 TaskTypeOK, ReaderTypeOK, registries, readerVars
  <2>2. \A x \in Conn \ {c} : /\ task'[x] = task[x]
                              /\ x \in control' <=> x \in control
                              /\ x \in views' <=> x \in views
                              /\ reader'[x] = reader[x]
    BY <1>11 DEF IInv, AllTypeOK, Join, TaskTypeOK, ReaderTypeOK, registries,
                 readerVars
  <2> QED BY <2>1, <2>2, OneAttach
<1> QED
  BY <1>1, <1>2, <1>3, <1>4, <1>5, <1>6, <1>7, <1>8, <1>9, <1>10, <1>11 DEF Rpc,
                                                                            Inbound

\* The reader thread keeps everything: its task is left where it is.
LEMMA ReaderStep ==
  ASSUME IInv, NEW c \in Conn, Reader(c)
  PROVE  IInv'
<1> USE LifecycleAssumption
<1>1. PICK next \in {"top", "recv", "got", "send", "exited"} : Move(c, next)
  BY DEF Reader, BeforeRecv, Recv, RecvEnd, AfterRecv, BlockingSend
<1>2. reader[c] \notin {"none", "exited"}
  BY DEF Reader, BeforeRecv, Recv, RecvEnd, AfterRecv, BlockingSend
<1>3. frames' \in [Conn -> 0 .. Bound] /\ wire' \in [Conn -> Nat]
  <2>1. CASE BeforeRecv(c) \/ RecvEnd(c) \/ AfterRecv(c)
    BY <2>1 DEF IInv, AllTypeOK, ReaderTypeOK, OutsideTypeOK, BeforeRecv, RecvEnd,
                AfterRecv
  <2>2. CASE Recv(c)
    BY <2>2 DEF IInv, AllTypeOK, ReaderTypeOK, OutsideTypeOK, Recv
  <2>3. CASE BlockingSend(c)
    BY <2>3 DEF IInv, AllTypeOK, ReaderTypeOK, OutsideTypeOK, BlockingSend
  <2> QED BY <2>1, <2>2, <2>3 DEF Reader
<1>4. AllTypeOK'
  <2>1. TaskTypeOK'
    BY <1>1 DEF IInv, AllTypeOK, TaskTypeOK, Move, registries
  <2>2. ReaderTypeOK'
    BY <1>1, <1>3 DEF IInv, AllTypeOK, ReaderTypeOK, Move
  <2>3. OutsideTypeOK'
    BY <1>1, <1>3 DEF IInv, AllTypeOK, OutsideTypeOK, Move, clientVars
  <2> QED BY <2>1, <2>2, <2>3 DEF AllTypeOK
<1>5. Counted'
  BY <1>1, CountFrame DEF IInv, Move
<1>6. \A x \in Conn : Listed(x)' /\ Held(x)'
  <2>1. \A x \in Conn \ {c} : reader'[x] = reader[x]
    BY <1>1 DEF IInv, AllTypeOK, ReaderTypeOK, Move
  <2>2. task' = task /\ control' = control /\ views' = views
    BY <1>1 DEF Move, registries
  <2> QED BY <1>2, <2>1, <2>2 DEF IInv, Listed, Held, Running
<1> QED BY <1>4, <1>5, <1>6 DEF IInv

\* So do the multiplexer, the client and the token database.
LEMMA EnvironmentStep ==
  ASSUME IInv, NEW c \in Conn, Environment(c)
  PROVE  IInv'
<1> USE LifecycleAssumption
<1>1. UNCHANGED <<task, registries, count, reader>>
  BY DEF Environment, ServerSends, ServerCloses, ClientReads, ClientDetaches,
         HangsUp, DropStream, Revoke, readerVars
<1>2. TaskTypeOK'
  BY <1>1 DEF IInv, AllTypeOK, TaskTypeOK, registries
<1>3. Counted'
  BY <1>1, CountFrame DEF IInv
<1>4. \A x \in Conn : Listed(x)' /\ Held(x)'
  BY <1>1 DEF IInv, Listed, Held, Running, registries
<1>5. ReaderTypeOK' /\ OutsideTypeOK'
  <2> USE DEF IInv, AllTypeOK, ReaderTypeOK, OutsideTypeOK
  <2>1. CASE ServerSends(c)
    BY <2>1 DEF ServerSends, readerVars, clientVars
  <2>2. CASE ServerCloses(c)
    BY <2>2 DEF ServerCloses, readerVars, clientVars
  <2>3. CASE ClientReads(c)
    BY <2>3 DEF ClientReads, backendVars, clientVars
  <2>4. CASE ClientDetaches(c) \/ HangsUp(c) \/ Revoke(c)
    BY <2>4 DEF ClientDetaches, HangsUp, Revoke, readerVars, backendVars
  <2>5. CASE DropStream(c)
    BY <2>5 DEF DropStream, backendVars, clientVars
  <2> QED BY <2>1, <2>2, <2>3, <2>4, <2>5 DEF Environment
<1> QED BY <1>2, <1>3, <1>4, <1>5 DEF IInv, AllTypeOK

\* The invariant is inductive.
LEMMA NextIInv == IInv /\ [Next]_vars => IInv'
<1> SUFFICES ASSUME IInv, [Next]_vars PROVE IInv'
  OBVIOUS
<1>1. ASSUME NEW c \in Conn, Rpc(c) \/ Inbound(c) PROVE IInv'
  BY <1>1, TaskTypes, TaskCounts, TaskListed DEF IInv
<1>2. ASSUME NEW c \in Conn, Reader(c) PROVE IInv'
  BY <1>2, ReaderStep
<1>3. ASSUME NEW c \in Conn, Environment(c) PROVE IInv'
  BY <1>3, EnvironmentStep
<1>4. CASE UNCHANGED vars
  <2>1. AllTypeOK'
    BY <1>4 DEF IInv, AllTypeOK, TaskTypeOK, ReaderTypeOK, OutsideTypeOK, vars,
                registries, readerVars, backendVars, clientVars
  <2>2. Counted'
    BY <1>4, CountFrame DEF IInv, vars
  <2>3. \A c \in Conn : Listed(c)' /\ Held(c)'
    BY <1>4 DEF IInv, Listed, Held, Running, vars, registries, readerVars
  <2> QED BY <2>1, <2>2, <2>3 DEF IInv
<1> QED BY <1>1, <1>2, <1>3, <1>4 DEF Next

\* It holds throughout.
LEMMA Invariance == Spec => []IInv
BY InitIInv, NextIInv, PTL DEF Spec

----------------------------------------------------------------------------
\* The state of the relays stays well-formed, and no channel holds more than
\* its bound (RENDER_CHANNEL_BOUND).
THEOREM TypeCorrect == Spec => []TypeOK
<1>1. IInv => TypeOK
  <2> SUFFICES ASSUME IInv PROVE TypeOK
    OBVIOUS
  <2>1. \A s \in Session : count[s] \in Nat
    BY FS_CardinalityType DEF IInv, Counted
  <2>2. count \in [Session -> Nat]
    BY <2>1 DEF IInv, AllTypeOK, TaskTypeOK
  <2> QED
    BY <2>2 DEF IInv, AllTypeOK, TaskTypeOK, ReaderTypeOK, OutsideTypeOK, TypeOK
<1> QED BY <1>1, Invariance, PTL

\* The count of a session is that of the attaches holding a guard, on every
\* path out (SessionClients::attach, ClientGuard::drop).
THEOREM CountAlwaysExact == Spec => []CountIsExact
<1>1. IInv => CountIsExact
  BY DEF IInv, Counted, Holders, CountIsExact
<1> QED BY <1>1, Invariance, PTL

\* A session with a running reader thread is reported with a client
\* (ShutdownGuard::drop joins before the ClientGuard goes).
THEOREM RunningAlwaysCounted == Spec => []RunningIsCounted
<1>1. IInv => RunningIsCounted
  <2> SUFFICES ASSUME IInv, NEW c \in Conn, Running(c) PROVE count[KeyOf[c]] > 0
    BY DEF RunningIsCounted
  <2>1. c \in Holders(KeyOf[c]) /\ KeyOf[c] \in Session
    BY LifecycleAssumption DEF IInv, Held, Holders
  <2>2. /\ IsFiniteSet(Holders(KeyOf[c]))
        /\ count[KeyOf[c]] = Cardinality(Holders(KeyOf[c]))
    BY <2>1 DEF IInv, Counted
  <2>3. Cardinality(Holders(KeyOf[c])) # 0
    BY <2>1, <2>2, FS_EmptySet
  <2>4. Cardinality(Holders(KeyOf[c])) \in Nat
    BY <2>2, FS_CardinalityType
  <2> QED BY <2>2, <2>3, <2>4
<1> QED BY <1>1, Invariance, PTL

\* An attach that is over has no thread, route or view left (attach_relay and
\* the end of inbound_loop).
THEOREM NothingEverLeftBehind == Spec => []NothingLeftBehind
<1>1. IInv => NothingLeftBehind
  BY DEF IInv, Listed, Held, Guarded, NothingLeftBehind
<1> QED BY <1>1, Invariance, PTL

\* Whoever finds a relay in the control registry finds its view state too.
THEOREM RoutableAlwaysHasView == Spec => []RoutableHasView
<1>1. IInv => RoutableHasView
  BY DEF IInv, AllTypeOK, TaskTypeOK, Listed, RoutableHasView
<1> QED BY <1>1, Invariance, PTL

(***************************************************************************)
(* The short-lived connections to a session.                               *)
(***************************************************************************)

\* What of a call is still with the server: all it has sent, until the server has finished
\* with it, and nothing it has not sent.
Sending(c) ==
  /\ stage[c] \in {"idle", "attach"} => outbox[c] = << >>
  /\ stage[c] = "act" => outbox[c] \in {<< >>, <<"attach">>}
  /\ serving[c] => outbox[c] # << >>
  /\ stage[c] = "recv" => turns[c] < Limit

Unblocks(c) == {i \in DOMAIN inbox[c] : inbox[c][i] = "unblock"}

\* Until the server has finished with the attach, it unblocks nobody.
BeforeAttached(c) ==
  stage[c] \in {"idle", "attach"} \/ (outbox[c] # << >> /\ Head(outbox[c]) = "attach") =>
    ~armed[c] /\ Unblocks(c) = {}

\* Until it has done the action, it has unblocked once at most, and blamed nothing.
BeforeActed(c) ==
  effect[c] = "none" =>
    /\ armed[c] => Unblocks(c) = {}
    /\ \A i, j \in Unblocks(c) : i = j

\* The action is done once.
ActsOnce(c) ==
  /\ \/ stage[c] \in {"idle", "attach", "act"}
     \/ outbox[c] = <<"attach", "action">>
     \/ outbox[c] = <<"action">> /\ ~serving[c]
     => effect[c] = "none"
  /\ outbox[c] = <<"action">> /\ serving[c] => effect[c] # "none"

\* A LogError is of a refusal, and comes before the second UnblockInputThread.
BlamesRefusals(c) ==
  /\ effect[c] # "refused" =>
       ~failed[c] /\ \A i \in DOMAIN inbox[c] : inbox[c][i] # "logerror"
  /\ effect[c] = "refused" /\ stage[c] # "done" /\ ~failed[c] =>
       \E k \in DOMAIN inbox[c] :
         /\ inbox[c][k] = "logerror"
         /\ \A i, j \in Unblocks(c) : i < k /\ j < k => i = j
         /\ armed[c] => \A i \in Unblocks(c) : i > k

\* The call of an action has what it returned, and nothing before it returns.
Answered(c) ==
  /\ answer[c] # "none" => stage[c] = "done"
  /\ answer[c] = "ok" => effect[c] = "applied"
  /\ answer[c] = "refused" => effect[c] = "refused"

Exchange(c) == /\ BeforeAttached(c) /\ BeforeActed(c) /\ ActsOnce(c)
               /\ BlamesRefusals(c) /\ Answered(c)

\* The session is as small as the smallest client attached, and calls attach at Neutral.
Geometry ==
  /\ \A c \in Call : at[c] \in {0, Neutral}
  /\ SizesOf(Client) # {} /\ session # "gone" => size = Min(SizesOf(Client))

SessionInv == /\ SessionTypeOK /\ \A c \in Call : Sending(c)
              /\ \A c \in Action : Exchange(c)
              /\ Geometry

----------------------------------------------------------------------------
(* The smallest of the sizes.                                              *)

\* There is a smallest number in a set of numbers.
LEMMA MinFacts ==
  ASSUME NEW S \in SUBSET Nat, S # {}
  PROVE  Min(S) \in S /\ \A y \in S : Min(S) <= y
<1>1. \E x \in S : \A y \in S : ~(<<y, x>> \in OpToRel(<, Nat))
  BY NatLessThanWellFounded, WFMin
<1>2. PICK x \in S : \A y \in S : ~(<<y, x>> \in OpToRel(<, Nat)) BY <1>1
<1>3. ASSUME NEW y \in S PROVE x <= y
  <2>1. x \in Nat /\ y \in Nat BY <1>2, <1>3
  <2>2. y < x => <<y, x>> \in OpToRel(<, Nat) BY <2>1 DEF OpToRel
  <2>3. ~(y < x) BY <1>2, <1>3, <2>2
  <2> QED BY <2>1, <2>3
<1>4. \E z \in S : \A y \in S : z <= y BY <1>2, <1>3
<1>5. Min(S) = CHOOSE z \in S : \A y \in S : z <= y BY DEF Min
<1> QED BY <1>4, <1>5

\* It is the only one of its kind.
LEMMA MinIs ==
  ASSUME NEW S \in SUBSET Nat, NEW m \in S, \A y \in S : m <= y
  PROVE  Min(S) = m
<1>1. Min(S) \in S /\ Min(S) <= m BY MinFacts
<1>2. m <= Min(S) /\ Min(S) \in Nat /\ m \in Nat BY <1>1
<1> HIDE DEF Min
<1> QED BY <1>1, <1>2

LEMMA SizesAreNumbers ==
  ASSUME SessionTypeOK, NEW X \in SUBSET Client
  PROVE  SizesOf(X) \subseteq 1 .. Neutral
BY SessionAssumption DEF SessionTypeOK, SizesOf

\* A client that takes a size, or leaves: the session has the smallest of all again.
LEMMA SetSizeEffect ==
  ASSUME SessionTypeOK, NEW x \in Client, NEW n \in 0 .. Neutral, SetSize(x, n)
  PROVE  /\ at' \in [Client -> 0 .. Neutral] /\ size' \in 1 .. Neutral
         /\ at'[x] = n /\ \A y \in Client : y # x => at'[y] = at[y]
         /\ SizesOf(Client)' # {} => size' = Min(SizesOf(Client)')
<1> DEFINE others == SizesOf(Client \ {x})
           all == IF n > 0 THEN others \cup {n} ELSE others
<1>1. /\ at' \in [Client -> 0 .. Neutral]
      /\ at'[x] = n /\ \A y \in Client : y # x => at'[y] = at[y]
  BY DEF SessionTypeOK, SetSize
<1>2. size' = IF all = {} THEN size ELSE Min(all) BY DEF SetSize
<1>3. others \subseteq 1 .. Neutral BY SizesAreNumbers
<1>4. all \subseteq 1 .. Neutral BY <1>3, SessionAssumption
<1>5. SizesOf(Client)' = all
  <2>1. SizesOf(Client)' = {at'[y] : y \in {z \in Client : at'[z] > 0}} BY DEF SizesOf
  <2>2. others = {at[y] : y \in {z \in Client \ {x} : at[z] > 0}} BY DEF SizesOf
  <2> QED BY <1>1, <2>1, <2>2
<1>6. size' \in 1 .. Neutral
  <2>1. CASE all = {} BY <1>2, <2>1 DEF SessionTypeOK
  <2>2. CASE all # {}
    <3>1. all \in SUBSET Nat BY <1>4, SessionAssumption
    <3>2. Min(all) \in all BY <2>2, <3>1, MinFacts
    <3> QED BY <1>2, <1>4, <2>2, <3>2
  <2> QED BY <2>1, <2>2
<1> QED BY <1>1, <1>2, <1>5, <1>6

LEMMA GeometryStays ==
  ASSUME SessionTypeOK, Geometry, UNCHANGED <<at, size>>,
         session' # "gone" => session # "gone"
  PROVE  Geometry'
BY DEF Geometry, SizesOf

LEMMA GeometrySet ==
  ASSUME SessionTypeOK, Geometry, NEW x \in Client, NEW n \in 0 .. Neutral, SetSize(x, n),
         x \in Call => n \in {0, Neutral}
  PROVE  Geometry'
<1>1. /\ at'[x] = n /\ \A y \in Client : y # x => at'[y] = at[y]
      /\ SizesOf(Client)' # {} => size' = Min(SizesOf(Client)')
  BY SetSizeEffect
<1>2. \A c \in Call : at'[c] \in {0, Neutral} BY <1>1 DEF Geometry, Client
<1> QED BY <1>1, <1>2 DEF Geometry

\* As no client is larger than a call, the smallest is one of the others if there are any.
LEMMA OthersDecide ==
  ASSUME SessionTypeOK, Geometry
  PROVE  CallsShrinkNothing
<1> DEFINE seen == SizesOf(Writer \cup Observer)
           all == SizesOf(Client)
<1>1. SUFFICES ASSUME seen # {}, session # "gone" PROVE size = Min(seen)
  BY DEF CallsShrinkNothing
<1>2. seen \subseteq 1 .. Neutral /\ all \subseteq 1 .. Neutral
  BY SizesAreNumbers DEF Client
<1>3. seen \subseteq all BY DEF SizesOf, Client
<1>4. all \subseteq seen \cup {Neutral} BY DEF SizesOf, Client, Geometry
<1>5. size = Min(all) BY <1>1, <1>3 DEF Geometry
<1>6. seen \in SUBSET Nat /\ all \in SUBSET Nat BY <1>2, SessionAssumption
<1> HIDE DEF seen, all
<1>7. size \in all /\ \A y \in all : size <= y BY <1>1, <1>3, <1>5, <1>6, MinFacts
<1>8. size \in seen
  <2>1. SUFFICES ASSUME size = Neutral PROVE size \in seen BY <1>4, <1>7
  <2>2. PICK y \in seen : TRUE BY <1>1
  <2>3. y <= Neutral /\ Neutral <= y /\ y \in Nat BY <1>2, <1>3, <1>7, <2>1, <2>2
  <2> QED BY <2>1, <2>2, <2>3, SessionAssumption
<1>9. \A y \in seen : size <= y BY <1>3, <1>7
<1> QED BY <1>6, <1>8, <1>9, MinIs

----------------------------------------------------------------------------
\* The second of two messages.
LEMMA PairOf ==
  ASSUME NEW S, NEW a \in S, NEW b \in S
  PROVE  Append(<<a>>, b) = <<a, b>>
<1> DEFINE p == Append(<<a>>, b)
           q == <<a, b>>
<1>1. <<a>> \in Seq(S) /\ q \in Seq(S) /\ Len(<<a>>) = 1 /\ Len(q) = 2 OBVIOUS
<1>2. p \in Seq(S) /\ Len(p) = 2 /\ p[1] = <<a>>[1] /\ p[2] = b BY <1>1, AppendProperties
<1>3. <<a>>[1] = a /\ q[1] = a /\ q[2] = b OBVIOUS
<1> HIDE DEF p, q
<1>4. \A i \in 1 .. Len(p) : p[i] = q[i] BY <1>1, <1>2, <1>3
<1>5. p = q BY <1>1, <1>2, <1>4, SeqEqual
<1> QED BY <1>5 DEF p, q

(* One call: what its own steps, the server's and those of others do to it. *)

Kept(c) ==
  /\ stage'[c] = stage[c] /\ outbox'[c] = outbox[c] /\ serving'[c] = serving[c]
  /\ inbox'[c] = inbox[c] /\ turns'[c] = turns[c] /\ armed'[c] = armed[c]
  /\ failed'[c] = failed[c] /\ effect'[c] = effect[c] /\ answer'[c] = answer[c]

LEMMA KeptKeeps ==
  ASSUME NEW c \in Call, Kept(c)
  PROVE  (Sending(c) => Sending(c)') /\ (Exchange(c) => Exchange(c)')
<1>1. Sending(c) => Sending(c)' BY DEF Kept, Sending
<1>2. Unblocks(c)' = Unblocks(c) BY DEF Kept, Unblocks
<1>3. BeforeAttached(c) => BeforeAttached(c)' BY <1>2 DEF Kept, BeforeAttached
<1>4. BeforeActed(c) => BeforeActed(c)' BY <1>2 DEF Kept, BeforeActed
<1>5. ActsOnce(c) => ActsOnce(c)' BY DEF Kept, ActsOnce
<1>6. BlamesRefusals(c) => BlamesRefusals(c)' BY <1>2 DEF Kept, BlamesRefusals
<1>7. Answered(c) => Answered(c)' BY DEF Kept, Answered
<1> QED BY <1>1, <1>3, <1>4, <1>5, <1>6, <1>7 DEF Exchange

\* What returning does.
LEMMA ReturnEffect ==
  ASSUME SessionTypeOK, NEW c \in Call, NEW a \in {"ok", "refused", "error"}, Return(c, a)
  PROVE  /\ stage'[c] = "done" /\ answer'[c] = a /\ inbox'[c] = << >>
         /\ ~armed'[c] /\ ~failed'[c] /\ effect' = effect /\ told' = told
         /\ \A d \in Call : d # c =>
              /\ stage'[d] = stage[d] /\ answer'[d] = answer[d] /\ inbox'[d] = inbox[d]
              /\ turns'[d] = turns[d] /\ armed'[d] = armed[d] /\ failed'[d] = failed[d]
BY DEF SessionTypeOK, Return, Goto

\* A call that returns what is true of its action.
LEMMA ReturnKeeps ==
  ASSUME SessionTypeOK, NEW c \in Call, NEW a \in {"ok", "refused", "error"}, Return(c, a),
         outbox' = outbox, serving' = serving, Sending(c)
  PROVE  /\ Sending(c)'
         /\ Exchange(c) /\ (a = "ok" => effect[c] = "applied")
              /\ (a = "refused" => effect[c] = "refused") => Exchange(c)'
         /\ \A d \in Call : d # c => Kept(d)
<1>1. /\ stage'[c] = "done" /\ answer'[c] = a /\ inbox'[c] = << >>
      /\ ~armed'[c] /\ ~failed'[c] /\ effect' = effect
  BY ReturnEffect
<1>2. Sending(c)' BY <1>1 DEF Sending
<1>3. \A d \in Call : d # c => Kept(d) BY ReturnEffect DEF Kept
<1>4. ASSUME Exchange(c), a = "ok" => effect[c] = "applied",
             a = "refused" => effect[c] = "refused"
      PROVE  Exchange(c)'
  <2>1. DOMAIN inbox'[c] = {} BY <1>1
  <2>2. Unblocks(c)' = {} BY <2>1 DEF Unblocks
  <2>3. BeforeAttached(c)' BY <1>1, <2>2 DEF BeforeAttached
  <2>4. BeforeActed(c)' BY <1>1, <2>2 DEF BeforeActed
  <2>5. ActsOnce(c)' BY <1>1, <1>4 DEF ActsOnce, Exchange
  <2>6. BlamesRefusals(c)' BY <1>1, <2>1 DEF BlamesRefusals
  <2>7. Answered(c)' BY <1>1, <1>4 DEF Answered
  <2> QED BY <2>3, <2>4, <2>5, <2>6, <2>7 DEF Exchange
<1> QED BY <1>2, <1>3, <1>4

\* A call that goes on without having read anything.
LEMMA MovesOn ==
  ASSUME SessionTypeOK, NEW c \in Call, NEW s \in {"attach", "recv"}, Goto(c, s),
         s = "attach" => stage[c] = "idle",
         s = "recv" => stage[c] = "top" /\ turns[c] < Limit,
         UNCHANGED <<socket, loop, outcome>>
  PROVE  /\ Sending(c) => Sending(c)'
         /\ Sending(c) /\ Exchange(c) => Exchange(c)'
         /\ \A d \in Call : d # c => Kept(d)
<1>1. stage'[c] = s /\ \A d \in Call : d # c => stage'[d] = stage[d]
  BY DEF Goto, SessionTypeOK
<1>2. /\ outbox' = outbox /\ serving' = serving /\ inbox' = inbox /\ turns' = turns
      /\ armed' = armed /\ failed' = failed /\ effect' = effect /\ answer' = answer
  BY DEF socket, loop, outcome
<1>3. \A d \in Call : d # c => Kept(d) BY <1>1, <1>2 DEF Kept
<1>4. Sending(c) => Sending(c)' BY <1>1, <1>2 DEF Sending
<1>5. ASSUME Exchange(c), Sending(c) PROVE Exchange(c)'
  <2>1. Unblocks(c)' = Unblocks(c) BY <1>2 DEF Unblocks
  <2>2. BeforeAttached(c)' BY <1>1, <1>2, <1>5, <2>1 DEF Exchange, BeforeAttached
  <2>3. BeforeActed(c)' BY <1>2, <1>5, <2>1 DEF Exchange, BeforeActed
  <2>4. ActsOnce(c)' BY <1>1, <1>2, <1>5 DEF Exchange, ActsOnce
  <2>5. BlamesRefusals(c)' BY <1>1, <1>2, <1>5, <2>1 DEF Exchange, BlamesRefusals
  <2>6. Answered(c)' BY <1>1, <1>2, <1>5 DEF Exchange, Answered
  <2> QED BY <2>2, <2>3, <2>4, <2>5, <2>6 DEF Exchange
<1> QED BY <1>3, <1>4, <1>5

\* A call that sends: the attach, and then the action.
LEMMA SendKeeps ==
  ASSUME SessionTypeOK, NEW c \in Call, SendAttach(c) \/ SendAction(c), Sending(c)
  PROVE  /\ Sending(c)' /\ (Exchange(c) => Exchange(c)')
         /\ \A d \in Call : d # c => Kept(d)
<1>0. serving' = serving BY DEF SendAttach, SendAction, Send
<1>1. CASE session = "gone"
  <2>1. Return(c, "error") /\ outbox' = outbox BY <1>1 DEF SendAttach, SendAction, Send
  <2> QED BY <1>0, <2>1, ReturnKeeps
<1>2. CASE session # "gone"
  <2> DEFINE m == IF stage[c] = "attach" THEN "attach" ELSE "action"
  <2>1. /\ stage[c] \in {"attach", "act"}
        /\ stage'[c] = IF stage[c] = "attach" THEN "act" ELSE "top"
        /\ outbox'[c] = Append(outbox[c], m)
        /\ \A d \in Call : d # c => stage'[d] = stage[d] /\ outbox'[d] = outbox[d]
    BY <1>2 DEF SendAttach, SendAction, Send, Goto, SessionTypeOK
  <2>2. /\ inbox' = inbox /\ turns' = turns /\ armed' = armed /\ failed' = failed
        /\ effect' = effect /\ answer' = answer
    BY <1>2 DEF SendAttach, SendAction, Send, loop, outcome
  <2>3. \A d \in Call : d # c => Kept(d) BY <1>0, <2>1, <2>2 DEF Kept
  <2>4. \/ stage[c] = "attach" /\ outbox[c] = << >> /\ outbox'[c] = <<"attach">>
        \/ stage[c] = "act" /\ outbox[c] = << >> /\ outbox'[c] = <<"action">> /\ ~serving[c]
        \/ /\ stage[c] = "act" /\ outbox[c] = <<"attach">>
           /\ outbox'[c] = <<"attach", "action">>
    <3>1. /\ Append(<< >>, "attach") = <<"attach">> /\ Append(<< >>, "action") = <<"action">>
          /\ Append(<<"attach">>, "action") = <<"attach", "action">>
      <4>1. "attach" \in {"attach", "action"} /\ "action" \in {"attach", "action"} OBVIOUS
      <4>2. Append(<< >>, "attach") = <<"attach">> /\ Append(<< >>, "action") = <<"action">>
        OBVIOUS
      <4> QED BY <4>1, <4>2, PairOf
    <3>2. CASE stage[c] = "attach"
      <4>1. outbox[c] = << >> BY <3>2 DEF Sending
      <4>2. outbox'[c] = Append(<< >>, "attach") BY <2>1, <3>2, <4>1
      <4> QED BY <3>1, <3>2, <4>1, <4>2
    <3>3. CASE stage[c] = "act"
      <4>1. outbox[c] \in {<< >>, <<"attach">>} /\ (serving[c] => outbox[c] # << >>)
        BY <3>3 DEF Sending
      <4>2. outbox'[c] = Append(outbox[c], "action") BY <2>1, <3>3
      <4>3. CASE outbox[c] = << >> BY <3>1, <3>3, <4>1, <4>2, <4>3
      <4>4. CASE outbox[c] = <<"attach">> BY <3>1, <3>3, <4>2, <4>4
      <4> QED BY <4>1, <4>3, <4>4
    <3> QED BY <2>1, <3>2, <3>3
  <2>5. Sending(c)' BY <1>0, <2>1, <2>4 DEF Sending
  <2>6. ASSUME Exchange(c) PROVE Exchange(c)'
    <3>1. Unblocks(c)' = Unblocks(c) BY <2>2 DEF Unblocks
    <3>2. BeforeAttached(c)' BY <2>1, <2>2, <2>4, <2>6, <3>1 DEF Exchange, BeforeAttached
    <3>3. BeforeActed(c)' BY <2>2, <2>6, <3>1 DEF Exchange, BeforeActed
    <3>4. ActsOnce(c)' BY <1>0, <2>1, <2>2, <2>4, <2>6 DEF Exchange, ActsOnce
    <3>5. BlamesRefusals(c)' BY <2>1, <2>2, <2>6, <3>1 DEF Exchange, BlamesRefusals
    <3>6. Answered(c)' BY <2>1, <2>2, <2>6 DEF Exchange, Answered
    <3> QED BY <3>2, <3>3, <3>4, <3>5, <3>6 DEF Exchange
  <2> QED BY <2>3, <2>5, <2>6
<1> QED BY <1>1, <1>2

\* What taking a message does.
LEMMA GoOnEffect ==
  ASSUME SessionTypeOK, NEW c \in Call, stage[c] = "recv", inbox[c] # << >>, Sending(c),
         GoOn(c), Quiet,
         \A d \in Call : d # c => armed'[d] = armed[d] /\ failed'[d] = failed[d]
  PROVE  /\ Sending(c)' /\ \A d \in Call : d # c => Kept(d)
         /\ stage'[c] = "top" /\ outbox' = outbox /\ serving' = serving
         /\ effect' = effect /\ answer' = answer
         /\ inbox'[c] = Tail(inbox[c])
         /\ DOMAIN inbox'[c] = 1 .. Len(inbox[c]) - 1 /\ DOMAIN inbox[c] = 1 .. Len(inbox[c])
         /\ Len(inbox[c]) \in Nat \ {0}
         /\ \A i \in DOMAIN inbox'[c] : inbox'[c][i] = inbox[c][i + 1]
         /\ \A i : i \in Unblocks(c)' <=> i \in 1 .. Len(inbox[c]) - 1 /\ i + 1 \in Unblocks(c)
<1>1. /\ stage'[c] = "top" /\ inbox'[c] = Tail(inbox[c])
      /\ \A d \in Call : d # c => /\ stage'[d] = stage[d] /\ inbox'[d] = inbox[d]
                                  /\ turns'[d] = turns[d]
  BY DEF GoOn, Goto, SessionTypeOK
<1>2. outbox' = outbox /\ serving' = serving /\ effect' = effect /\ answer' = answer
  BY DEF GoOn, Quiet, outcome
<1>3. Sending(c)' BY <1>1, <1>2 DEF Sending
<1>4. \A d \in Call : d # c => Kept(d) BY <1>1, <1>2 DEF Kept
<1> DEFINE q == inbox[c]
           M == {"unblock", "log", "logerror", "exit", "other"}
<1>5. q \in Seq(M) /\ q # << >> BY DEF SessionTypeOK
<1>6. /\ Tail(q) \in Seq(M) /\ Len(Tail(q)) = Len(q) - 1 /\ Len(q) \in Nat \ {0}
      /\ \A i \in 1 .. Len(q) - 1 : Tail(q)[i] = q[i + 1]
  <2> HIDE DEF q, M
  <2> QED BY <1>5
<1>7. DOMAIN q = 1 .. Len(q) /\ DOMAIN Tail(q) = 1 .. Len(q) - 1
  <2> HIDE DEF q, M
  <2> QED BY <1>5, <1>6
<1>8. \A i : i \in Unblocks(c)' <=> i \in 1 .. Len(q) - 1 /\ i + 1 \in Unblocks(c)
  <2>1. Unblocks(c)' = {i \in DOMAIN inbox'[c] : inbox'[c][i] = "unblock"} BY DEF Unblocks
  <2>2. Unblocks(c) = {i \in 1 .. Len(q) : q[i] = "unblock"} BY <1>7 DEF Unblocks
  <2>3. \A i \in 1 .. Len(q) - 1 : i + 1 \in 1 .. Len(q) BY <1>6
  <2> HIDE DEF q
  <2> QED BY <1>1, <1>6, <1>7, <2>1, <2>2, <2>3 DEF q
<1> QED BY <1>1, <1>2, <1>3, <1>4, <1>6, <1>7, <1>8

\* A call that takes what is neither the acknowledgement nor the end.
LEMMA TakeKeeps ==
  ASSUME SessionTypeOK, NEW c \in Action, Sending(c), Exchange(c),
         stage[c] = "recv", inbox[c] # << >>, GoOn(c), Quiet,
         \A d \in Call : d # c => armed'[d] = armed[d] /\ failed'[d] = failed[d],
         \/ /\ ~armed[c] /\ armed'[c] /\ failed'[c] = failed[c]
            /\ inbox[c][1] = "unblock"
         \/ armed'[c] = armed[c] /\ failed'[c] /\ inbox[c][1] = "logerror"
         \/ /\ armed'[c] = armed[c] /\ failed'[c] = failed[c]
            /\ inbox[c][1] \in {"log", "other"}
  PROVE  Exchange(c)'
<1> DEFINE q == inbox[c]
           n == Len(inbox[c])
           U == Unblocks(c)
           V == Unblocks(c)'
<1>0. c \in Call BY DEF Action
<1>1. /\ stage'[c] = "top" /\ outbox' = outbox /\ serving' = serving
      /\ effect' = effect /\ answer' = answer
      /\ DOMAIN inbox'[c] = 1 .. n - 1 /\ DOMAIN q = 1 .. n /\ n \in Nat \ {0}
      /\ \A i \in DOMAIN inbox'[c] : inbox'[c][i] = q[i + 1]
      /\ \A i : i \in V <=> i \in 1 .. n - 1 /\ i + 1 \in U
  BY <1>0, GoOnEffect
<1>2. \A i : i \in U <=> i \in 1 .. n /\ q[i] = "unblock" BY <1>1 DEF Unblocks
<1>3. 1 \in 1 .. n BY <1>1
<1>4. BeforeAttached(c)'
  <2>1. BeforeAttached(c)' <=>
          (stage'[c] \in {"idle", "attach"} \/ (outbox'[c] # << >> /\ Head(outbox'[c]) = "attach")
             => ~armed'[c] /\ V = {})
    BY DEF BeforeAttached
  <2>2. SUFFICES ASSUME outbox[c] # << >>, Head(outbox[c]) = "attach"
                 PROVE  ~armed'[c] /\ V = {}
    BY <1>1, <2>1
  <2>3. ~armed[c] /\ U = {} BY <2>2 DEF Exchange, BeforeAttached
  <2>4. q[1] # "unblock" BY <1>2, <1>3, <2>3
  <2>5. V = {} BY <1>1, <2>3
  <2> QED BY <2>3, <2>4, <2>5
<1>5. BeforeActed(c)'
  <2>1. BeforeActed(c)' <=>
          (effect'[c] = "none" =>
             (armed'[c] => V = {}) /\ \A i, j \in V : i = j)
    BY DEF BeforeActed
  <2>2. SUFFICES ASSUME effect[c] = "none"
                 PROVE  (armed'[c] => V = {}) /\ \A i, j \in V : i = j
    BY <1>1, <2>1
  <2>3. (armed[c] => U = {}) /\ \A i, j \in U : i = j BY <2>2 DEF Exchange, BeforeActed
  <2>4. \A i, j \in V : i = j
    <3>1. TAKE i, j \in V
    <3>2. i \in 1 .. n - 1 /\ j \in 1 .. n - 1 /\ i + 1 \in U /\ j + 1 \in U BY <1>1, <3>1
    <3>3. i + 1 = j + 1 BY <2>3, <3>2
    <3> QED BY <1>1, <3>2, <3>3
  <2>5. ASSUME armed'[c], NEW i \in V PROVE FALSE
    <3>1. i \in 1 .. n - 1 /\ i + 1 \in U BY <1>1, <2>5
    <3>2. ~armed[c] BY <2>3, <3>1
    <3>3. q[1] = "unblock" BY <2>5, <3>2
    <3>4. 1 \in U BY <1>2, <1>3, <3>3
    <3>5. i + 1 = 1 BY <2>3, <3>1, <3>4
    <3> QED BY <1>1, <3>1, <3>5
  <2> QED BY <2>4, <2>5
<1>6. ActsOnce(c)' BY <1>1 DEF Exchange, ActsOnce
<1>7. Answered(c)' BY <1>1 DEF Exchange, Answered
<1>8. BlamesRefusals(c)'
  <2>1. BlamesRefusals(c)' <=>
          /\ effect'[c] # "refused" =>
               ~failed'[c] /\ \A i \in DOMAIN inbox'[c] : inbox'[c][i] # "logerror"
          /\ effect'[c] = "refused" /\ stage'[c] # "done" /\ ~failed'[c] =>
               \E k \in DOMAIN inbox'[c] :
                 /\ inbox'[c][k] = "logerror"
                 /\ \A i, j \in V : i < k /\ j < k => i = j
                 /\ armed'[c] => \A i \in V : i > k
    BY DEF BlamesRefusals
  <2>2. ASSUME effect[c] # "refused"
        PROVE  ~failed'[c] /\ \A i \in DOMAIN inbox'[c] : inbox'[c][i] # "logerror"
    <3>1. ~failed[c] /\ \A i \in 1 .. n : q[i] # "logerror"
      BY <1>1, <2>2 DEF Exchange, BlamesRefusals
    <3>2. ~failed'[c] BY <1>3, <3>1
    <3>3. \A i \in 1 .. n - 1 : i + 1 \in 1 .. n BY <1>1
    <3> QED BY <1>1, <3>1, <3>2, <3>3
  <2>3. ASSUME effect[c] = "refused", ~failed'[c]
        PROVE  \E k \in DOMAIN inbox'[c] :
                 /\ inbox'[c][k] = "logerror"
                 /\ \A i, j \in V : i < k /\ j < k => i = j
                 /\ armed'[c] => \A i \in V : i > k
    <3>1. ~failed[c] /\ q[1] # "logerror" BY <2>3
    <3>2. PICK k \in 1 .. n : /\ q[k] = "logerror"
                              /\ \A i, j \in U : i < k /\ j < k => i = j
                              /\ armed[c] => \A i \in U : i > k
      BY <1>1, <2>3, <3>1 DEF Exchange, BlamesRefusals
    <3>3. k # 1 /\ k - 1 \in 1 .. n - 1 /\ (k - 1) + 1 = k BY <1>1, <3>1, <3>2
    <3>4. inbox'[c][k - 1] = "logerror" BY <1>1, <3>2, <3>3
    <3>5. ASSUME NEW i \in V, NEW j \in V, i < k - 1, j < k - 1 PROVE i = j
      <4>1. i \in 1 .. n - 1 /\ j \in 1 .. n - 1 /\ i + 1 \in U /\ j + 1 \in U
        BY <1>1, <3>5
      <4>2. i + 1 < k /\ j + 1 < k BY <1>1, <3>2, <3>5, <4>1
      <4>3. i + 1 = j + 1 BY <3>2, <4>1, <4>2
      <4> QED BY <1>1, <4>1, <4>3
    <3>6. ASSUME armed'[c], NEW i \in V PROVE i > k - 1
      <4>1. i \in 1 .. n - 1 /\ i + 1 \in U /\ n \in Nat /\ k \in 1 .. n BY <1>1, <3>2, <3>6
      <4>2. CASE armed[c]
        <5>1. i + 1 > k BY <3>2, <4>1, <4>2
        <5> QED BY <4>1, <5>1
      <4>3. CASE ~armed[c]
        <5>1. q[1] = "unblock" BY <3>6, <4>3
        <5>2. 1 \in U BY <1>2, <1>3, <5>1
        <5>3. ~(i + 1 < k)
          <6>1. SUFFICES ASSUME i + 1 < k PROVE FALSE OBVIOUS
          <6>2. 1 < k BY <3>3, <4>1
          <6>3. i + 1 = 1 BY <3>2, <4>1, <5>2, <6>1, <6>2
          <6> QED BY <4>1, <6>3
        <5>4. i + 1 # k BY <1>2, <3>2, <4>1
        <5> QED BY <4>1, <5>3, <5>4
      <4> QED BY <4>2, <4>3
    <3> QED BY <1>1, <3>3, <3>4, <3>5, <3>6
  <2> QED BY <1>1, <2>1, <2>2, <2>3
<1> QED BY <1>4, <1>5, <1>6, <1>7, <1>8 DEF Exchange

\* The server sends a call a message, unless it has returned.
Appended(c, m) ==
  /\ DOMAIN inbox[c] = 1 .. Len(inbox[c]) /\ Len(inbox[c]) \in Nat
  /\ DOMAIN inbox'[c] = 1 .. Len(inbox[c]) + 1
  /\ \A i \in DOMAIN inbox[c] : inbox'[c][i] = inbox[c][i]
  /\ inbox'[c][Len(inbox[c]) + 1] = m

LEMMA AppendedTo ==
  ASSUME SessionTypeOK, NEW c \in Call,
         NEW m \in {"unblock", "log", "logerror", "exit", "other"},
         \/ inbox'[c] = inbox[c] \o <<m>>
         \/ inbox'[c] = Append(inbox[c], m)
  PROVE  Appended(c, m)
<1> DEFINE q == inbox[c]
           M == {"unblock", "log", "logerror", "exit", "other"}
<1>1. q \in Seq(M) /\ <<m>> \in Seq(M) /\ Len(<<m>>) = 1 /\ <<m>>[1] = m
  BY DEF SessionTypeOK
<1>2. inbox'[c] = q \o <<m>> \/ inbox'[c] = Append(q, m) OBVIOUS
<1>3. inbox'[c] \in Seq(M) /\ Len(q) \in Nat /\ Len(inbox'[c]) = Len(q) + 1
      /\ (\A i \in 1 .. Len(q) : inbox'[c][i] = q[i]) /\ inbox'[c][Len(q) + 1] = m
  <2> HIDE DEF q, M
  <2>1. CASE inbox'[c] = Append(q, m) BY <1>1, <2>1, AppendProperties
  <2>2. CASE inbox'[c] = q \o <<m>> BY <1>1, <2>2, ConcatProperties
  <2> QED BY <1>2, <2>1, <2>2
<1>4. DOMAIN q = 1 .. Len(q) /\ DOMAIN inbox'[c] = 1 .. Len(inbox'[c])
  <2> HIDE DEF q, M
  <2> QED BY <1>1, <1>3
<1> QED BY <1>3, <1>4 DEF Appended

LEMMA TellEffect ==
  ASSUME SessionTypeOK, NEW c \in Call,
         NEW m \in {"unblock", "log", "logerror", "exit", "other"}, Tell(c, <<m>>)
  PROVE  /\ \/ inbox'[c] = inbox[c] /\ stage[c] = "done"
            \/ Appended(c, m) /\ stage[c] # "done"
         /\ \A d \in Call : d # c => inbox'[d] = inbox[d]
<1>1. \A d \in Call : d # c => inbox'[d] = inbox[d] BY DEF Tell, SessionTypeOK
<1>2. CASE stage[c] = "done" BY <1>1, <1>2 DEF Tell, SessionTypeOK
<1>3. CASE stage[c] # "done"
  <2>1. inbox'[c] = inbox[c] \o <<m>> BY <1>3 DEF Tell, SessionTypeOK
  <2> QED BY <1>1, <1>3, <2>1, AppendedTo
<1> QED BY <1>2, <1>3

\* What is neither an acknowledgement nor the blame of an action says nothing of it.
LEMMA OtherMessageKeeps ==
  ASSUME SessionTypeOK, NEW c \in Call, Exchange(c),
         NEW m \in {"log", "exit", "other"}, Appended(c, m) \/ inbox'[c] = inbox[c],
         stage'[c] = stage[c], armed'[c] = armed[c], failed'[c] = failed[c],
         effect'[c] = effect[c], answer'[c] = answer[c],
         \/ outbox'[c] = outbox[c] /\ serving'[c] = serving[c]
         \/ outbox'[c] = << >> /\ ~serving'[c]
  PROVE  Exchange(c)'
<1> DEFINE U == Unblocks(c)
<1>1. /\ \A i \in DOMAIN inbox[c] : i \in DOMAIN inbox'[c] /\ inbox'[c][i] = inbox[c][i]
      /\ \A i \in DOMAIN inbox'[c] : i \in DOMAIN inbox[c] \/ inbox'[c][i] = m
  BY DEF Appended
<1>2. Unblocks(c)' = U
  <2>1. Unblocks(c)' = {i \in DOMAIN inbox'[c] : inbox'[c][i] = "unblock"} BY DEF Unblocks
  <2>2. U = {i \in DOMAIN inbox[c] : inbox[c][i] = "unblock"} BY DEF Unblocks
  <2> QED BY <1>1, <2>1, <2>2
<1> HIDE DEF U
<1>3. BeforeAttached(c)' BY <1>2 DEF Exchange, BeforeAttached, U
<1>4. BeforeActed(c)' BY <1>2 DEF Exchange, BeforeActed, U
<1>5. ActsOnce(c)'
  <2>1. << >> # <<"attach", "action">> /\ << >> # <<"action">> OBVIOUS
  <2>2. CASE outbox'[c] = outbox[c] /\ serving'[c] = serving[c]
    BY <2>2 DEF Exchange, ActsOnce
  <2>3. CASE outbox'[c] = << >> /\ ~serving'[c] BY <2>1, <2>3 DEF Exchange, ActsOnce
  <2> QED BY <2>2, <2>3
<1>6. BlamesRefusals(c)'
  <2>1. BlamesRefusals(c)' <=>
          /\ effect'[c] # "refused" =>
               ~failed'[c] /\ \A i \in DOMAIN inbox'[c] : inbox'[c][i] # "logerror"
          /\ effect'[c] = "refused" /\ stage'[c] # "done" /\ ~failed'[c] =>
               \E k \in DOMAIN inbox'[c] :
                 /\ inbox'[c][k] = "logerror"
                 /\ \A i, j \in U : i < k /\ j < k => i = j
                 /\ armed'[c] => \A i \in U : i > k
    BY <1>2 DEF BlamesRefusals
  <2>2. ASSUME effect[c] # "refused"
        PROVE  ~failed'[c] /\ \A i \in DOMAIN inbox'[c] : inbox'[c][i] # "logerror"
    BY <1>1, <2>2 DEF Exchange, BlamesRefusals
  <2>3. ASSUME effect[c] = "refused", stage[c] # "done", ~failed[c]
        PROVE  \E k \in DOMAIN inbox'[c] :
                 /\ inbox'[c][k] = "logerror"
                 /\ \A i, j \in U : i < k /\ j < k => i = j
                 /\ armed'[c] => \A i \in U : i > k
    <3>1. PICK k \in DOMAIN inbox[c] : /\ inbox[c][k] = "logerror"
                                       /\ \A i, j \in U : i < k /\ j < k => i = j
                                       /\ armed[c] => \A i \in U : i > k
      BY <2>3 DEF Exchange, BlamesRefusals, U
    <3> QED BY <1>1, <3>1
  <2> QED BY <2>1, <2>2, <2>3
<1>7. Answered(c)' BY DEF Exchange, Answered
<1> QED BY <1>3, <1>4, <1>5, <1>6, <1>7 DEF Exchange

\* What the server has yet to do for a call.
LEMMA SendingShrinks ==
  ASSUME NEW c \in Call, Sending(c), stage'[c] = stage[c], turns'[c] = turns[c],
         outbox'[c] = << >> /\ ~serving'[c]
  PROVE  Sending(c)'
BY DEF Sending

\* The attach is taken.
LEMMA AttachKeeps ==
  ASSUME SessionTypeOK, NEW c \in Call, AttachCall(c), Sending(c)
  PROVE  /\ Sending(c)' /\ (Exchange(c) => Exchange(c)')
         /\ \A d \in Call : d # c => Kept(d)
<1>1. /\ outbox' = outbox /\ stage' = stage /\ inbox' = inbox /\ turns' = turns
      /\ armed' = armed /\ failed' = failed /\ effect' = effect /\ answer' = answer
      /\ serving'[c] /\ outbox[c] # << >> /\ Head(outbox[c]) = "attach"
      /\ \A d \in Call : d # c => serving'[d] = serving[d]
  BY DEF AttachCall, Serves, SessionTypeOK, loop, outcome
<1>2. \A d \in Call : d # c => Kept(d) BY <1>1 DEF Kept
<1>3. Sending(c)' BY <1>1 DEF Sending
<1>4. ASSUME Exchange(c) PROVE Exchange(c)'
  <2>1. Unblocks(c)' = Unblocks(c) BY <1>1 DEF Unblocks
  <2>2. BeforeAttached(c)' BY <1>1, <1>4, <2>1 DEF Exchange, BeforeAttached
  <2>3. BeforeActed(c)' BY <1>1, <1>4, <2>1 DEF Exchange, BeforeActed
  <2>4. outbox[c] # <<"action">> BY <1>1
  <2>5. ActsOnce(c)' BY <1>1, <1>4, <2>4 DEF Exchange, ActsOnce
  <2>6. BlamesRefusals(c)' BY <1>1, <1>4, <2>1 DEF Exchange, BlamesRefusals
  <2>7. Answered(c)' BY <1>1, <1>4 DEF Exchange, Answered
  <2> QED BY <2>2, <2>3, <2>5, <2>6, <2>7 DEF Exchange
<1> QED BY <1>2, <1>3, <1>4

\* The action is done, or refused with a LogError.
LEMMA ActKeeps ==
  ASSUME SessionTypeOK, NEW c \in Call, Act(c), Sending(c)
  PROVE  /\ Sending(c)' /\ (c \in Action /\ Exchange(c) => Exchange(c)')
         /\ \A d \in Call : d # c => Kept(d)
<1>1. /\ outbox' = outbox /\ stage' = stage /\ turns' = turns
      /\ armed' = armed /\ failed' = failed /\ answer' = answer
      /\ serving'[c] /\ ~serving[c] /\ outbox[c] # << >> /\ Head(outbox[c]) = "action"
      /\ \A d \in Call : d # c => serving'[d] = serving[d] /\ effect'[d] = effect[d]
  BY DEF Act, Serves, SessionTypeOK, loop
<1>2. outbox[c] = <<"action">>
  <2>1. Head(<<"attach">>) = "attach" /\ Head(<<"attach", "action">>) = "attach" OBVIOUS
  <2> QED BY <1>1, <2>1 DEF SessionTypeOK
<1>3. \/ effect'[c] = "refused" /\ Tell(c, <<"logerror">>)
      \/ effect'[c] = "applied" /\ (Tell(c, << >>) \/ Tell(c, <<"log">>))
  <2>1. \/ effect'[c] = "refused" /\ Tell(c, <<"logerror">>)
        \/ effect'[c] = "applied" /\ \E ms \in {<< >>, <<"log">>} : Tell(c, ms)
    BY DEF Act, SessionTypeOK
  <2> QED BY <2>1
<1>4. Tell(c, << >>) => inbox' = inbox
  <2>1. \A d \in Call : inbox[d] \o << >> = inbox[d] BY ConcatEmptySeq DEF SessionTypeOK
  <2> QED BY <2>1 DEF Tell, SessionTypeOK
<1>5. /\ \A d \in Call : d # c => inbox'[d] = inbox[d]
      /\ \/ effect'[c] = "applied" /\ (inbox'[c] = inbox[c] \/ Appended(c, "log"))
         \/ /\ effect'[c] = "refused"
            /\ \/ stage[c] = "done" /\ inbox'[c] = inbox[c]
               \/ Appended(c, "logerror")
  BY <1>3, <1>4, TellEffect
<1>6. \A d \in Call : d # c => Kept(d) BY <1>1, <1>5 DEF Kept
<1>7. Sending(c)' BY <1>1 DEF Sending
<1>8. ASSUME c \in Action, Exchange(c) PROVE Exchange(c)'
  <2>1. effect[c] = "none" BY <1>1, <1>2, <1>8 DEF Exchange, ActsOnce
  <2>2. ~failed[c] /\ (armed[c] => Unblocks(c) = {}) /\ (\A i, j \in Unblocks(c) : i = j)
        /\ \A i \in DOMAIN inbox[c] : inbox[c][i] # "logerror"
    BY <1>8, <2>1 DEF Exchange, BeforeActed, BlamesRefusals
  <2>3. stage[c] \notin {"idle", "attach", "act"}
    BY <1>1, <1>2 DEF Sending
  <2>4. BeforeAttached(c)' BY <1>1, <1>2, <2>3 DEF BeforeAttached
  <2>5. BeforeActed(c)' BY <1>5 DEF BeforeActed
  <2>6. ActsOnce(c)'
    <3>1. <<"action">> # <<"attach", "action">> OBVIOUS
    <3> QED BY <1>1, <1>2, <1>5, <2>3, <3>1 DEF ActsOnce
  <2>7. BlamesRefusals(c)'
    <3>1. BlamesRefusals(c)' <=>
            /\ effect'[c] # "refused" =>
                 ~failed'[c] /\ \A i \in DOMAIN inbox'[c] : inbox'[c][i] # "logerror"
            /\ effect'[c] = "refused" /\ stage'[c] # "done" /\ ~failed'[c] =>
                 \E k \in DOMAIN inbox'[c] :
                   /\ inbox'[c][k] = "logerror"
                   /\ \A i, j \in Unblocks(c)' : i < k /\ j < k => i = j
                   /\ armed'[c] => \A i \in Unblocks(c)' : i > k
      BY DEF BlamesRefusals
    <3>2. CASE effect'[c] = "applied"
      <4>1. \A i \in DOMAIN inbox'[c] : inbox'[c][i] # "logerror"
        BY <1>5, <2>2, <3>2 DEF Appended
      <4> QED BY <1>1, <2>2, <3>1, <3>2, <4>1
    <3>3. CASE effect'[c] = "refused" /\ stage[c] = "done" BY <1>1, <3>1, <3>3
    <3>4. CASE effect'[c] = "refused" /\ Appended(c, "logerror")
      <4> DEFINE n == Len(inbox[c])
                 U == Unblocks(c)
                 V == Unblocks(c)'
      <4>1. /\ n \in Nat /\ DOMAIN inbox[c] = 1 .. n /\ DOMAIN inbox'[c] = 1 .. n + 1
            /\ \A i \in 1 .. n : inbox'[c][i] = inbox[c][i]
            /\ inbox'[c][n + 1] = "logerror"
        BY <3>4 DEF Appended
      <4>2. V = U
        <5>1. V = {i \in 1 .. n + 1 : inbox'[c][i] = "unblock"} BY <4>1 DEF Unblocks
        <5>2. U = {i \in 1 .. n : inbox[c][i] = "unblock"} BY <4>1 DEF Unblocks
        <5>3. \A i \in 1 .. n + 1 : i \in 1 .. n \/ i = n + 1 BY <4>1
        <5>4. \A i \in 1 .. n : i \in 1 .. n + 1 BY <4>1
        <5> HIDE DEF U, V, n
        <5> QED BY <4>1, <5>1, <5>2, <5>3, <5>4
      <4>3. n + 1 \in DOMAIN inbox'[c] BY <4>1
      <4>4. (\A i, j \in V : i = j) /\ (armed'[c] => V = {}) BY <1>1, <2>2, <4>2
      <4> HIDE DEF n, U
      <4> QED BY <3>1, <3>4, <4>1, <4>3, <4>4
    <3> QED BY <1>5, <3>2, <3>3, <3>4
  <2>8. Answered(c)' BY <1>1, <1>8, <2>1 DEF Exchange, Answered
  <2> QED BY <2>4, <2>5, <2>6, <2>7, <2>8 DEF Exchange
<1> QED BY <1>6, <1>7, <1>8

\* The server has finished with the first of what a call sent.
LEMMA UnblockKeeps ==
  ASSUME SessionTypeOK, NEW c \in Call, Unblock(c), Sending(c)
  PROVE  /\ Sending(c)' /\ (c \in Action /\ Exchange(c) => Exchange(c)')
         /\ \A d \in Call : d # c => Kept(d)
<1>1. /\ stage' = stage /\ turns' = turns /\ armed' = armed /\ failed' = failed
      /\ effect' = effect /\ answer' = answer
      /\ outbox'[c] = Tail(outbox[c]) /\ outbox[c] # << >> /\ serving[c] /\ ~serving'[c]
      /\ Tell(c, <<"unblock">>)
      /\ \A d \in Call : d # c => serving'[d] = serving[d] /\ outbox'[d] = outbox[d]
  BY DEF Unblock, Serves, SessionTypeOK, loop, outcome
<1>2. /\ \A d \in Call : d # c => inbox'[d] = inbox[d]
      /\ \/ inbox'[c] = inbox[c] /\ stage[c] = "done"
         \/ Appended(c, "unblock") /\ stage[c] # "done"
  BY <1>1, TellEffect
<1>3. \A d \in Call : d # c => Kept(d) BY <1>1, <1>2 DEF Kept
<1>4. \/ outbox[c] = <<"attach">> /\ outbox'[c] = << >>
      \/ outbox[c] = <<"action">> /\ outbox'[c] = << >>
      \/ outbox[c] = <<"attach", "action">> /\ outbox'[c] = <<"action">>
  <2>1. /\ Tail(<<"attach">>) = << >> /\ Tail(<<"action">>) = << >>
        /\ Tail(<<"attach", "action">>) = <<"action">>
    OBVIOUS
  <2>2. outbox[c] \in {<<"attach">>, <<"attach", "action">>, <<"action">>}
    BY <1>1 DEF SessionTypeOK
  <2> QED BY <1>1, <2>1, <2>2
<1>5. stage[c] \notin {"idle", "attach"} /\ (stage[c] = "act" => outbox[c] = <<"attach">>)
  BY <1>1, <1>4 DEF Sending
<1>6. Sending(c)'
  <2>1. <<"attach">> # <<"attach", "action">> OBVIOUS
  <2>2. stage[c] = "act" => outbox'[c] = << >> BY <1>4, <1>5, <2>1
  <2> QED BY <1>1, <1>5, <2>2 DEF Sending
<1>7. ASSUME c \in Action, Exchange(c) PROVE Exchange(c)'
  <2> DEFINE n == Len(inbox[c])
             U == Unblocks(c)
             V == Unblocks(c)'
  <2>0. << >> # <<"attach", "action">> /\ << >> # <<"action">>
        /\ <<"action">> # <<"attach", "action">> /\ <<"attach">> # <<"action">>
    OBVIOUS
  <2>1. BeforeAttached(c)'
    <3>1. outbox'[c] # << >> => Head(outbox'[c]) # "attach" BY <1>4
    <3> QED BY <1>1, <1>5, <3>1 DEF BeforeAttached
  <2>2. ActsOnce(c)'
    <3>1. CASE outbox[c] = <<"attach">> /\ outbox'[c] = << >>
      <4>1. stage[c] \in {"idle", "attach", "act"} => effect[c] = "none"
        BY <1>7 DEF Exchange, ActsOnce
      <4> QED BY <1>1, <2>0, <3>1, <4>1 DEF ActsOnce
    <3>2. CASE outbox[c] = <<"action">> /\ outbox'[c] = << >>
      <4>1. stage[c] \notin {"idle", "attach", "act"} BY <1>5, <2>0, <3>2
      <4> QED BY <1>1, <2>0, <3>2, <4>1 DEF ActsOnce
    <3>3. CASE outbox[c] = <<"attach", "action">> /\ outbox'[c] = <<"action">>
      <4>1. effect[c] = "none" BY <1>7, <3>3 DEF Exchange, ActsOnce
      <4> QED BY <1>1, <3>3, <4>1 DEF ActsOnce
    <3> QED BY <1>4, <3>1, <3>2, <3>3
  <2>3. Answered(c)' BY <1>1, <1>7 DEF Exchange, Answered
  <2>4. ASSUME effect[c] = "none" PROVE ~armed[c] /\ U = {}
    <3>1. outbox[c] # <<"action">> BY <1>1, <1>7, <2>4 DEF Exchange, ActsOnce
    <3>2. Head(outbox[c]) = "attach" BY <1>4, <3>1
    <3> QED BY <1>1, <1>7, <3>2 DEF Exchange, BeforeAttached
  <2>5. \A i \in V : i \in U \/ (Appended(c, "unblock") /\ i = n + 1)
    <3>1. V = {i \in DOMAIN inbox'[c] : inbox'[c][i] = "unblock"} BY DEF Unblocks
    <3>2. CASE inbox'[c] = inbox[c] BY <3>1, <3>2 DEF Unblocks
    <3>3. CASE Appended(c, "unblock")
      <4>1. /\ n \in Nat /\ DOMAIN inbox[c] = 1 .. n /\ DOMAIN inbox'[c] = 1 .. n + 1
            /\ \A i \in 1 .. n : inbox'[c][i] = inbox[c][i]
        BY <3>3 DEF Appended
      <4>2. U = {i \in 1 .. n : inbox[c][i] = "unblock"} BY <4>1 DEF Unblocks
      <4>3. \A i \in 1 .. n + 1 : i \in 1 .. n \/ i = n + 1 BY <4>1
      <4> HIDE DEF U, V, n
      <4> QED BY <3>1, <3>3, <4>1, <4>2, <4>3
    <3> QED BY <1>2, <3>2, <3>3
  <2>6. BeforeActed(c)'
    <3>1. BeforeActed(c)' <=>
            (effect'[c] = "none" =>
               (armed'[c] => V = {}) /\ \A i, j \in V : i = j)
      BY DEF BeforeActed
    <3> HIDE DEF U, V, n
    <3> QED BY <1>1, <2>4, <2>5, <3>1
  <2>7. BlamesRefusals(c)'
    <3>1. BlamesRefusals(c)' <=>
            /\ effect'[c] # "refused" =>
                 ~failed'[c] /\ \A i \in DOMAIN inbox'[c] : inbox'[c][i] # "logerror"
            /\ effect'[c] = "refused" /\ stage'[c] # "done" /\ ~failed'[c] =>
                 \E k \in DOMAIN inbox'[c] :
                   /\ inbox'[c][k] = "logerror"
                   /\ \A i, j \in V : i < k /\ j < k => i = j
                   /\ armed'[c] => \A i \in V : i > k
      BY DEF BlamesRefusals
    <3>2. ASSUME effect[c] # "refused"
          PROVE  ~failed[c] /\ \A i \in DOMAIN inbox'[c] : inbox'[c][i] # "logerror"
      <4>1. ~failed[c] /\ \A i \in DOMAIN inbox[c] : inbox[c][i] # "logerror"
        BY <1>7, <3>2 DEF Exchange, BlamesRefusals
      <4>2. CASE inbox'[c] = inbox[c] BY <4>1, <4>2
      <4>3. CASE Appended(c, "unblock") BY <4>1, <4>3 DEF Appended
      <4> QED BY <1>2, <4>1, <4>2, <4>3
    <3>3. ASSUME effect[c] = "refused", stage[c] # "done", ~failed[c]
          PROVE  \E k \in DOMAIN inbox'[c] :
                   /\ inbox'[c][k] = "logerror"
                   /\ \A i, j \in V : i < k /\ j < k => i = j
                   /\ armed[c] => \A i \in V : i > k
      <4>1. PICK k \in DOMAIN inbox[c] : /\ inbox[c][k] = "logerror"
                                         /\ \A i, j \in U : i < k /\ j < k => i = j
                                         /\ armed[c] => \A i \in U : i > k
        BY <1>7, <3>3 DEF Exchange, BlamesRefusals
      <4>2. /\ n \in Nat /\ DOMAIN inbox[c] = 1 .. n /\ DOMAIN inbox'[c] = 1 .. n + 1
            /\ \A i \in 1 .. n : inbox'[c][i] = inbox[c][i]
        BY <1>2, <3>3 DEF Appended
      <4>3. k \in DOMAIN inbox'[c] /\ inbox'[c][k] = "logerror" /\ k < n + 1
        BY <4>1, <4>2
      <4> HIDE DEF U, V, n
      <4>4. \A i \in V : i < k => i \in U BY <2>5, <4>2, <4>3
      <4>5. armed[c] => \A i \in V : i > k BY <2>5, <4>1, <4>2, <4>3
      <4> QED BY <4>1, <4>3, <4>4, <4>5
    <3> QED BY <1>1, <3>1, <3>2, <3>3
  <2> QED BY <2>1, <2>2, <2>3, <2>6, <2>7 DEF Exchange
<1> QED BY <1>3, <1>6, <1>7

----------------------------------------------------------------------------
(* Every step keeps the types.                                             *)

InboxType == inbox \in [Call -> Seq({"unblock", "log", "logerror", "exit", "other"})]
LoopType == /\ late \in [Call -> BOOLEAN] /\ turns \in [Call -> 0 .. Limit]
            /\ armed \in [Call -> BOOLEAN] /\ failed \in [Call -> BOOLEAN]
OutcomeType == /\ effect \in [Call -> {"none", "applied", "refused"}]
               /\ told \in [Call -> 0 .. Neutral]
               /\ answer \in [Call -> {"none", "ok", "refused", "error"}]
StageType == stage \in [Call -> {"idle", "attach", "act", "top", "recv", "done"}]

LEMMA ReturnType ==
  ASSUME SessionTypeOK, NEW c \in Call, NEW a \in {"ok", "refused", "error"}, Return(c, a)
  PROVE  StageType' /\ InboxType' /\ LoopType' /\ OutcomeType'
<1>1. StageType' BY DEF SessionTypeOK, Return, Goto, StageType
<1>2. << >> \in Seq({"unblock", "log", "logerror", "exit", "other"}) OBVIOUS
<1>3. InboxType' BY <1>2 DEF SessionTypeOK, Return, InboxType
<1>4. LoopType' BY SessionAssumption DEF SessionTypeOK, Return, LoopType
<1>5. OutcomeType' BY DEF SessionTypeOK, Return, OutcomeType
<1> QED BY <1>1, <1>3, <1>4, <1>5

LEMMA GoOnType ==
  ASSUME SessionTypeOK, NEW c \in Call, GoOn(c), inbox[c] # << >>, turns[c] < Limit,
         armed' \in [Call -> BOOLEAN], failed' \in [Call -> BOOLEAN]
  PROVE  StageType' /\ InboxType' /\ LoopType' /\ OutcomeType'
<1>1. StageType' BY DEF SessionTypeOK, GoOn, Goto, StageType
<1>2. InboxType'
  <2>1. inbox[c] \in Seq({"unblock", "log", "logerror", "exit", "other"}) BY DEF SessionTypeOK
  <2>2. Tail(inbox[c]) \in Seq({"unblock", "log", "logerror", "exit", "other"}) BY <2>1
  <2> QED BY <2>2 DEF SessionTypeOK, GoOn, InboxType
<1>3. LoopType'
  <2>1. turns[c] + 1 \in 0 .. Limit BY SessionAssumption DEF SessionTypeOK
  <2> QED BY <2>1 DEF SessionTypeOK, GoOn, LoopType
<1>4. OutcomeType' BY DEF SessionTypeOK, GoOn, OutcomeType, outcome
<1> QED BY <1>1, <1>2, <1>3, <1>4

LEMMA TellType ==
  ASSUME SessionTypeOK, NEW c \in Call,
         NEW ms \in Seq({"unblock", "log", "logerror", "exit", "other"}), Tell(c, ms)
  PROVE  InboxType'
<1>1. inbox[c] \o ms \in Seq({"unblock", "log", "logerror", "exit", "other"})
  <2>1. inbox[c] \in Seq({"unblock", "log", "logerror", "exit", "other"}) BY DEF SessionTypeOK
  <2> QED BY <2>1
<1> QED BY <1>1 DEF SessionTypeOK, Tell, InboxType

LEMMA CallStepType ==
  ASSUME SessionTypeOK, NEW c \in Call, Sending(c), CallStep(c)
  PROVE  SessionTypeOK'
<1>1. StageType /\ InboxType /\ LoopType /\ OutcomeType
  BY DEF SessionTypeOK, StageType, InboxType, LoopType, OutcomeType
<1>2. session' = session /\ geometry' = geometry /\ serving' = serving /\ noise' = noise
  BY DEF CallStep, Connect, SendAttach, SendAction, Send, Top, TakeUnblock, TakeLogError, Drain,
         TakeReply, TakeExit, Closed, RecvTimesOut, Quiet
<1>3. outbox' \in [Call -> {<< >>, <<"attach">>, <<"attach", "action">>, <<"action">>}]
  <2>1. CASE SendAttach(c) \/ SendAction(c)
    <3>1. Sending(c)' /\ \A d \in Call : d # c => outbox'[d] = outbox[d]
      BY <2>1, SendKeeps DEF Kept
    <3>2. outbox' = [d \in Call |-> outbox'[d]]
      <4>1. outbox = [d \in Call |-> outbox[d]] BY DEF SessionTypeOK
      <4>2. CASE outbox' = outbox BY <4>1, <4>2
      <4>3. CASE outbox' = [outbox EXCEPT ![c] = Append(@, "attach")] BY <4>1, <4>3
      <4>4. CASE outbox' = [outbox EXCEPT ![c] = Append(@, "action")] BY <4>1, <4>4
      <4> QED BY <2>1, <4>2, <4>3, <4>4 DEF SendAttach, SendAction, Send
    <3>3. outbox'[c] \in {<< >>, <<"attach">>, <<"attach", "action">>, <<"action">>}
      <4>1. \/ outbox'[c] = outbox[c]
            \/ SendAttach(c) /\ outbox'[c] = Append(outbox[c], "attach")
            \/ SendAction(c) /\ outbox'[c] = Append(outbox[c], "action")
        <5>1. outbox = [d \in Call |-> outbox[d]] BY DEF SessionTypeOK
        <5>2. CASE SendAttach(c) BY <5>1, <5>2 DEF SendAttach, Send
        <5>3. CASE SendAction(c) BY <5>1, <5>3 DEF SendAction, Send
        <5> QED BY <2>1, <5>2, <5>3
      <4>2. SendAttach(c) => outbox[c] = << >> BY DEF SendAttach, Sending
      <4>3. SendAction(c) => outbox[c] \in {<< >>, <<"attach">>} BY DEF SendAction, Sending
      <4>4. Append(<< >>, "attach") = <<"attach">> /\ Append(<< >>, "action") = <<"action">>
        OBVIOUS
      <4>5. "attach" \in {"attach", "action"} /\ "action" \in {"attach", "action"} OBVIOUS
      <4>6. Append(<<"attach">>, "action") = <<"attach", "action">> BY <4>5, PairOf
      <4> QED BY <4>1, <4>2, <4>3, <4>4, <4>6 DEF SessionTypeOK
    <3> QED BY <3>1, <3>2, <3>3 DEF SessionTypeOK
  <2>2. CASE ~(SendAttach(c) \/ SendAction(c))
    <3>1. outbox' = outbox
      BY <2>2 DEF CallStep, Connect, Top, TakeUnblock, TakeLogError, Drain, TakeReply, TakeExit,
             Closed, RecvTimesOut, Quiet
    <3> QED BY <3>1 DEF SessionTypeOK
  <2> QED BY <2>1, <2>2
<1>4. StageType' /\ InboxType' /\ LoopType' /\ OutcomeType'
  <2>1. CASE \E a \in {"ok", "refused", "error"} : Return(c, a) BY <2>1, ReturnType
  <2>2. CASE /\ GoOn(c) /\ stage[c] = "recv" /\ inbox[c] # << >>
             /\ armed' \in [Call -> BOOLEAN] /\ failed' \in [Call -> BOOLEAN]
    BY <2>2, GoOnType DEF Sending
  <2>3. CASE (\E s \in {"attach", "act", "top", "recv"} : Goto(c, s))
             /\ UNCHANGED <<inbox, loop, outcome>>
    BY <1>1, <2>3 DEF Goto, StageType, InboxType, LoopType, OutcomeType, loop, outcome
  <2>4. \/ \E a \in {"ok", "refused", "error"} : Return(c, a)
        \/ /\ GoOn(c) /\ stage[c] = "recv" /\ inbox[c] # << >>
           /\ armed' \in [Call -> BOOLEAN] /\ failed' \in [Call -> BOOLEAN]
        \/ (\E s \in {"attach", "act", "top", "recv"} : Goto(c, s))
             /\ UNCHANGED <<inbox, loop, outcome>>
    <3>1. CASE Connect(c) BY <3>1 DEF Connect
    <3>2. CASE SendAttach(c) \/ SendAction(c) BY <3>2 DEF SendAttach, SendAction, Send
    <3>3. CASE Top(c) BY <3>3 DEF Top
    <3>4. CASE TakeUnblock(c) BY <3>4 DEF TakeUnblock, Got, SessionTypeOK
    <3>5. CASE TakeLogError(c) BY <3>5 DEF TakeLogError, Got, SessionTypeOK
    <3>6. CASE Drain(c) BY <3>6 DEF Drain, Got, SessionTypeOK
    <3>7. CASE TakeReply(c) BY <3>7 DEF TakeReply
    <3>8. CASE TakeExit(c) \/ Closed(c) \/ RecvTimesOut(c)
      BY <3>8 DEF TakeExit, Closed, RecvTimesOut
    <3> QED BY <3>1, <3>2, <3>3, <3>4, <3>5, <3>6, <3>7, <3>8 DEF CallStep
  <2> QED BY <2>1, <2>2, <2>3, <2>4
<1> QED BY <1>2, <1>3, <1>4
         DEF SessionTypeOK, geometry, StageType, InboxType, LoopType, OutcomeType

LEMMA ServerStepType ==
  ASSUME SessionTypeOK, NEW c \in Call, Sending(c), ServerStep(c)
  PROVE  SessionTypeOK'
<1> DEFINE M == {"unblock", "log", "logerror", "exit", "other"}
<1>0. /\ <<"logerror">> \in Seq(M) /\ << >> \in Seq(M) /\ <<"log">> \in Seq(M)
      /\ <<"unblock">> \in Seq(M) /\ <<"other">> \in Seq(M)
  OBVIOUS
<1>1. CASE AttachCall(c)
  <2>1. at' \in [Client -> 0 .. Neutral] /\ size' \in 1 .. Neutral
    <3>1. Neutral \in 0 .. Neutral /\ c \in Client BY SessionAssumption DEF Client
    <3> QED BY <1>1, <3>1, SetSizeEffect DEF AttachCall
  <2>2. serving' \in [Call -> BOOLEAN] BY <1>1 DEF AttachCall, SessionTypeOK
  <2> QED BY <1>1, <2>1, <2>2 DEF AttachCall, SessionTypeOK, loop, outcome
<1>2. CASE Act(c)
  <2>1. serving' \in [Call -> BOOLEAN] BY <1>2 DEF Act, SessionTypeOK
  <2>2. effect' \in [Call -> {"none", "applied", "refused"}] BY <1>2 DEF Act, SessionTypeOK
  <2>3. told' \in [Call -> 0 .. Neutral]
    <3>1. size \in 0 .. Neutral /\ 0 \in 0 .. Neutral BY SessionAssumption DEF SessionTypeOK
    <3>2. \/ told' = told \/ \E v \in 0 .. Neutral : told' = [told EXCEPT ![c] = v]
      BY <1>2, <3>1 DEF Act
    <3> QED BY <3>2 DEF SessionTypeOK
  <2>4. inbox' \in [Call -> Seq(M)]
    <3>1. \E ms \in {<< >>, <<"log">>, <<"logerror">>} : Tell(c, ms) BY <1>2 DEF Act
    <3> QED BY <1>0, <3>1, TellType DEF InboxType
  <2> QED BY <1>2, <2>1, <2>2, <2>3, <2>4 DEF Act, SessionTypeOK, loop, geometry
<1>3. CASE Unblock(c)
  <2>1. serving' \in [Call -> BOOLEAN] BY <1>3 DEF Unblock, SessionTypeOK
  <2>2. outbox' \in [Call -> {<< >>, <<"attach">>, <<"attach", "action">>, <<"action">>}]
    <3>1. /\ Tail(<<"attach">>) = << >> /\ Tail(<<"action">>) = << >>
          /\ Tail(<<"attach", "action">>) = <<"action">>
      OBVIOUS
    <3>2. outbox[c] \in {<<"attach">>, <<"attach", "action">>, <<"action">>}
      BY <1>3 DEF Unblock, Serves, SessionTypeOK
    <3>3. Tail(outbox[c]) \in {<< >>, <<"action">>} BY <3>1, <3>2
    <3> QED BY <1>3, <3>3 DEF Unblock, SessionTypeOK
  <2>3. inbox' \in [Call -> Seq(M)] BY <1>0, <1>3, TellType DEF Unblock, InboxType
  <2> QED BY <1>3, <2>1, <2>2, <2>3 DEF Unblock, SessionTypeOK, loop, geometry, outcome
<1>4. CASE Noise(c)
  <2>1. noise' \in [Call -> 0 .. MaxNoise]
    <3>1. noise[c] + 1 \in 0 .. MaxNoise BY <1>4, SessionAssumption DEF Noise, SessionTypeOK
    <3> QED BY <1>4, <3>1 DEF Noise, SessionTypeOK
  <2>2. inbox' \in [Call -> Seq(M)] BY <1>0, <1>4, TellType DEF Noise, InboxType
  <2> QED BY <1>4, <2>1, <2>2 DEF Noise, SessionTypeOK, loop, geometry, outcome
<1>5. CASE Forget(c)
  <2>1. at' \in [Client -> 0 .. Neutral] /\ size' \in 1 .. Neutral
    <3>1. 0 \in 0 .. Neutral /\ c \in Client BY SessionAssumption DEF Client
    <3> QED BY <1>5, <3>1, SetSizeEffect DEF Forget
  <2> QED BY <1>5, <2>1 DEF Forget, Elsewhere, SessionTypeOK, loop, socket, outcome
<1> QED BY <1>1, <1>2, <1>3, <1>4, <1>5 DEF ServerStep

\* What an observer attaches at is a size.
LEMMA SizeForIsOne ==
  ASSUME SessionTypeOK, NEW o \in Observer
  PROVE  SizeFor(o) \in 0 .. Neutral
<1>1. SizeQuery[o] \in Call BY SessionAssumption
<1>2. told[SizeQuery[o]] \in 0 .. Neutral BY <1>1 DEF SessionTypeOK
<1> QED BY <1>2, SessionAssumption DEF SizeFor

\* A step of those who attach and stay.
Lasting == \/ \E w \in Writer : WriterSizes(w)
           \/ \E o \in Observer : ObserverOpens(o) \/ ObserverLeaves(o)

LEMMA LastingSets ==
  ASSUME SessionTypeOK, Lasting
  PROVE  /\ \E x \in Writer \cup Observer, n \in 0 .. Neutral : SetSize(x, n)
         /\ resized' \in 0 .. MaxResize /\ Elsewhere
<1>0. resized < MaxResize => resized + 1 \in 0 .. MaxResize
  BY SessionAssumption DEF SessionTypeOK
<1>1. CASE \E w \in Writer : WriterSizes(w)
  <2>1. \A n \in Sizes \cup {0} : n \in 0 .. Neutral
    <3>1. Neutral \in Nat /\ Sizes \subseteq 1 .. Neutral BY SessionAssumption
    <3>2. \A n \in 1 .. Neutral : n \in 0 .. Neutral BY <3>1
    <3> QED BY <3>1, <3>2
  <2> QED BY <1>0, <1>1, <2>1 DEF WriterSizes
<1>2. CASE \E o \in Observer : ObserverOpens(o)
  BY <1>2, SizeForIsOne DEF ObserverOpens, SessionTypeOK
<1>3. CASE \E o \in Observer : ObserverLeaves(o)
  <2>1. 0 \in 0 .. Neutral BY SessionAssumption
  <2> QED BY <1>0, <1>3, <2>1 DEF ObserverLeaves
<1> QED BY <1>1, <1>2, <1>3 DEF Lasting

LEMMA EndInboxes ==
  ASSUME SessionTypeOK, End, NEW d \in Call
  PROVE  /\ inbox'[d] = inbox[d] \/ Appended(d, "exit")
         /\ inbox' = [c \in Call |-> inbox'[c]]
         /\ inbox'[d] \in Seq({"unblock", "log", "logerror", "exit", "other"})
<1>1. PICK who \in SUBSET {c \in Call : at[c] > 0 /\ stage[c] # "done"} :
        inbox' = [c \in Call |-> IF c \in who THEN Append(inbox[c], "exit") ELSE inbox[c]]
  BY DEF End
<1>2. inbox'[d] = inbox[d] \/ inbox'[d] = Append(inbox[d], "exit") BY <1>1
<1>3. inbox[d] \in Seq({"unblock", "log", "logerror", "exit", "other"}) BY DEF SessionTypeOK
<1>4. Append(inbox[d], "exit") \in Seq({"unblock", "log", "logerror", "exit", "other"}) BY <1>3
<1> QED BY <1>1, <1>2, <1>3, <1>4, AppendedTo

LEMMA OtherType ==
  ASSUME SessionTypeOK,
         \/ Lasting \/ Hang \/ Resume \/ End \/ \E c \in Call : DeadlinePasses(c)
         \/ UNCHANGED sessionVars
  PROVE  SessionTypeOK'
<1>1. CASE Lasting
  <2>1. PICK x \in Writer \cup Observer, n \in 0 .. Neutral : SetSize(x, n)
    BY <1>1, LastingSets
  <2>2. at' \in [Client -> 0 .. Neutral] /\ size' \in 1 .. Neutral
    BY <2>1, SetSizeEffect DEF Client
  <2>3. resized' \in 0 .. MaxResize /\ Elsewhere BY <1>1, LastingSets
  <2> QED BY <2>2, <2>3 DEF Elsewhere, SessionTypeOK, socket, loop, outcome
<1>2. CASE Hang \/ Resume
  BY <1>2 DEF Hang, Resume, SessionTypeOK, geometry, socket, loop, outcome
<1>3. CASE End
  <2>1. 0 \in 0 .. Neutral BY SessionAssumption
  <2>2. at' \in [Client -> 0 .. Neutral] BY <1>3, <2>1 DEF End
  <2>3. outbox' \in [Call -> {<< >>, <<"attach">>, <<"attach", "action">>, <<"action">>}]
    BY <1>3 DEF End
  <2>4. serving' \in [Call -> BOOLEAN] BY <1>3 DEF End
  <2>5. inbox' \in [Call -> Seq({"unblock", "log", "logerror", "exit", "other"})]
    <3>1. CASE Call = {} BY <1>3, <3>1 DEF End
    <3>2. CASE Call # {} BY <1>3, <3>2, EndInboxes
    <3> QED BY <3>1, <3>2
  <2> QED BY <1>3, <2>2, <2>3, <2>4, <2>5 DEF End, SessionTypeOK, loop, outcome
<1>4. CASE \E c \in Call : DeadlinePasses(c)
  <2>1. late' \in [Call -> BOOLEAN] BY <1>4 DEF DeadlinePasses, SessionTypeOK
  <2> QED BY <1>4, <2>1 DEF DeadlinePasses, SessionTypeOK, geometry, socket, outcome
<1>5. CASE UNCHANGED sessionVars
  BY <1>5 DEF sessionVars, SessionTypeOK, geometry, socket, loop, outcome
<1> QED BY <1>1, <1>2, <1>3, <1>4, <1>5

----------------------------------------------------------------------------
(* Every step keeps what is between a call and the server.                 *)

LEMMA CallStepKeeps ==
  ASSUME SessionTypeOK, NEW c \in Call, CallStep(c), Sending(c)
  PROVE  /\ Sending(c)' /\ (c \in Action /\ Exchange(c) => Exchange(c)')
         /\ \A d \in Call : d # c => Kept(d)
<1>0. CASE SendAttach(c) \/ SendAction(c) BY <1>0, SendKeeps
<1>1. CASE Connect(c) /\ session = "gone"
  BY <1>1, ReturnKeeps DEF Connect, Quiet
<1>2. CASE Connect(c) /\ session # "gone"
  BY <1>2, MovesOn DEF Connect, Quiet, socket
<1>3. CASE Top(c) /\ (late[c] \/ turns[c] >= Limit)
  BY <1>3, ReturnKeeps DEF Top, Quiet
<1>4. CASE Top(c) /\ ~(late[c] \/ turns[c] >= Limit)
  <2>1. turns[c] < Limit BY <1>4, SessionAssumption DEF SessionTypeOK
  <2>2. Goto(c, "recv") /\ UNCHANGED <<socket, loop, outcome>> /\ stage[c] = "top"
    BY <1>4 DEF Top, Quiet, socket
  <2> QED BY <2>1, <2>2, MovesOn
<1>5. CASE TakeUnblock(c) /\ armed[c]
  <2> DEFINE a == IF failed[c] THEN "refused" ELSE "ok"
  <2>1. /\ Return(c, a) /\ outbox' = outbox /\ serving' = serving
        /\ stage[c] = "recv" /\ inbox[c] # << >> /\ Head(inbox[c]) = "unblock"
    BY <1>5 DEF TakeUnblock, Got, Quiet
  <2>2. a \in {"ok", "refused", "error"} OBVIOUS
  <2>3. ASSUME Exchange(c)
        PROVE  (a = "ok" => effect[c] = "applied") /\ (a = "refused" => effect[c] = "refused")
    <3>1. 1 \in Unblocks(c)
      <4>1. inbox[c] \in Seq({"unblock", "log", "logerror", "exit", "other"})
        BY DEF SessionTypeOK
      <4>2. 1 \in DOMAIN inbox[c] /\ inbox[c][1] = "unblock" BY <2>1, <4>1
      <4> QED BY <4>2 DEF Unblocks
    <3>2. effect[c] # "none" BY <1>5, <2>3, <3>1 DEF Exchange, BeforeActed
    <3>3. failed[c] => effect[c] = "refused" BY <2>3 DEF Exchange, BlamesRefusals
    <3>4. ASSUME effect[c] = "refused", ~failed[c] PROVE FALSE
      <4>1. PICK k \in DOMAIN inbox[c] : \A i \in Unblocks(c) : i > k
        BY <1>5, <2>1, <2>3, <3>4 DEF Exchange, BlamesRefusals
      <4>2. k \in Nat /\ 1 <= k
        <5>1. inbox[c] \in Seq({"unblock", "log", "logerror", "exit", "other"})
          BY DEF SessionTypeOK
        <5> QED BY <4>1, <5>1
      <4> QED BY <3>1, <4>1, <4>2
    <3>5. effect[c] \in {"none", "applied", "refused"} BY DEF SessionTypeOK
    <3> QED BY <3>2, <3>3, <3>4, <3>5
  <2> HIDE DEF a
  <2> QED BY <2>1, <2>2, <2>3, ReturnKeeps
<1>6. CASE \/ TakeUnblock(c) /\ ~armed[c]
           \/ TakeLogError(c)
           \/ Drain(c)
  <2>1. /\ GoOn(c) /\ Quiet /\ stage[c] = "recv" /\ inbox[c] # << >>
        /\ \A d \in Call : d # c => armed'[d] = armed[d] /\ failed'[d] = failed[d]
    BY <1>6 DEF TakeUnblock, TakeLogError, Drain, Got, SessionTypeOK
  <2>2. Sending(c)' /\ \A d \in Call : d # c => Kept(d) BY <2>1, GoOnEffect
  <2>3. ASSUME c \in Action, Exchange(c) PROVE Exchange(c)'
    <3>1. \/ /\ ~armed[c] /\ armed'[c] /\ failed'[c] = failed[c]
             /\ Head(inbox[c]) = "unblock"
          \/ armed'[c] = armed[c] /\ failed'[c] /\ Head(inbox[c]) = "logerror"
          \/ /\ armed'[c] = armed[c] /\ failed'[c] = failed[c]
             /\ Head(inbox[c]) \in {"log", "other"}
      BY <1>6, <2>3 DEF TakeUnblock, TakeLogError, Drain, Got, SessionTypeOK
    <3>2. Head(inbox[c]) = inbox[c][1] OBVIOUS
    <3> QED BY <2>1, <2>3, <3>1, <3>2, TakeKeeps
  <2> QED BY <2>2, <2>3
<1>7. CASE TakeReply(c)
  <2>1. c \notin Action BY <1>7 DEF TakeReply, Action
  <2> QED BY <1>7, <2>1, ReturnKeeps DEF TakeReply, Quiet
<1>8. CASE TakeExit(c) \/ Closed(c) \/ RecvTimesOut(c)
  BY <1>8, ReturnKeeps DEF TakeExit, Closed, RecvTimesOut, Quiet
<1> QED BY <1>0, <1>1, <1>2, <1>3, <1>4, <1>5, <1>6, <1>7, <1>8 DEF CallStep

LEMMA ServerStepKeeps ==
  ASSUME SessionTypeOK, NEW c \in Call, ServerStep(c), Sending(c)
  PROVE  /\ Sending(c)' /\ (c \in Action /\ Exchange(c) => Exchange(c)')
         /\ \A d \in Call : d # c => Kept(d)
<1>1. CASE AttachCall(c) BY <1>1, AttachKeeps
<1>2. CASE Act(c) BY <1>2, ActKeeps
<1>3. CASE Unblock(c) BY <1>3, UnblockKeeps
<1>4. CASE Noise(c)
  <2>1. UNCHANGED <<stage, outbox, serving, loop, outcome>> /\ Tell(c, <<"other">>)
    BY <1>4 DEF Noise
  <2>2. (Appended(c, "other") \/ inbox'[c] = inbox[c])
        /\ \A d \in Call : d # c => inbox'[d] = inbox[d]
    BY <2>1, TellEffect
  <2>3. \A d \in Call : d # c => Kept(d) BY <2>1, <2>2 DEF Kept, loop, outcome
  <2>4. Sending(c)' BY <2>1 DEF Sending, loop
  <2>5. Exchange(c) => Exchange(c)' BY <2>1, <2>2, OtherMessageKeeps DEF loop, outcome
  <2> QED BY <2>3, <2>4, <2>5
<1>5. CASE Forget(c)
  <2>1. \A d \in Call : Kept(d) BY <1>5 DEF Forget, Elsewhere, Kept, socket, loop, outcome
  <2> QED BY <2>1, KeptKeeps
<1> QED BY <1>1, <1>2, <1>3, <1>4, <1>5 DEF ServerStep

LEMMA EndKeeps ==
  ASSUME SessionTypeOK, End, NEW c \in Call
  PROVE  (Sending(c) => Sending(c)') /\ (Sending(c) /\ Exchange(c) => Exchange(c)')
<1>1. /\ outbox'[c] = << >> /\ ~serving'[c] /\ stage' = stage
      /\ turns' = turns /\ armed' = armed /\ failed' = failed
      /\ effect' = effect /\ answer' = answer
  BY DEF End, loop, outcome
<1>2. inbox'[c] = inbox[c] \/ Appended(c, "exit") BY EndInboxes
<1> QED BY <1>1, <1>2, SendingShrinks, OtherMessageKeeps

LEMMA OthersKeep ==
  ASSUME Lasting \/ Hang \/ Resume \/ (\E c \in Call : DeadlinePasses(c)) \/ UNCHANGED sessionVars,
         SessionTypeOK, NEW d \in Call
  PROVE  Kept(d)
<1>1. CASE Lasting
  <2>1. Elsewhere BY <1>1, LastingSets
  <2> QED BY <2>1 DEF Elsewhere, Kept, socket, loop, outcome
<1>2. CASE Hang \/ Resume BY <1>2 DEF Hang, Resume, Kept, socket, loop, outcome
<1>3. CASE \E c \in Call : DeadlinePasses(c)
  BY <1>3 DEF DeadlinePasses, Kept, socket, outcome
<1>4. CASE UNCHANGED sessionVars BY <1>4 DEF sessionVars, Kept, socket, loop, outcome
<1> QED BY <1>1, <1>2, <1>3, <1>4

----------------------------------------------------------------------------
(* Every step keeps the geometry.                                          *)

LEMMA GeometryStep ==
  ASSUME SessionTypeOK, Geometry, [SessionNext]_sessionVars
  PROVE  Geometry'
<1>0. 0 \in 0 .. Neutral /\ Neutral \in 0 .. Neutral BY SessionAssumption
<1>1. CASE \E c \in Call : CallStep(c)
  <2>1. UNCHANGED <<session, geometry>>
    BY <1>1 DEF CallStep, Connect, SendAttach, SendAction, Send, Top, TakeUnblock, TakeLogError,
           Drain, TakeReply, TakeExit, Closed, RecvTimesOut, Quiet
  <2> QED BY <2>1, GeometryStays DEF geometry
<1>2. CASE \E c \in Call : AttachCall(c)
  BY <1>0, <1>2, GeometrySet DEF AttachCall, Client
<1>3. CASE \E c \in Call : Forget(c)
  BY <1>0, <1>3, GeometrySet DEF Forget, Client
<1>4. CASE \E c \in Call : Act(c) \/ Unblock(c)
  BY <1>4, GeometryStays DEF Act, Unblock, geometry
<1>5. CASE \E c \in Call : Noise(c) \/ DeadlinePasses(c)
  BY <1>5, GeometryStays DEF Noise, DeadlinePasses, geometry
<1>6. CASE Lasting
  <2>1. PICK x \in Writer \cup Observer, n \in 0 .. Neutral : SetSize(x, n)
    BY <1>6, LastingSets
  <2>2. x \in Client /\ x \notin Call BY SessionAssumption DEF Client
  <2> QED BY <2>1, <2>2, GeometrySet
<1>7. CASE Hang \/ Resume
  BY <1>7, GeometryStays DEF Hang, Resume, geometry
<1>8. CASE End
  <2>1. session' = "gone" /\ at' = [x \in Client |-> 0] BY <1>8 DEF End
  <2> QED BY <2>1 DEF Geometry, Client
<1>9. CASE UNCHANGED sessionVars BY <1>9, GeometryStays DEF sessionVars, geometry
<1> QED BY <1>1, <1>2, <1>3, <1>4, <1>5, <1>6, <1>7, <1>8, <1>9
         DEF SessionNext, ServerStep, Lasting

----------------------------------------------------------------------------
LEMMA SessionInvInit == SessionInit => SessionInv
<1> SUFFICES ASSUME SessionInit PROVE SessionInv OBVIOUS
<1>1. SessionTypeOK
  <2>1. << >> \in Seq({"unblock", "log", "logerror", "exit", "other"}) OBVIOUS
  <2>2. /\ 0 \in 0 .. Neutral /\ Neutral \in 1 .. Neutral /\ 0 \in 0 .. MaxResize
        /\ 0 \in 0 .. MaxNoise /\ 0 \in 0 .. Limit
    BY SessionAssumption
  <2> QED BY <2>1, <2>2 DEF SessionInit, SessionTypeOK
<1>2. \A c \in Call : Sending(c) BY DEF SessionInit, Sending
<1>3. \A c \in Action : Exchange(c)
  <2>1. TAKE c \in Action
  <2>2. c \in Call BY DEF Action
  <2>3. inbox[c] = << >> /\ outbox[c] = << >> /\ ~armed[c] /\ ~failed[c] /\ effect[c] = "none"
        /\ stage[c] = "idle" /\ answer[c] = "none" /\ ~serving[c]
    BY <2>2 DEF SessionInit
  <2>4. DOMAIN inbox[c] = {} BY <2>3
  <2>5. Unblocks(c) = {} BY <2>4 DEF Unblocks
  <2>6. << >> # <<"action">> OBVIOUS
  <2> QED BY <2>3, <2>4, <2>5, <2>6
          DEF Exchange, BeforeAttached, BeforeActed, ActsOnce, BlamesRefusals, Answered
<1>4. Geometry BY DEF SessionInit, Geometry, SizesOf, Client
<1> QED BY <1>1, <1>2, <1>3, <1>4 DEF SessionInv

LEMMA SessionInvStep == SessionInv /\ [SessionNext]_sessionVars => SessionInv'
<1> SUFFICES ASSUME SessionInv, [SessionNext]_sessionVars PROVE SessionInv' OBVIOUS
<1>1. SessionTypeOK /\ (\A c \in Call : Sending(c)) /\ (\A c \in Action : Exchange(c)) /\ Geometry
  BY DEF SessionInv
<1>2. Geometry' BY <1>1, GeometryStep
<1>3. SUFFICES SessionTypeOK' /\ (\A d \in Call : Sending(d)' /\ (d \in Action => Exchange(d)'))
  BY <1>2 DEF SessionInv, Action
<1>4. CASE \E c \in Call : CallStep(c)
  <2>1. PICK c \in Call : CallStep(c) BY <1>4
  <2>2. SessionTypeOK' BY <1>1, <2>1, CallStepType
  <2> QED BY <1>1, <2>1, <2>2, CallStepKeeps, KeptKeeps
<1>5. CASE \E c \in Call : ServerStep(c)
  <2>1. PICK c \in Call : ServerStep(c) BY <1>5
  <2>2. SessionTypeOK' BY <1>1, <2>1, ServerStepType
  <2> QED BY <1>1, <2>1, <2>2, ServerStepKeeps, KeptKeeps
<1>6. CASE End
  <2>1. SessionTypeOK' BY <1>1, <1>6, OtherType
  <2> QED BY <1>1, <1>6, <2>1, EndKeeps
<1>7. CASE Lasting \/ Hang \/ Resume \/ (\E c \in Call : DeadlinePasses(c))
           \/ UNCHANGED sessionVars
  <2>1. SessionTypeOK' BY <1>1, <1>7, OtherType
  <2>2. \A d \in Call : Kept(d) BY <1>1, <1>7, OthersKeep
  <2> QED BY <1>1, <2>1, <2>2, KeptKeeps
<1> QED BY <1>4, <1>5, <1>6, <1>7 DEF SessionNext, Lasting

LEMMA SessionInvAlways == SessionSpec => []SessionInv
<1>1. SessionInit => SessionInv BY SessionInvInit
<1>2. SessionInv /\ [SessionNext]_sessionVars => SessionInv' BY SessionInvStep
<1> QED BY <1>1, <1>2, PTL DEF SessionSpec

\* Whatever calls, writers and observers there are, and whatever sizes and limits, the state
\* has its type: no more than an attach and an action is with the server, and no loop turns
\* more often than its limit.
THEOREM SessionTypeCorrect == SessionSpec => []SessionTypeOK
<1>1. SessionInv => SessionTypeOK BY DEF SessionInv
<1> QED BY <1>1, SessionInvAlways, PTL

\* However many terminators are under way, and whatever the server sends in between, an
\* acknowledgement is of the action it was asked for (send_action).
THEOREM AcknowledgesTheAction == SessionSpec => []AckIsOfTheAction
<1>1. SessionInv => AckIsOfTheAction
  <2>1. SUFFICES ASSUME SessionInv, NEW c \in Action
                 PROVE  /\ answer[c] = "ok" => effect[c] = "applied"
                        /\ answer[c] = "refused" => effect[c] = "refused"
    BY DEF AckIsOfTheAction
  <2> QED BY <2>1 DEF SessionInv, Exchange, Answered
<1> QED BY <1>1, SessionInvAlways, PTL

\* However many calls are attached, and however many of those the server has not let go of,
\* those who stay decide the geometry (the neutral size of query.rs).
THEOREM OthersDecideTheSize == SessionSpec => []CallsShrinkNothing
<1>1. SessionInv => CallsShrinkNothing BY OthersDecide DEF SessionInv
<1> QED BY <1>1, SessionInvAlways, PTL
=============================================================================
