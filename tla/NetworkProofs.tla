---------------------------- MODULE NetworkProofs ----------------------------
(***************************************************************************)
(* Network for any number of server tasks and any addresses: its type, and *)
(* that the address answered is the one held.                              *)
(***************************************************************************)
EXTENDS Network, SequenceTheorems, TLAPS

\* The order of the start is a sequence, so it has a length.
LEMMA StartOrderLength == Len(StartOrder) \in Nat
<1> DEFINE Names == {"door", "button", "network", "mdns", "system", "server"}
           tasks == <<"door", "button", "network", "mdns", "system">>
           servers == [i \in 1..MaxConnections |-> "server"]
<1>1. MaxConnections \in Nat
  BY NetworkAssumption
<1>2. tasks \in Seq(Names)
  OBVIOUS
<1>3. servers \in Seq(Names)
  BY <1>1, SeqDef
<1> HIDE DEF Names, tasks, servers
<1>4. tasks \o servers \in Seq(Names)
  BY <1>2, <1>3
<1> QED
  BY <1>4, LenProperties DEF StartOrder, tasks, servers

-----------------------------------------------------------------------------
(* Type correctness *)

\* The initial state has the type.
LEMMA InitTypeOK == Init => TypeOK
<1> SUFFICES ASSUME Init PROVE TypeOK
  OBVIOUS
<1>1. spawned \in 0..Len(StartOrder) /\ watch \in {"off", "on", "told"}
  BY StartOrderLength DEF Init
<1>2. link \in BOOLEAN /\ moved \in BOOLEAN /\ signal \in BOOLEAN /\ (watch = "told" => ~link)
  BY Zenon DEF Init
<1>3. \A a \in {lease, ipv4, announced} : a \in Addresses \cup {None}
  BY Zenon DEF Init
<1>4. /\ main \in {"start", "connect", "pause", "lease", "online", "ended"}
      /\ responder \in {"none", "bind", "run", "ended"}
      /\ watch # "off" => main \in {"lease", "online"}
  BY DEF Init
<1> QED
  BY <1>1, <1>2, <1>3, <1>4, Zenon DEF TypeOK

\* Every step keeps the type: main begins no wait that it leaves behind, and is told
\* of a disconnect only when there was one.
LEMMA NextTypeOK == TypeOK /\ [Next]_vars => TypeOK'
<1> SUFFICES ASSUME TypeOK, [Next]_vars PROVE TypeOK'
  OBVIOUS
<1> USE StartOrderLength DEF TypeOK
<1>1. CASE Start
  BY <1>1 DEF Start, radio, answers
<1>2. CASE StartFails \/ Configure \/ ConnectFails \/ Pause
  BY <1>2 DEF StartFails, Configure, ConnectFails, Pause, radio, answers, mdns
<1>3. CASE Connect
  BY <1>3 DEF Connect, answers, mdns
<1>4. CASE ConfigUp
  BY <1>4 DEF ConfigUp, UpdateIpv4, mdns
<1>5. CASE Watch
  BY <1>5 DEF Watch, radio, answers, mdns
<1>6. CASE Disconnected \/ DhcpTimeout \/ WatchFails
  BY <1>6 DEF Disconnected, DhcpTimeout, WatchFails, radio, answers, mdns
<1>7. CASE LinkLost
  BY <1>7 DEF LinkLost, answers, mdns
<1>8. CASE LossNoticed \/ LeaseExpires \/ Leased \/ LeaseMoves
  BY <1>8 DEF LossNoticed, LeaseExpires, Leased, LeaseMoves, answers, mdns
<1>9. CASE Bind
  BY <1>9 DEF Bind, radio, answers
<1>10. CASE Announce
  BY <1>10 DEF Announce, radio
<1>11. CASE ResponderFails
  BY <1>11 DEF ResponderFails, radio, answers
<1>12. CASE UNCHANGED vars
  BY <1>12 DEF vars, radio, answers, mdns
<1> QED
  BY <1>1, <1>2, <1>3, <1>4, <1>5, <1>6, <1>7, <1>8, <1>9, <1>10, <1>11, <1>12
  DEF Next, MainStep, MdnsStep, Trouble, Ended

\* Every variable of the network keeps its type, and the wait for a disconnect is
\* only ever held where main looks at it.
THEOREM NetworkTypeCorrect == Spec => []TypeOK
<1> QED
  BY InitTypeOK, NextTypeOK, PTL DEF Spec

-----------------------------------------------------------------------------
(* The address answered *)

\* While main is online the lease can only be missing after a change of it, or with
\* the link down: a new lease needs the link, which only Connect brings up.
HeldWhileLinked ==
  main = "online" /\ ~moved => (link => lease # None) /\ (lease # None => ipv4 = lease)

\* Every step keeps the address answered the one held.
LEMMA NextHeldWhileLinked == TypeOK /\ HeldWhileLinked /\ [Next]_vars => HeldWhileLinked'
<1> SUFFICES ASSUME TypeOK, HeldWhileLinked, [Next]_vars PROVE HeldWhileLinked'
  OBVIOUS
<1> USE DEF HeldWhileLinked
<1>1. CASE Start \/ StartFails \/ Configure \/ ConnectFails \/ Pause
  BY <1>1 DEF Start, StartFails, Configure, ConnectFails, Pause, radio, answers
<1>2. CASE Connect
  BY <1>2 DEF Connect
<1>3. CASE ConfigUp
  BY <1>3 DEF ConfigUp, UpdateIpv4
<1>4. CASE Watch \/ Disconnected \/ DhcpTimeout \/ WatchFails
  BY <1>4 DEF Watch, Disconnected, DhcpTimeout, WatchFails, radio, answers
<1>5. CASE LinkLost \/ LossNoticed
  BY <1>5 DEF LinkLost, LossNoticed, answers
<1>6. CASE LeaseExpires \/ LeaseMoves
  BY <1>6 DEF LeaseExpires, LeaseMoves, answers
<1>7. CASE Leased
  BY <1>7, NetworkAssumption DEF Leased, answers
<1>8. CASE Bind \/ Announce \/ ResponderFails
  BY <1>8 DEF Bind, Announce, ResponderFails, radio, answers
<1>9. CASE UNCHANGED vars
  BY <1>9 DEF vars, radio, answers
<1> QED
  BY <1>1, <1>2, <1>3, <1>4, <1>5, <1>6, <1>7, <1>8, <1>9
  DEF Next, MainStep, MdnsStep, Trouble, Ended

\* With any number of addresses, losses of the link and renewals, the address the
\* responder answers is the lease held, unless it moved while main was online.
THEOREM NetworkAnswersHeldLease == Spec => []AnswersHeldLease
<1>1. Init => HeldWhileLinked
  BY DEF Init, HeldWhileLinked
<1>2. HeldWhileLinked => AnswersHeldLease
  BY DEF HeldWhileLinked, AnswersHeldLease
<1> QED
  BY <1>1, <1>2, NextHeldWhileLinked, NetworkTypeCorrect, PTL DEF Spec
=============================================================================
