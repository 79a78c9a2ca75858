------------------------------ MODULE Network ------------------------------
(***************************************************************************)
(* main: the tasks it starts, the loop that keeps the Wi-Fi connected, and *)
(* the address it hands to the mDNS responder.                             *)
(*                                                                         *)
(* The radio has threads of its own, so the link may go down between any   *)
(* two steps of main; the network stack and the responder are tasks on the *)
(* executor of main.                                                       *)
(***************************************************************************)
EXTENDS Naturals, Sequences

CONSTANTS
  MaxConnections,     \* MAX_CONNECTIONS
  Addresses,          \* addresses the DHCP server may lease
  None                \* no lease; Ipv4Addr::UNSPECIFIED in the responder

ASSUME NetworkAssumption == MaxConnections \in Nat \ {0} /\ None \notin Addresses

VARIABLES
  main,               \* where main is
  spawned,            \* how many tasks it has started
  watch,              \* its wait_for_disconnect_async: not begun, waiting, or told
  link,               \* the station is associated
  lease,              \* config_v4 of the stack, the lease it holds
  ipv4,               \* MdnsAnswers::ipv4
  signal,             \* MdnsAnswers::signal
  responder,          \* mdns_task
  announced,          \* the address in the last broadcast of mdns_task
  moved               \* history: the lease changed since main last took it over

radio == <<link, lease, moved>>
answers == <<ipv4, signal>>
mdns == <<responder, announced>>
vars == <<main, spawned, watch, radio, answers, mdns>>

-----------------------------------------------------------------------------
(* The start.  Whatever fails, main returns, and what it has started runs on. *)

StartOrder == <<"door", "button", "network", "mdns", "system">>
                \o [i \in 1..MaxConnections |-> "server"]

Start ==
  /\ main = "start" /\ spawned < Len(StartOrder)
  /\ spawned' = spawned + 1
  /\ responder' = IF StartOrder[spawned + 1] = "mdns" THEN "bind" ELSE responder
  /\ UNCHANGED <<main, watch, radio, answers, announced>>

StartFails ==
  /\ main = "start" /\ main' = "ended"
  /\ UNCHANGED <<spawned, watch, radio, answers, mdns>>

Configure ==
  /\ main = "start" /\ spawned = Len(StartOrder) /\ main' = "connect"
  /\ UNCHANGED <<spawned, watch, radio, answers, mdns>>

-----------------------------------------------------------------------------
(* The loop *)

Connect ==
  /\ main = "connect"
  /\ main' = "lease" /\ watch' = "off" /\ link' = TRUE
  /\ UNCHANGED <<spawned, lease, moved, answers, mdns>>

ConnectFails ==
  /\ main = "connect" /\ main' = "pause"
  /\ UNCHANGED <<spawned, watch, radio, answers, mdns>>

Pause ==
  /\ main = "pause" /\ main' = "connect"
  /\ UNCHANGED <<spawned, watch, radio, answers, mdns>>

UpdateQuietly ==     \* mutant: nobody is told
  ipv4' = lease /\ UNCHANGED signal

UpdateOnce ==        \* mutant: only the first address counts
  /\ ipv4' = IF ipv4 = None THEN lease ELSE ipv4
  /\ signal' = TRUE

\* Between wait_config_up and config_v4 there is no await: there is an address.
UpdateIpv4 == ipv4' = lease /\ signal' = TRUE

\* select3: the first arm wins also when the link is already gone.
ConfigUp ==
  /\ main = "lease" /\ lease # None
  /\ UpdateIpv4 /\ moved' = FALSE
  /\ main' = "online" /\ watch' = "off"
  /\ UNCHANGED <<spawned, link, lease, mdns>>

WatchEvents ==       \* mutant: a link that is already lost is waited for
  /\ main \in {"lease", "online"} /\ watch = "off"
  /\ main = "lease" => lease = None
  /\ watch' = "on"
  /\ UNCHANGED <<main, spawned, radio, answers, mdns>>

\* A new wait: NotConnected at once, or it waits for the event.
Watch ==
  /\ main \in {"lease", "online"} /\ watch = "off"
  /\ main = "lease" => lease = None
  /\ IF link THEN watch' = "on" /\ UNCHANGED main
             ELSE main' = "connect" /\ UNCHANGED watch
  /\ UNCHANGED <<spawned, radio, answers, mdns>>

DisconnectedTwice ==      \* mutant: the finished wait is kept
  /\ main \in {"lease", "online"} /\ watch = "told"
  /\ main = "lease" => lease = None
  /\ main' = "connect"
  /\ UNCHANGED <<spawned, watch, radio, answers, mdns>>

Disconnected ==
  /\ main \in {"lease", "online"} /\ watch = "told"
  /\ main = "lease" => lease = None
  /\ main' = "connect" /\ watch' = "off"
  /\ UNCHANGED <<spawned, radio, answers, mdns>>

\* Ten seconds without a lease: the next turn begins all three waits anew.
DhcpTimeout ==
  /\ main = "lease" /\ watch = "on" /\ lease = None
  /\ watch' = "off"
  /\ UNCHANGED <<main, spawned, radio, answers, mdns>>

\* Any other WifiError starts over before there is a lease and ends main after.
WatchFails ==
  /\ main \in {"lease", "online"}
  /\ main = "lease" => lease = None
  /\ main' = IF main = "lease" THEN "connect" ELSE "ended"
  /\ watch' = "off"
  /\ UNCHANGED <<spawned, radio, answers, mdns>>

-----------------------------------------------------------------------------
(* The radio and the stack *)

LinkLost ==
  /\ link /\ link' = FALSE
  /\ watch' = IF watch = "on" THEN "told" ELSE watch
  /\ UNCHANGED <<main, spawned, lease, moved, answers, mdns>>

\* The stack drops its lease when it finds the link down, which it may miss.
LossNoticed ==
  /\ ~link /\ lease # None /\ lease' = None
  /\ UNCHANGED <<main, spawned, watch, link, moved, answers, mdns>>

LeaseExpires ==
  /\ link /\ lease # None /\ lease' = None
  /\ moved' = (moved \/ main = "online")
  /\ UNCHANGED <<main, spawned, watch, link, answers, mdns>>

Leased ==
  /\ link /\ lease = None /\ lease' \in Addresses
  /\ UNCHANGED <<main, spawned, watch, link, moved, answers, mdns>>

\* A renewal that brings another address.
LeaseMoves ==
  /\ link /\ lease # None /\ lease' \in Addresses \ {lease}
  /\ moved' = (moved \/ main = "online")
  /\ UNCHANGED <<main, spawned, watch, link, answers, mdns>>

-----------------------------------------------------------------------------
(* mdns_task *)

Bind ==
  /\ responder = "bind" /\ responder' = "run"
  /\ UNCHANGED <<main, spawned, watch, radio, answers, announced>>

Announce ==
  /\ responder = "run" /\ signal
  /\ signal' = FALSE /\ announced' = ipv4
  /\ UNCHANGED <<main, spawned, watch, radio, ipv4, responder>>

\* A socket that cannot be bound, or an error from the responder, is its end.
ResponderFails ==
  /\ responder \in {"bind", "run"} /\ responder' = "ended"
  /\ UNCHANGED <<main, spawned, watch, radio, answers, announced>>

-----------------------------------------------------------------------------
Init ==
  /\ main = "start" /\ spawned = 0 /\ watch = "off"
  /\ link = FALSE /\ lease = None /\ moved = FALSE
  /\ ipv4 = None /\ signal = FALSE
  /\ responder = "none" /\ announced = None

MainStep == Start \/ Configure \/ Pause \/ ConfigUp \/ Watch \/ Disconnected \/ DhcpTimeout

MdnsStep == Bind \/ Announce

Trouble == StartFails \/ ConnectFails \/ WatchFails \/ LinkLost \/ LeaseExpires \/ LeaseMoves
             \/ ResponderFails

\* Nothing comes after the end of main: the link may stay as it is.
Ended == main = "ended" /\ UNCHANGED vars

Next == MainStep \/ Connect \/ Leased \/ LossNoticed \/ MdnsStep \/ Trouble \/ Ended

\* The executor polls main and mdns_task when they were woken.
Fairness == WF_vars(MainStep) /\ WF_vars(MdnsStep)

Spec == Init /\ [][Next]_vars /\ Fairness

-----------------------------------------------------------------------------
(* Properties *)

\* Every variable has its type, and the wait for a disconnect is only ever held
\* where main looks at it.
TypeOK ==
  /\ main \in {"start", "connect", "pause", "lease", "online", "ended"}
  /\ spawned \in 0..Len(StartOrder) /\ watch \in {"off", "on", "told"}
  /\ link \in BOOLEAN /\ moved \in BOOLEAN /\ signal \in BOOLEAN
  /\ \A a \in {lease, ipv4, announced} : a \in Addresses \cup {None}
  /\ responder \in {"none", "bind", "run", "ended"}
  /\ watch # "off" => main \in {"lease", "online"}
  /\ watch = "told" => ~link

\* Once main has taken over a lease, over any losses of the link and however late
\* the stack notices them, the address answered is the lease held, unless the DHCP
\* server changed it while the link stayed up.
AnswersHeldLease == main = "online" /\ lease # None /\ ~moved => ipv4 = lease

\* The radio works in the end: an attempt to connect succeeds, an address is
\* leased, and nothing fails any more.
NetworkRecovers == <>[][~Trouble]_vars /\ WF_vars(Connect) /\ WF_vars(Leased)

\* "keep Wi-Fi connected" (README, main.rs): when the network recovers, the device
\* comes back to a link with a lease, wherever the troubles left the loop, unless
\* main has returned.
ComesBack ==
  NetworkRecovers => <>[](main = "online" /\ link /\ lease # None) \/ <>(main = "ended")

\* An address that differs from the one last announced is announced, as long as
\* the responder runs.
Announces == ipv4 # announced ~> (ipv4 = announced \/ responder = "ended")
=============================================================================
