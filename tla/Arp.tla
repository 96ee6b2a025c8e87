--------------------------------- MODULE Arp ---------------------------------
(***************************************************************************)
(* Address resolution, net/arp.c: a cache of one entry, three requests and *)
(* a number of polls after each.  Frames of the network come in any order, *)
(* late or never: replies and the requests of other hosts.  Every host     *)
(* tells the truth about itself, and may change its hardware address.      *)
(***************************************************************************)
EXTENDS Integers, Sequences, FiniteSets

CONSTANTS
  Ips, Macs,
  Retries, Polls,   \* requests, and polls after each (3 and 10000)
  MaxFlight,        \* bound: frames on their way
  NoEntry

ASSUME ArpAssumption ==
  /\ Retries \in Nat \ {0} /\ Polls \in Nat \ {0}
  /\ NoEntry \notin Ips /\ "none" \notin Macs

VARIABLES
  hosts,      \* the hardware address of each host, on the network
  flight,     \* the frames on their way, by sender and its address then
  arp_cache,  \* [ip, mac], or NoEntry while arp_cache_valid is 0
  resolving,  \* the address arp_resolve is asked for, or NoEntry
  retry, polls,
  answer,     \* [ip, mac] or [ip] of the last arp_resolve, or NoEntry
  moved,      \* the hosts that changed their address
  missed      \* a frame of the host asked for came in this call

arpVars == <<hosts, flight, arp_cache, resolving, retry, polls, answer, moved, missed>>

ArpInit ==
  /\ hosts \in [Ips -> Macs]
  /\ flight = {}
  /\ arp_cache = NoEntry /\ resolving = NoEntry /\ answer = NoEntry
  /\ retry = 0 /\ polls = 0
  /\ moved = {} /\ missed = FALSE

-----------------------------------------------------------------------------
(* The network *)

\* A host sends a frame with its address, in answer or of its own.
Speak(ip) ==
  /\ Cardinality(flight) < MaxFlight
  /\ flight' = flight \cup {[ip |-> ip, mac |-> hosts[ip]]}
  /\ UNCHANGED <<hosts, arp_cache, resolving, retry, polls, answer, moved, missed>>

\* A host gets another hardware address.
Move(ip) ==
  /\ ip \notin moved
  /\ \E mac \in Macs \ {hosts[ip]} : hosts' = [hosts EXCEPT ![ip] = mac]
  /\ moved' = moved \cup {ip}
  /\ UNCHANGED <<flight, arp_cache, resolving, retry, polls, answer, missed>>

-----------------------------------------------------------------------------
(* arp_resolve *)

\* Mutant: the frame is not compared with the address asked for.
AnyFrame(frame, ip) == TRUE

\* A frame is taken for the answer when its sender is the host asked for,
\* whether it is a reply or not.
IsAnswer(frame, ip) == frame.ip = ip

arp_resolve(ip) ==
  /\ resolving = NoEntry
  /\ IF arp_cache # NoEntry /\ arp_cache.ip = ip
     THEN /\ answer' = arp_cache
          /\ UNCHANGED <<resolving, retry, polls>>
     ELSE /\ resolving' = ip /\ retry' = 1 /\ polls' = 0
          /\ answer' = NoEntry
  /\ missed' = FALSE
  /\ UNCHANGED <<hosts, flight, arp_cache, moved>>

\* One poll that finds a frame, or nothing or too short a one.
poll ==
  /\ resolving # NoEntry /\ polls < Polls
  /\ \/ \E frame \in flight :
          /\ flight' = flight \ {frame}
          /\ IF IsAnswer(frame, resolving)
             THEN /\ arp_cache' = [ip |-> resolving, mac |-> frame.mac]
                  /\ answer' = [ip |-> resolving, mac |-> frame.mac]
                  /\ resolving' = NoEntry
                  /\ UNCHANGED <<retry, polls, missed>>
             ELSE /\ polls' = polls + 1
                  /\ missed' = (missed \/ frame.ip = resolving)
                  /\ UNCHANGED <<arp_cache, answer, resolving, retry>>
     \/ polls' = polls + 1 /\ UNCHANGED <<flight, arp_cache, answer, resolving, retry, missed>>
  /\ UNCHANGED <<hosts, moved>>

\* The polls after a request are over: another one, or -1.
again ==
  /\ resolving # NoEntry /\ polls = Polls
  /\ IF retry < Retries
     THEN retry' = retry + 1 /\ polls' = 0 /\ UNCHANGED <<resolving, answer>>
     ELSE /\ resolving' = NoEntry /\ answer' = [ip |-> resolving, mac |-> "none"]
          /\ UNCHANGED <<retry, polls>>
  /\ UNCHANGED <<hosts, flight, arp_cache, moved, missed>>

ArpNext ==
  \/ \E ip \in Ips : Speak(ip) \/ Move(ip) \/ arp_resolve(ip)
  \/ poll \/ again

-----------------------------------------------------------------------------

\* An address resolved is the one its host has, or had before it moved: with
\* frames of other hosts, late ones and those of earlier requests in the same
\* queue, none is taken for another's (arp.c:27).  The cache has no end: a
\* host that moved is answered for with its old address until another host
\* is asked for (arp.c:16).  -1 is answered only after every poll of every
\* request and with no frame of the host passed over.
ArpTellsTheTruth ==
  /\ answer # NoEntry /\ answer.mac # "none" /\ answer.ip \notin moved => answer.mac = hosts[answer.ip]
  /\ answer # NoEntry /\ answer.mac = "none" => retry = Retries /\ polls = Polls /\ ~missed
  /\ arp_cache # NoEntry /\ arp_cache.ip \notin moved => arp_cache.mac = hosts[arp_cache.ip]
=============================================================================
