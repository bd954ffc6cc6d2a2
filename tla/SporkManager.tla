---------------------------- MODULE SporkManager ----------------------------
(***************************************************************************)
(* Sporks are values that the holder of the spork key changes while the    *)
(* network runs.  Every node keeps the newest message of each spork in     *)
(* memory (mapSporksActive), every message it ever accepted (mapSporks)    *)
(* and the accepted ones in a database.  This module has the nodes of a    *)
(* network, the message thread and the operator's RPC thread of each, the  *)
(* announcements and requests between them, restarts and disconnections.   *)
(***************************************************************************)
EXTENDS Integers, FiniteSets

CONSTANTS
    Node, Edge,       \* the nodes; <<n, p>>: n opens a connection to p
    Start,            \* the connections there are from the start
    Signer,           \* the nodes that were given the spork key
    Id, MinProtocol,  \* the spork ids, and SPORK_14_MIN_PROTOCOL_ACCEPTED
    Value, Default,   \* the values, and the built-in one of each id
    FutureLimit,      \* 2 * 60 * 60 s
    Stray,            \* [Node -> SUBSET Message], those with a bad signature that reach a node
    Restartable,      \* the nodes that may be restarted
    NoSpork,          \* no message
    MaxTime, MaxSigns, MaxFaults    \* bounds

Message == [id : Id, value : Value, time : 0 .. MaxTime]

ASSUME SporkAssumption ==
    /\ Signer \subseteq Node /\ Restartable \subseteq Node
    /\ Edge \subseteq Node \X Node /\ Start \subseteq Edge
    /\ \A e \in Edge : e[1] # e[2] /\ <<e[2], e[1]>> \notin Edge
    /\ MinProtocol \in Id /\ Default \in [Id -> Value]
    /\ Stray \in [Node -> SUBSET Message]
    /\ NoSpork \notin Message
    /\ FutureLimit \in Nat /\ MaxTime \in Nat /\ MaxSigns \in Nat /\ MaxFaults \in Nat

VARIABLES
    now,                \* the clock
    active, seen, disk, \* mapSporksActive, mapSporks, the spork database
    at,                 \* where the message thread is in ProcessSpork
    signing,            \* the message the RPC thread has relayed, not stored
    asked,              \* fRequestedSporksIDB
    up, met,            \* connections; <<n, p>>: n has handled p's VERSION
    net,                \* messages on the way
    signed, lost,       \* history: what was signed, whether one was missed
    signs, faults       \* updates signed; restarts and disconnections

vars == <<now, active, seen, disk, at, signing, asked, up, met, net,
          signed, lost, signs, faults>>

Packet == [kind : {"version", "getsporks"}, from : Node, to : Node]
          \cup [kind : {"inv", "getdata", "spork"}, from : Node, to : Node, body : Message]

Idle == [step |-> "idle", spork |-> NoSpork, valid |-> FALSE]

(* No message counts as signed before any other.                           *)
Time(m) == IF m = NoSpork THEN -1 ELSE m.time

(* The messages a map from ids holds.                                      *)
Held(f) == {f[i] : i \in Id} \ {NoSpork}

Peers(n) == {p \in Node : <<n, p>> \in met}

(* RelayInv: to every peer whose VERSION was handled.                      *)
Announcements(n, m) ==
    {[kind |-> "inv", from |-> n, to |-> p, body |-> m] : p \in Peers(n)}

GetSporkValue(n, i) == IF active[n][i] = NoSpork THEN Default[i] ELSE active[n][i].value

Init ==
    /\ now = 0
    /\ active = [n \in Node |-> [i \in Id |-> NoSpork]]
    /\ seen = [n \in Node |-> {}]
    /\ disk = [n \in Node |-> [i \in Id |-> NoSpork]]
    /\ at = [n \in Node |-> Idle]
    /\ signing = [n \in Node |-> NoSpork]
    /\ asked = [n \in Node |-> \E e \in Start : n \in {e[1], e[2]}]
    /\ up = Start /\ net = {}
    /\ met = Start \cup {<<e[2], e[1]>> : e \in Start}
    /\ signed = {} /\ lost = FALSE
    /\ signs = 0 /\ faults = 0

sporks == <<active, seen, disk, at, signing>>
links == <<asked, up, met>>
bounds == <<signed, signs, faults>>

-----------------------------------------------------------------------------
(* Connections.                                                            *)

Version(n, p) == [kind |-> "version", from |-> n, to |-> p]

(* OpenNetworkConnection; the side that opens the connection speaks first. *)
Connect(e) ==
    /\ e \in Edge \ up
    /\ up' = up \cup {e}
    /\ net' = net \cup {Version(e[1], e[2])}
    /\ UNCHANGED <<now, asked, met, lost, sporks, bounds>>

Over(n, p, d) == <<n, p>> \in d \/ <<p, n>> \in d

(* What is left of the connections once those in d are closed, and of the  *)
(* packets.                                                                *)
Closed(d) ==
    /\ up' = up \ d
    /\ met' = {c \in met : ~ Over(c[1], c[2], d)}
    /\ net' = {k \in net : ~ Over(k.from, k.to, d)}

(* A connection fails, for both sides; what was on its way is lost.        *)
Disconnect(e) ==
    /\ faults < MaxFaults /\ e \in up
    /\ faults' = faults + 1
    /\ lost' = (lost \/ \E k \in net : Over(k.from, k.to, {e}) /\ k.kind # "version")
    /\ Closed({e})
    /\ UNCHANGED <<now, sporks, asked, signed, signs>>

(* VERSION: sporks are asked for while the database has no SPORK_14, and   *)
(* from the first peer in any case.                                        *)
Asks(n) == disk[n][MinProtocol] = NoSpork \/ ~ asked[n]

Request(n, p) == [kind |-> "getsporks", from |-> n, to |-> p]

(* An inbound connection is answered with a VERSION.                       *)
ReceiveVersion(n, k) ==
    /\ at[n] = Idle /\ k.to = n /\ k.kind = "version"
    /\ met' = met \cup {<<n, k.from>>}
    /\ asked' = [asked EXCEPT ![n] = @ \/ Asks(n)]
    /\ net' = (net \ {k}) \cup {q \in {Request(n, k.from)} : Asks(n)}
                           \cup {q \in {Version(n, k.from)} : <<k.from, n>> \in up}
    /\ UNCHANGED <<now, up, lost, sporks, bounds>>

(* The peers that do not hear what n announces now, have not asked n for   *)
(* its sporks and, when they are connected, need not.                      *)
Deaf(n) ==
    {p \in Node : /\ Over(n, p, Edge) /\ p \notin Peers(n)
                  /\ Request(p, n) \notin net
                  /\ ~ Asks(p) \/ (asked[p] /\ at[p] # Idle)}

-----------------------------------------------------------------------------
(* The message thread.  Packets other than VERSION wait for VERSION.       *)

Takes(n, k, kind) == at[n] = Idle /\ k.to = n /\ <<n, k.from>> \in met /\ k.kind = kind

Packed(n, p, m) == [kind |-> "spork", from |-> n, to |-> p, body |-> m]

(* A message being signed was announced, and may be missed here for good.  *)
ReceiveGetSporks(n, k) ==
    /\ Takes(n, k, "getsporks")
    /\ net' = (net \ {k}) \cup {Packed(n, k.from, m) : m \in Held(active[n])}
    /\ lost' = (lost \/ signing[n] # NoSpork)
    /\ UNCHANGED <<now, sporks, links, bounds>>

(* INV, AskFor and the GETDATA that SendMessages makes of it: mapSporks    *)
(* only grows, so its last look-up decides.                                *)
ReceiveInv(n, k) ==
    /\ Takes(n, k, "inv")
    /\ net' = (net \ {k}) \cup
              {q \in {[kind |-> "getdata", from |-> n, to |-> k.from, body |-> k.body]} :
                  k.body \notin seen[n]}
    /\ UNCHANGED <<now, lost, sporks, links, bounds>>

(* ProcessGetData: NOTFOUND is not acted upon.                             *)
ReceiveGetData(n, k) ==
    /\ Takes(n, k, "getdata")
    /\ net' = (net \ {k}) \cup {q \in {Packed(n, k.from, k.body)} : k.body \in seen[n]}
    /\ lost' = (lost \/ k.body \notin seen[n])
    /\ UNCHANGED <<now, sporks, links, bounds>>

(* A mutant: any message that was not seen yet is taken for an update.     *)
UpdatesUnseen(n, m) == m.time <= now + FutureLimit /\ m \notin seen[n]

(* The checks of ProcessSpork before the lock is released.                 *)
Updates(n, m) == m.time <= now + FutureLimit /\ m.time > Time(active[n][m.id])

Check(n, m, valid) ==
    at' = [at EXCEPT ![n] =
              IF Updates(n, m) THEN [step |-> "checked", spork |-> m, valid |-> valid] ELSE Idle]

(* What ProcessSpork drops unread changes nothing: in lite mode, of an     *)
(* unknown id, before there is a tip, of an old message version.           *)
ReceiveSpork(n, k) ==
    /\ Takes(n, k, "spork")
    /\ Check(n, k.body, TRUE)
    /\ net' = net \ {k}
    /\ UNCHANGED <<now, active, seen, disk, signing, lost, links, bounds>>

(* A message with a bad signature, from a peer that is not modelled.       *)
ReceiveStray(n, m) ==
    /\ at[n] = Idle
    /\ Check(n, m, FALSE)
    /\ UNCHANGED <<now, active, seen, disk, signing, net, lost, links, bounds>>

(* CheckSignature fails.                                                   *)
Refuse(n) ==
    /\ at[n].step = "checked" /\ ~ at[n].valid
    /\ at' = [at EXCEPT ![n] = Idle]
    /\ UNCHANGED <<now, active, seen, disk, signing, net, lost, links, bounds>>

(* The two maps of node n take message m.                                  *)
Stored(n, m) ==
    /\ seen' = [seen EXCEPT ![n] = @ \cup {m}]
    /\ active' = [active EXCEPT ![n][m.id] = m]

(* A mutant: the message is kept before its signature is looked at.        *)
AcceptUnchecked(n) ==
    /\ at[n].step = "checked"
    /\ Stored(n, at[n].spork)
    /\ net' = net \cup Announcements(n, at[n].spork)
    /\ at' = [at EXCEPT ![n].step = "stored"]
    /\ lost' = (lost \/ Deaf(n) # {})
    /\ UNCHANGED <<now, disk, signing, links, bounds>>

(* A mutant: a message that came from a peer is not announced again.       *)
AcceptQuietly(n) ==
    /\ at[n].step = "checked" /\ at[n].valid
    /\ Stored(n, at[n].spork)
    /\ at' = [at EXCEPT ![n].step = "stored"]
    /\ lost' = (lost \/ Deaf(n) # {})
    /\ UNCHANGED <<now, disk, signing, net, links, bounds>>

(* CheckSignature, the second lock, Relay.                                 *)
Accept(n) ==
    /\ at[n].step = "checked" /\ at[n].valid
    /\ Stored(n, at[n].spork)
    /\ net' = net \cup Announcements(n, at[n].spork)
    /\ at' = [at EXCEPT ![n].step = "stored"]
    /\ lost' = (lost \/ Deaf(n) # {})
    /\ UNCHANGED <<now, disk, signing, links, bounds>>

(* A mutant: only the first message of a spork is written.                 *)
WriteFirst(n) ==
    /\ at[n].step = "stored"
    /\ disk' = [disk EXCEPT ![n][at[n].spork.id] = IF @ = NoSpork THEN at[n].spork ELSE @]
    /\ at' = [at EXCEPT ![n] = Idle]
    /\ UNCHANGED <<now, active, seen, signing, net, lost, links, bounds>>

(* CSporkDB::WriteSpork, after which the thread serves its peers again.    *)
WriteSpork(n) ==
    /\ at[n].step = "stored"
    /\ disk' = [disk EXCEPT ![n][at[n].spork.id] = at[n].spork]
    /\ at' = [at EXCEPT ![n] = Idle]
    /\ UNCHANGED <<now, active, seen, signing, net, lost, links, bounds>>

-----------------------------------------------------------------------------
(* The operator's RPC thread, the clock and restarts.                      *)

(* UpdateSpork announces the message before the maps have it, and never    *)
(* writes it to the database.                                              *)
UpdateSpork(n, i, v) ==
    LET m == [id |-> i, value |-> v, time |-> now] IN
    /\ n \in Signer /\ signs < MaxSigns /\ signing[n] = NoSpork
    /\ signs' = signs + 1
    /\ signing' = [signing EXCEPT ![n] = m]
    /\ signed' = signed \cup {m}
    /\ net' = net \cup Announcements(n, m)
    /\ lost' = (lost \/ Deaf(n) # {})
    /\ UNCHANGED <<now, active, seen, disk, at, links, faults>>

StoreUpdate(n) ==
    /\ signing[n] # NoSpork
    /\ Stored(n, signing[n])
    /\ signing' = [signing EXCEPT ![n] = NoSpork]
    /\ UNCHANGED <<now, disk, at, net, lost, links, bounds>>

Tick ==
    /\ now < MaxTime
    /\ now' = now + 1
    /\ UNCHANGED <<net, lost, sporks, links, bounds>>

(* A crash, LoadSporksFromDB, and no connection yet.                       *)
Restart(n) ==
    /\ n \in Restartable /\ faults < MaxFaults
    /\ faults' = faults + 1
    /\ active' = [active EXCEPT ![n] = disk[n]]
    /\ seen' = [seen EXCEPT ![n] = Held(disk[n])]
    /\ at' = [at EXCEPT ![n] = Idle]
    /\ signing' = [signing EXCEPT ![n] = NoSpork]
    /\ asked' = [asked EXCEPT ![n] = FALSE]
    /\ Closed({e \in Edge : n \in {e[1], e[2]}})
    /\ UNCHANGED <<now, disk, signed, lost, signs>>

Handle(n) ==
    \E k \in {q \in net : q.to = n} :
        \/ ReceiveVersion(n, k)
        \/ ReceiveGetSporks(n, k)
        \/ ReceiveInv(n, k)
        \/ ReceiveGetData(n, k)
        \/ ReceiveSpork(n, k)

Next ==
    \/ Tick
    \/ \E e \in Edge : Connect(e) \/ Disconnect(e)
    \/ \E n \in Node :
        \/ Handle(n)
        \/ \E m \in Stray[n] : ReceiveStray(n, m)
        \/ Refuse(n)
        \/ Accept(n)
        \/ WriteSpork(n)
        \/ \E i \in Id, v \in Value : UpdateSpork(n, i, v)
        \/ StoreUpdate(n)
        \/ Restart(n)

Spec == Init /\ [][Next]_vars

(* The message thread serves every peer in turn, also while others keep it *)
(* busy; a command that has begun ends; connections are opened again.      *)
FairSpec ==
    /\ Spec
    /\ WF_vars(\E e \in Edge : Connect(e))
    /\ \A n \in Node : SF_vars(Handle(n)) /\ WF_vars(Refuse(n) \/ Accept(n) \/ WriteSpork(n))
    /\ \A n \in Signer : WF_vars(StoreUpdate(n))

-----------------------------------------------------------------------------
(* Every variable has its type, and a thread has a message exactly while   *)
(* it is inside ProcessSpork.                                              *)
TypeOK ==
    /\ now \in 0 .. MaxTime
    /\ active \in [Node -> [Id -> Message \cup {NoSpork}]]
    /\ disk \in [Node -> [Id -> Message \cup {NoSpork}]]
    /\ seen \in [Node -> SUBSET Message]
    /\ at \in [Node -> {Idle} \cup
                 [step : {"checked", "stored"}, spork : Message, valid : BOOLEAN]]
    /\ signing \in [Node -> Message \cup {NoSpork}]
    /\ asked \in [Node -> BOOLEAN]
    /\ up \subseteq Edge /\ met \subseteq Node \X Node
    /\ net \subseteq Packet
    /\ signed \subseteq Message /\ lost \in BOOLEAN
    /\ signs \in 0 .. MaxSigns /\ faults \in 0 .. MaxFaults

(* Whatever a node keeps, in memory or on disk, was signed with the spork  *)
(* key: a message is looked up, stored, announced and served by a hash     *)
(* that leaves its signature out.                                          *)
OnlySigned ==
    \A n \in Node : seen[n] \cup Held(active[n]) \cup Held(disk[n]) \subseteq signed

(* A node that does not sign has on disk, or has there something newer     *)
(* than, every spork it has on its way to a peer: what it told others it   *)
(* still knows after a crash, although memory is changed and announced     *)
(* before the database.                                                    *)
SavedBeforeServed ==
    \A n \in Node \ Signer : \A k \in net :
        k.kind = "spork" /\ k.from = n => k.body.time <= Time(disk[n][k.body.id])

(* On a node that does not sign, a spork in memory only ever gives way to  *)
(* one signed later, although ProcessSpork compares under one lock and     *)
(* stores under another; only a crash before the write takes one back.     *)
NeverOlder ==
    [][\A n \in Node \ Signer, i \in Id :
          active'[n][i] # active[n][i] =>
              \/ Time(active'[n][i]) > Time(active[n][i])
              \/ at[n].step = "stored" /\ at'[n] = Idle]_vars

(* No two different messages of a spork carry the same second.             *)
DistinctTimes ==
    \A x, y \in signed : x.id = y.id /\ x.time = y.time => x = y

(* Through a crash of a leaf, a disconnection anywhere and any order of    *)
(* delivery, all nodes come to give the same value to every spork, unless  *)
(* a disconnection cut off a packet on its way, an announcement was made   *)
(* to a peer that was cut off and that does not ask again (Deaf), a        *)
(* request overtook UpdateSpork, or two messages were signed in a second.  *)
Agreement ==
    <>[](~ lost /\ DistinctTimes =>
            \A n, p \in Node, i \in Id : GetSporkValue(n, i) = GetSporkValue(p, i))

=============================================================================
