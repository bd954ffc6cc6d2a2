---------------------------- MODULE SporkProofs -----------------------------
(***************************************************************************)
(* What a node may rely on about its own sporks, for any network, any      *)
(* number of ids, values and faults, and any messages with a bad           *)
(* signature: the order of what memory holds, and what the disk holds of   *)
(* it, on a node that does not sign; and that only signed messages are     *)
(* kept anywhere.                                                          *)
(***************************************************************************)
EXTENDS SporkManager, TLAPS

(* Most leaves are about sets, which Zenon is best at; where numbers count *)
(* the leaf cites SMT.                                                     *)
USE Zenon

Spork == Message \cup {NoSpork}

(* Every message is filed under its own id.                                *)
Map == {f \in [Id -> Spork] : \A i \in Id : f[i] # NoSpork => f[i].id = i}

Position == {Idle} \cup [step : {"checked", "stored"}, spork : Message, valid : BOOLEAN]

(* The types the argument needs.                                           *)
SporkType ==
    /\ now \in 0 .. MaxTime
    /\ active \in [Node -> Map]
    /\ disk \in [Node -> Map]
    /\ seen \in [Node -> SUBSET Message]
    /\ at \in [Node -> Position]
    /\ signing \in [Node -> Spork]
    /\ net \subseteq Packet

(* Memory and disk of a node that does not sign differ only between the    *)
(* store and the write, and then by the one message in hand, which is      *)
(* newer; a message that passed the check is newer than what memory holds. *)
InStep(n) ==
    /\ signing[n] = NoSpork
    /\ \A m \in seen[n] : m.time <= Time(active[n][m.id])
    /\ at[n].step \in {"idle", "checked"} => disk[n] = active[n]
    /\ at[n].step = "checked" => at[n].spork.time > Time(active[n][at[n].spork.id])
    /\ at[n].step = "stored" =>
          /\ active[n] = [disk[n] EXCEPT ![at[n].spork.id] = at[n].spork]
          /\ at[n].spork.time > Time(disk[n][at[n].spork.id])

Steps == \A n \in Node \ Signer : InStep(n)

Order == SporkType /\ Steps /\ SavedBeforeServed

(* What is in hand or on its way with a good signature was signed.         *)
Genuine ==
    /\ \A n \in Node :
        /\ at[n].step = "stored" \/ (at[n].step = "checked" /\ at[n].valid) => at[n].spork \in signed
        /\ signing[n] # NoSpork => signing[n] \in signed
    /\ \A k \in net : k.kind = "spork" => k.body \in signed

-----------------------------------------------------------------------------
(* Only packets that carry a spork have a body.                            *)
LEMMA Bodies ==
    ASSUME NEW k \in Packet
    PROVE  /\ k.from \in Node /\ k.to \in Node
           /\ k.kind \in {"inv", "getdata", "spork"} => k.body \in Message
  BY DEF Packet

LEMMA Announced ==
    ASSUME NEW n \in Node, NEW m \in Message
    PROVE  Announcements(n, m) \subseteq Packet
<1>1. ASSUME NEW p \in Node
      PROVE  [kind |-> "inv", from |-> n, to |-> p, body |-> m] \in Packet
  BY DEF Packet
<1> QED
  BY <1>1 DEF Announcements, Peers

LEMMA Positions ==
    ASSUME NEW x \in Position
    PROVE  /\ x.step \in {"idle", "checked", "stored"}
           /\ x.step = "idle" => x = Idle
           /\ x.step # "idle" => x.spork \in Message /\ x.valid \in BOOLEAN
  BY SMT DEF Position, Idle

LEMMA HeldMessages ==
    ASSUME NEW f \in Map, NEW m \in Held(f)
    PROVE  m \in Message /\ f[m.id] = m
  BY DEF Map, Spork, Held

LEMMA Times ==
    ASSUME NEW m \in Spork
    PROVE  /\ Time(m) \in Int /\ Time(m) >= -1
           /\ m \in Message => Time(m) = m.time /\ m.time \in Nat
  BY SMT, SporkAssumption DEF Spork, Message, Time

LEMMA MessageTimes ==
    ASSUME NEW m \in Message
    PROVE  Time(m) = m.time /\ m.time \in Nat
<1>1. m \in Spork
  BY DEF Spork
<1> QED
  BY <1>1, Times

(* Filing a message under its id.                                          *)
LEMMA Filed ==
    ASSUME NEW f \in Map, NEW m \in Message
    PROVE  /\ [f EXCEPT ![m.id] = m] \in Map
           /\ [f EXCEPT ![m.id] = m][m.id] = m
           /\ \A i \in Id \ {m.id} : [f EXCEPT ![m.id] = m][i] = f[i]
  BY SporkAssumption DEF Map, Spork, Message

LEMMA FiledAt ==
    ASSUME NEW f \in Map, NEW m \in Message
    PROVE  [f EXCEPT ![m.id] = m][m.id] = m
  BY Filed

-----------------------------------------------------------------------------
(* A step that leaves every manager alone and puts no spork on its way.    *)
Quiet ==
    /\ UNCHANGED sporks
    /\ now' \in 0 .. MaxTime
    /\ net' \subseteq Packet
    /\ \A k \in net' : k.kind = "spork" => k \in net

LEMMA QuietOrder == Order /\ Quiet => Order'
<1> SUFFICES ASSUME Order, Quiet PROVE Order'
  OBVIOUS
<1>1. SporkType'
  BY DEF Order, Quiet, SporkType, sporks
<1>2. Steps'
  BY DEF Order, Quiet, Steps, InStep, sporks
<1>3. SavedBeforeServed'
  BY DEF Order, Quiet, SavedBeforeServed, sporks
<1> QED
  BY <1>1, <1>2, <1>3 DEF Order

LEMMA QuietSteps ==
    ASSUME Order,
           \/ Tick
           \/ \E e \in Edge : Connect(e) \/ Disconnect(e)
           \/ \E n \in Node, k \in net : ReceiveVersion(n, k) \/ ReceiveInv(n, k)
    PROVE  Quiet
<1>1. CASE Tick
  BY SMT, <1>1, SporkAssumption DEF Order, SporkType, Tick, Quiet
<1>2. ASSUME NEW e \in Edge, Connect(e) PROVE Quiet
  <2>1. e[1] \in Node /\ e[2] \in Node
    BY SporkAssumption
  <2>2. Version(e[1], e[2]) \in Packet /\ Version(e[1], e[2]).kind # "spork"
    BY SMT, <2>1 DEF Version, Packet
  <2> QED
    BY <1>2, <2>2 DEF Order, SporkType, Connect, Quiet
<1>3. ASSUME NEW e \in Edge, Disconnect(e) PROVE Quiet
  BY <1>3 DEF Order, SporkType, Disconnect, Closed, Quiet
<1>4. ASSUME NEW n \in Node, NEW k \in net, ReceiveVersion(n, k) PROVE Quiet
  <2>1. k.from \in Node
    BY Bodies DEF Order, SporkType
  <2>2. Request(n, k.from) \in Packet /\ Version(n, k.from) \in Packet
    BY <2>1 DEF Request, Version, Packet
  <2>3. Request(n, k.from).kind # "spork" /\ Version(n, k.from).kind # "spork"
    BY SMT DEF Request, Version
  <2> QED
    BY <1>4, <2>2, <2>3 DEF Order, SporkType, ReceiveVersion, Quiet
<1>5. ASSUME NEW n \in Node, NEW k \in net, ReceiveInv(n, k) PROVE Quiet
  <2>1. [kind |-> "getdata", from |-> n, to |-> k.from, body |-> k.body] \in Packet
    BY <1>5, Bodies DEF Order, SporkType, ReceiveInv, Takes, Packet
  <2> QED
    BY SMT, <1>5, <2>1 DEF Order, SporkType, ReceiveInv, Quiet
<1> QED
  BY <1>1, <1>2, <1>3, <1>4, <1>5

-----------------------------------------------------------------------------
(* The message thread answers a peer while it is outside ProcessSpork.     *)
LEMMA ServeOrder ==
    ASSUME Order, NEW n \in Node, NEW k \in net,
           ReceiveGetSporks(n, k) \/ ReceiveGetData(n, k)
    PROVE  Order'
<1>1. UNCHANGED <<now, sporks>> /\ at[n] = Idle
  BY DEF ReceiveGetSporks, ReceiveGetData, Takes
<1>2. \A q \in net' \ net : \E m \in Message :
          /\ q = Packed(n, k.from, m)
          /\ m \in seen[n] \/ m \in Held(active[n])
  <2>1. CASE ReceiveGetSporks(n, k)
    BY <2>1, HeldMessages DEF Order, SporkType, ReceiveGetSporks
  <2>2. CASE ReceiveGetData(n, k)
    BY <2>2, Bodies DEF Order, SporkType, ReceiveGetData, Takes
  <2> QED
    BY <2>1, <2>2
<1>3. SporkType'
  <2>1. \A m \in Message : Packed(n, k.from, m) \in Packet
    BY Bodies DEF Order, SporkType, Packed, Packet
  <2>2. net' \subseteq Packet
    BY <1>2, <2>1 DEF Order, SporkType
  <2> QED
    BY <1>1, <2>2 DEF Order, SporkType, sporks
<1>4. Steps'
  BY <1>1 DEF Order, Steps, InStep, sporks
<1>5. SavedBeforeServed'
  <2> SUFFICES ASSUME NEW p \in Node \ Signer, NEW q \in net',
                      q.kind = "spork", q.from = p
               PROVE  q.body.time <= Time(disk[p][q.body.id])
    BY <1>1 DEF SavedBeforeServed, sporks
  <2>1. CASE q \in net
    BY <2>1 DEF Order, SavedBeforeServed
  <2>2. CASE q \notin net
    <3>1. PICK m \in Message : q = Packed(n, k.from, m) /\ (m \in seen[n] \/ m \in Held(active[n]))
      BY <2>2, <1>2
    <3>2. p = n /\ q.body = m
      BY <3>1 DEF Packed
    <3>3. disk[n] = active[n] /\ \A x \in seen[n] : x.time <= Time(active[n][x.id])
      <4>1. InStep(n)
        BY <3>2 DEF Order, Steps
      <4>2. at[n].step = "idle"
        BY SMT, <1>1 DEF Idle
      <4> QED
        BY <4>1, <4>2 DEF InStep
    <3>4. CASE m \in seen[n]
      BY <3>2, <3>3, <3>4
    <3>5. CASE m \in Held(active[n])
      <4>1. active[n][m.id] = m
        BY <3>5, HeldMessages DEF Order, SporkType
      <4>2. Time(m) = m.time /\ m.time \in Nat
        BY Times DEF Spork
      <4> QED
        BY SMT, <3>2, <3>3, <4>1, <4>2
    <3> QED
      BY <3>1, <3>4, <3>5
  <2> QED
    BY <2>1, <2>2
<1> QED
  BY <1>3, <1>4, <1>5 DEF Order

(* The first half of ProcessSpork, and a signature that does not match.    *)
LEMMA CheckOrder ==
    ASSUME Order, NEW n \in Node, net' \subseteq net,
           UNCHANGED <<now, active, seen, disk, signing>>,
           \/ /\ at[n] = Idle
              /\ \E m \in Message, v \in BOOLEAN : Check(n, m, v)
           \/ at[n].step = "checked" /\ at' = [at EXCEPT ![n] = Idle]
    PROVE  Order'
<1>1. SporkType'
  BY SMT DEF Order, SporkType, Check, Position
<1>2. Steps'
  <2> SUFFICES ASSUME NEW p \in Node \ Signer PROVE InStep(p)'
    BY DEF Steps
  <2>1. InStep(p)
    BY DEF Order, Steps
  <2>2. CASE p # n
    <3>1. at'[p] = at[p]
      BY <2>2 DEF Order, SporkType, Check
    <3> QED
      BY <2>1, <3>1 DEF InStep
  <2>3. CASE p = n
    <3>1. at[n].step \in {"idle", "checked"}
      BY SMT DEF Idle
    <3>2. \/ at'[n] = Idle
          \/ \E m \in Message, v \in BOOLEAN :
                at'[n] = [step |-> "checked", spork |-> m, valid |-> v] /\ Updates(n, m)
      BY DEF Order, SporkType, Check
    <3>3. CASE at'[n] = Idle
      <4>1. at'[n].step = "idle"
        BY SMT, <3>3 DEF Idle
      <4> QED
        BY <2>1, <2>3, <3>1, <4>1 DEF InStep
    <3>4. ASSUME NEW m \in Message, NEW v \in BOOLEAN, Updates(n, m),
                 at'[n] = [step |-> "checked", spork |-> m, valid |-> v]
          PROVE  InStep(n)'
      <4>1. at'[n].step = "checked" /\ at'[n].spork = m
        BY SMT, <3>4
      <4>2. m.time > Time(active'[n][m.id])
        BY <3>4 DEF Updates
      <4> QED
        BY <2>1, <2>3, <3>1, <4>1, <4>2 DEF InStep
    <3> QED
      BY <2>3, <3>2, <3>3, <3>4
  <2> QED
    BY <2>2, <2>3
<1>3. SavedBeforeServed'
  BY DEF Order, SavedBeforeServed
<1> QED
  BY <1>1, <1>2, <1>3 DEF Order

(* The second half: the maps take a message that is newer than theirs.     *)
LEMMA AcceptOrder ==
    ASSUME Order, NEW n \in Node, Accept(n)
    PROVE  Order'
<1> DEFINE m == at[n].spork
<1>1. at[n].step = "checked" /\ m \in Message
  <2>1. at[n] \in Position
    BY DEF Order, SporkType
  <2> QED
    BY <2>1, Positions DEF Accept
<1>2. active[n] \in Map /\ disk[n] \in Map
  BY DEF Order, SporkType
<1>3. SporkType'
  <2>1. active' \in [Node -> Map]
    <3>1. active' = [active EXCEPT ![n] = [active[n] EXCEPT ![m.id] = m]]
      BY DEF Accept, Stored
    <3>2. [active[n] EXCEPT ![m.id] = m] \in Map
      BY <1>1, <1>2, Filed
    <3> QED
      BY <3>1, <3>2 DEF Order, SporkType
  <2>2. seen' \in [Node -> SUBSET Message]
    BY <1>1 DEF Order, SporkType, Accept, Stored
  <2>3. at' \in [Node -> Position]
    <3>1. [at[n] EXCEPT !.step = "stored"] \in Position
      <4>1. at[n] \in [step : {"checked", "stored"}, spork : Message, valid : BOOLEAN]
        BY SMT, <1>1 DEF Order, SporkType, Position, Idle
      <4> QED
        BY <4>1 DEF Position
    <3> QED
      BY <3>1 DEF Order, SporkType, Accept
  <2>4. net' \subseteq Packet
    <3>1. Announcements(n, m) \subseteq Packet
      BY <1>1, Announced
    <3> QED
      BY <3>1 DEF Order, SporkType, Accept
  <2> QED
    BY <2>1, <2>2, <2>3, <2>4 DEF Order, SporkType, Accept
<1>4. Steps'
  <2> SUFFICES ASSUME NEW p \in Node \ Signer PROVE InStep(p)'
    BY DEF Steps
  <2>1. InStep(p) /\ UNCHANGED <<disk, signing>>
    BY DEF Order, Steps, Accept
  <2>2. CASE p # n
    <3>1. at'[p] = at[p] /\ active'[p] = active[p] /\ seen'[p] = seen[p]
      BY <2>2 DEF Order, SporkType, Accept, Stored
    <3> QED
      BY <2>1, <3>1 DEF InStep
  <2>3. CASE p = n
    <3>1. at'[n].step = "stored" /\ at'[n].spork = m
      BY SMT, <1>1 DEF Order, SporkType, Accept, Position, Idle
    <3>2. disk[n] = active[n] /\ m.time > Time(active[n][m.id])
      BY <1>1, <2>1, <2>3 DEF InStep
    <3>3. active'[n] = [active[n] EXCEPT ![m.id] = m]
      BY DEF Order, SporkType, Accept, Stored
    <3>4. \A x \in seen'[n] : x.time <= Time(active'[n][x.id])
      <4> SUFFICES ASSUME NEW x \in seen'[n] PROVE x.time <= Time(active'[n][x.id])
        OBVIOUS
      <4>1. seen'[n] = seen[n] \cup {m} /\ seen[n] \subseteq Message
        BY DEF Order, SporkType, Accept, Stored
      <4>2. x \in Message /\ x.id \in Id /\ x.time \in Nat /\ m.time \in Nat
        BY SMT, <1>1, <4>1, SporkAssumption DEF Message
      <4>3. active'[n][m.id] = m /\ Time(m) = m.time
        <5>1. [active[n] EXCEPT ![m.id] = m][m.id] = m
          BY <1>1, <1>2, FiledAt
        <5>2. Time(m) = m.time
          BY <1>1, MessageTimes
        <5> QED
          BY <3>3, <5>1, <5>2
      <4>4. CASE x.id # m.id
        <5>1. active'[n][x.id] = active[n][x.id] /\ x \in seen[n]
          BY SMT, <1>1, <1>2, <3>3, <4>1, <4>2, <4>4, Filed
        <5> QED
          BY <2>1, <2>3, <5>1 DEF InStep
      <4>5. CASE x.id = m.id /\ x # m
        <5>1. x.time <= Time(active[n][x.id])
          BY <2>1, <2>3, <4>1, <4>5 DEF InStep
        <5>2. Time(active[n][x.id]) \in Int
          BY <1>2, <4>2, Times DEF Map
        <5> QED
          BY SMT, <3>2, <4>2, <4>3, <4>5, <5>1, <5>2
      <4>6. CASE x = m
        BY SMT, <4>2, <4>3, <4>6
      <4> QED
        BY <4>4, <4>5, <4>6
    <3> QED
      BY <2>1, <2>3, <3>1, <3>2, <3>3, <3>4 DEF InStep
  <2> QED
    BY <2>2, <2>3
<1>5. SavedBeforeServed'
  <2>1. \A k \in net' : k.kind = "spork" => k \in net
    BY SMT DEF Accept, Announcements
  <2> QED
    BY <2>1 DEF Order, SavedBeforeServed, Accept
<1> QED
  BY <1>3, <1>4, <1>5 DEF Order

(* The write only ever moves a spork on disk forward.                      *)
LEMMA WriteOrder ==
    ASSUME Order, NEW n \in Node, WriteSpork(n)
    PROVE  Order'
<1> DEFINE m == at[n].spork
<1>1. at[n].step = "stored" /\ m \in Message
  <2>1. at[n] \in Position
    BY DEF Order, SporkType
  <2> QED
    BY <2>1, Positions DEF WriteSpork
<1>2. disk[n] \in Map /\ disk'[n] = [disk[n] EXCEPT ![m.id] = m] /\ UNCHANGED <<active, seen, signing, net>>
  BY DEF Order, SporkType, WriteSpork
<1>3. SporkType'
  <2>1. disk' = [disk EXCEPT ![n] = [disk[n] EXCEPT ![m.id] = m]]
    BY DEF WriteSpork
  <2>2. disk' \in [Node -> Map]
    <3>1. [disk[n] EXCEPT ![m.id] = m] \in Map
      BY <1>1, <1>2, Filed
    <3> QED
      BY <2>1, <3>1 DEF Order, SporkType
  <2>3. at' \in [Node -> Position]
    BY DEF Order, SporkType, WriteSpork, Position
  <2> QED
    BY <2>2, <2>3 DEF Order, SporkType, WriteSpork
<1>4. \A p \in Node : p # n => disk'[p] = disk[p] /\ at'[p] = at[p]
  BY DEF Order, SporkType, WriteSpork
<1>5. Steps'
  <2> SUFFICES ASSUME NEW p \in Node \ Signer PROVE InStep(p)'
    BY DEF Steps
  <2>1. InStep(p)
    BY DEF Order, Steps
  <2>2. CASE p # n
    BY <1>2, <1>4, <2>1, <2>2 DEF InStep
  <2>3. CASE p = n
    <3>1. at'[n].step = "idle"
      BY DEF Order, SporkType, WriteSpork, Idle
    <3>2. disk'[n] = active'[n]
      BY <1>1, <1>2, <2>1, <2>3 DEF InStep
    <3> QED
      BY <1>2, <2>1, <2>3, <3>1, <3>2 DEF InStep
  <2> QED
    BY <2>2, <2>3
<1>6. SavedBeforeServed'
  <2> SUFFICES ASSUME NEW p \in Node \ Signer, NEW k \in net, k.kind = "spork", k.from = p
               PROVE  k.body.time <= Time(disk'[p][k.body.id])
    BY <1>2 DEF SavedBeforeServed
  <2>1. k.body.time <= Time(disk[p][k.body.id])
    BY DEF Order, SavedBeforeServed
  <2>2. CASE p # n
    BY <1>4, <2>1, <2>2
  <2>3. CASE p = n /\ k.body.id # m.id
    <3>1. k.body.id \in Id
      BY Bodies DEF Order, SporkType, Message
    <3>2. disk'[n][k.body.id] = disk[n][k.body.id]
      BY SMT, <1>1, <1>2, <2>3, <3>1, Filed
    <3> QED
      BY <2>1, <2>3, <3>2
  <2>4. CASE p = n /\ k.body.id = m.id
    <3>1. m.time > Time(disk[n][m.id])
      BY <1>1, <2>4 DEF Order, Steps, InStep
    <3>2. disk'[n][m.id] = m /\ Time(m) = m.time /\ m.time \in Nat
      <4>1. [disk[n] EXCEPT ![m.id] = m][m.id] = m
        BY <1>1, <1>2, FiledAt
      <4>2. Time(m) = m.time /\ m.time \in Nat
        BY <1>1, MessageTimes
      <4> QED
        BY <1>2, <4>1, <4>2
    <3>3. k.body.time \in Nat
      BY SMT, Bodies DEF Order, SporkType, Message
    <3>4. Time(disk[n][m.id]) \in Int
      BY <1>1, <1>2, Times DEF Map, Message
    <3> QED
      BY SMT, <2>1, <2>4, <3>1, <3>2, <3>3, <3>4
  <2> QED
    BY <2>2, <2>3, <2>4
<1> QED
  BY <1>3, <1>5, <1>6 DEF Order

(* The operator's commands run on nodes that sign.                         *)
LEMMA UpdateOrder ==
    ASSUME Order, NEW n \in Node, NEW i \in Id, NEW v \in Value, UpdateSpork(n, i, v)
    PROVE  Order'
<1> DEFINE m == [id |-> i, value |-> v, time |-> now]
<1>1. m \in Message
  BY DEF Order, SporkType, Message
<1>2. /\ n \in Signer /\ signing' = [signing EXCEPT ![n] = m]
      /\ net' = net \cup Announcements(n, m)
      /\ UNCHANGED <<now, active, seen, disk, at>>
  BY DEF UpdateSpork
<1> HIDE DEF m
<1>3. SporkType'
  BY <1>1, <1>2, Announced DEF Order, SporkType, Spork
<1>4. Steps'
  <2>1. \A p \in Node \ Signer : signing'[p] = signing[p]
    BY <1>2 DEF Order, SporkType
  <2> QED
    BY <1>2, <2>1 DEF Order, Steps, InStep
<1>5. SavedBeforeServed'
  <2>1. \A k \in net' : k.kind = "spork" => k \in net
    BY SMT, <1>2 DEF Announcements
  <2> QED
    BY <1>2, <2>1 DEF Order, SavedBeforeServed
<1> QED
  BY <1>3, <1>4, <1>5 DEF Order

LEMMA StoreSigner ==
    ASSUME Order, NEW n \in Node, StoreUpdate(n)
    PROVE  n \in Signer
  BY DEF Order, Steps, InStep, StoreUpdate

LEMMA StoreOrder ==
    ASSUME Order, NEW n \in Node, StoreUpdate(n)
    PROVE  Order'
<1> DEFINE m == signing[n]
<1>1. m \in Message /\ n \in Signer
  BY StoreSigner DEF Order, SporkType, Spork, StoreUpdate
<1>2. /\ seen' = [seen EXCEPT ![n] = @ \cup {m}]
      /\ active' = [active EXCEPT ![n] = [active[n] EXCEPT ![m.id] = m]]
      /\ signing' = [signing EXCEPT ![n] = NoSpork]
      /\ UNCHANGED <<now, disk, at, net>>
  BY DEF StoreUpdate, Stored
<1> HIDE DEF m
<1>3. SporkType'
  <2>1. active' \in [Node -> Map]
    <3>1. [active[n] EXCEPT ![m.id] = m] \in Map
      BY <1>1, Filed DEF Order, SporkType
    <3> QED
      BY <1>2, <3>1 DEF Order, SporkType
  <2> QED
    BY <1>1, <1>2, <2>1 DEF Order, SporkType, Spork
<1>4. Steps'
  <2>1. \A p \in Node \ Signer :
            signing'[p] = signing[p] /\ active'[p] = active[p] /\ seen'[p] = seen[p]
    BY <1>1, <1>2 DEF Order, SporkType
  <2> QED
    BY ZenonT(30), <1>2, <2>1 DEF Order, Steps, InStep
<1>5. SavedBeforeServed'
  BY <1>2 DEF Order, SavedBeforeServed
<1> QED
  BY <1>3, <1>4, <1>5 DEF Order

(* A restart takes memory back to the disk.                                *)
LEMMA RestartOrder ==
    ASSUME Order, NEW n \in Node, Restart(n)
    PROVE  Order'
<1>1. /\ active' = [active EXCEPT ![n] = disk[n]]
      /\ seen' = [seen EXCEPT ![n] = Held(disk[n])]
      /\ at' = [at EXCEPT ![n] = Idle]
      /\ signing' = [signing EXCEPT ![n] = NoSpork]
      /\ net' \subseteq net /\ UNCHANGED <<now, disk>>
  BY DEF Restart, Closed
<1>2. disk[n] \in Map /\ \A x \in Held(disk[n]) : x \in Message /\ disk[n][x.id] = x
  BY HeldMessages DEF Order, SporkType
<1>3. SporkType'
  BY <1>1, <1>2 DEF Order, SporkType, Spork, Position
<1>4. Steps'
  <2> SUFFICES ASSUME NEW p \in Node \ Signer PROVE InStep(p)'
    BY DEF Steps
  <2>1. CASE p # n
    <3>1. at'[p] = at[p] /\ active'[p] = active[p] /\ seen'[p] = seen[p] /\ signing'[p] = signing[p]
      BY <1>1, <2>1 DEF Order, SporkType
    <3> QED
      BY <1>1, <3>1 DEF Order, Steps, InStep
  <2>2. CASE p = n
    <3>1. /\ active'[n] = disk[n] /\ disk'[n] = disk[n] /\ signing'[n] = NoSpork
          /\ seen'[n] = Held(disk[n]) /\ at'[n] = Idle
      BY <1>1 DEF Order, SporkType
    <3>2. at'[n].step = "idle"
      BY SMT, <3>1 DEF Idle
    <3>3. \A x \in Held(disk[n]) : x.time <= Time(disk[n][x.id])
      <4> SUFFICES ASSUME NEW x \in Held(disk[n]) PROVE x.time <= Time(disk[n][x.id])
        OBVIOUS
      <4>1. Time(x) = x.time /\ x.time \in Nat
        BY <1>2, Times DEF Spork
      <4> QED
        BY SMT, <1>2, <4>1
    <3> QED
      BY <2>2, <3>1, <3>2, <3>3 DEF InStep
  <2> QED
    BY <2>1, <2>2
<1>5. SavedBeforeServed'
  BY <1>1 DEF Order, SavedBeforeServed
<1> QED
  BY <1>3, <1>4, <1>5 DEF Order

-----------------------------------------------------------------------------
LEMMA OrderInit == Init => Order
<1> SUFFICES ASSUME Init PROVE Order
  OBVIOUS
<1>1. SporkType
  BY SMT, SporkAssumption DEF Init, SporkType, Map, Spork, Position
<1>2. Steps
  BY DEF Init, Steps, InStep, Idle
<1>3. SavedBeforeServed
  BY DEF Init, SavedBeforeServed
<1> QED
  BY <1>1, <1>2, <1>3 DEF Order

(* The steps of the thread that leave the maps alone.                      *)
LEMMA ThreadOrder ==
    ASSUME Order, NEW n \in Node,
           \/ \E k \in net : ReceiveSpork(n, k)
           \/ \E m \in Stray[n] : ReceiveStray(n, m)
           \/ Refuse(n)
    PROVE  Order'
<1>1. ASSUME NEW k \in net, ReceiveSpork(n, k) PROVE Order'
  <2>1. k.body \in Message
    BY <1>1, Bodies DEF Order, SporkType, ReceiveSpork, Takes
  <2>2. at[n] = Idle /\ Check(n, k.body, TRUE) /\ net' \subseteq net
    BY <1>1 DEF ReceiveSpork, Takes
  <2>3. UNCHANGED <<now, active, seen, disk, signing>>
    BY <1>1 DEF ReceiveSpork
  <2> QED
    BY <2>1, <2>2, <2>3, CheckOrder
<1>2. ASSUME NEW m \in Stray[n], ReceiveStray(n, m) PROVE Order'
  <2>1. m \in Message
    BY SporkAssumption
  <2>2. at[n] = Idle /\ Check(n, m, FALSE) /\ net' \subseteq net
    BY <1>2 DEF ReceiveStray
  <2>3. UNCHANGED <<now, active, seen, disk, signing>>
    BY <1>2 DEF ReceiveStray
  <2> QED
    BY <2>1, <2>2, <2>3, CheckOrder
<1>3. ASSUME Refuse(n) PROVE Order'
  <2>1. at[n].step = "checked" /\ at' = [at EXCEPT ![n] = Idle] /\ net' \subseteq net
    BY <1>3 DEF Refuse
  <2>2. UNCHANGED <<now, active, seen, disk, signing>>
    BY <1>3 DEF Refuse
  <2> QED
    BY <2>1, <2>2, CheckOrder
<1> QED
  BY <1>1, <1>2, <1>3

LEMMA OrderNext == Order /\ [Next]_vars => Order'
<1> SUFFICES ASSUME Order, [Next]_vars PROVE Order'
  OBVIOUS
<1>1. CASE UNCHANGED vars
  <2>1. Quiet
    BY <1>1 DEF vars, Quiet, sporks, Order, SporkType
  <2> QED
    BY <2>1, QuietOrder
<1>2. CASE Tick \/ \E e \in Edge : Connect(e) \/ Disconnect(e)
  BY <1>2, QuietSteps, QuietOrder
<1>3. ASSUME NEW n \in Node, Handle(n) PROVE Order'
  <2> PICK k \in net : \/ ReceiveVersion(n, k)
                       \/ ReceiveGetSporks(n, k)
                       \/ ReceiveInv(n, k)
                       \/ ReceiveGetData(n, k)
                       \/ ReceiveSpork(n, k)
    BY <1>3 DEF Handle
  <2>1. CASE ReceiveVersion(n, k) \/ ReceiveInv(n, k)
    BY <2>1, QuietSteps, QuietOrder
  <2>2. CASE ReceiveGetSporks(n, k) \/ ReceiveGetData(n, k)
    BY <2>2, ServeOrder
  <2>3. CASE ReceiveSpork(n, k)
    BY <2>3, ThreadOrder
  <2> QED
    BY <2>1, <2>2, <2>3
<1>4. ASSUME NEW n \in Node, (\E m \in Stray[n] : ReceiveStray(n, m)) \/ Refuse(n) PROVE Order'
  BY <1>4, ThreadOrder
<1>5. ASSUME NEW n \in Node, Accept(n) PROVE Order'
  BY <1>5, AcceptOrder
<1>6. ASSUME NEW n \in Node, WriteSpork(n) PROVE Order'
  BY <1>6, WriteOrder
<1>7. ASSUME NEW n \in Node, NEW i \in Id, NEW v \in Value, UpdateSpork(n, i, v) PROVE Order'
  BY <1>7, UpdateOrder
<1>8. ASSUME NEW n \in Node, StoreUpdate(n) PROVE Order'
  BY <1>8, StoreOrder
<1>9. ASSUME NEW n \in Node, Restart(n) PROVE Order'
  BY <1>9, RestartOrder
<1> QED
  BY <1>1, <1>2, <1>3, <1>4, <1>5, <1>6, <1>7, <1>8, <1>9 DEF Next

LEMMA OrderHolds == Spec => []Order
  BY OrderInit, OrderNext, PTL DEF Spec

(* What a node that does not sign has on its way to a peer is on its disk, *)
(* or something newer is.                                                  *)
THEOREM AlwaysSavedBeforeServed == Spec => []SavedBeforeServed
<1>1. Order => SavedBeforeServed
  BY DEF Order
<1> QED
  BY <1>1, OrderHolds, PTL

(* What a step does to the memory of the nodes that do not sign.           *)
Forward ==
    \A n \in Node \ Signer, i \in Id :
        active'[n][i] # active[n][i] =>
            \/ Time(active'[n][i]) > Time(active[n][i])
            \/ at[n].step = "stored" /\ at'[n] = Idle

LEMMA StepForward == Order /\ [Next]_vars => Forward
<1> SUFFICES ASSUME Order, [Next]_vars PROVE Forward
  OBVIOUS
<1>1. ASSUME UNCHANGED active PROVE Forward
  BY <1>1 DEF Forward
<1>2. ASSUME NEW n \in Node, Accept(n) PROVE Forward
  <2> SUFFICES ASSUME NEW p \in Node \ Signer, NEW i \in Id, active'[p][i] # active[p][i]
               PROVE  Time(active'[p][i]) > Time(active[p][i])
    BY DEF Forward
  <2> DEFINE m == at[n].spork
  <2>1. active[n] \in Map /\ active' = [active EXCEPT ![n] = [active[n] EXCEPT ![m.id] = m]]
    BY <1>2 DEF Order, SporkType, Accept, Stored
  <2>2. at[n].step = "checked" /\ m \in Message
    <3>1. at[n] \in Position
      BY DEF Order, SporkType
    <3> QED
      BY <1>2, <3>1, Positions DEF Accept
  <2>3. p = n
    BY <2>1 DEF Order, SporkType
  <2>4. active'[n] = [active[n] EXCEPT ![m.id] = m]
    BY <2>1 DEF Order, SporkType
  <2>5. i = m.id /\ active'[n][i] = m /\ Time(m) = m.time
    BY SMT, <2>1, <2>2, <2>3, <2>4, Filed, Times DEF Spork
  <2>6. m.time > Time(active[n][m.id])
    BY <2>2, <2>3 DEF Order, Steps, InStep
  <2> QED
    BY <2>3, <2>5, <2>6
<1>3. ASSUME NEW n \in Node, StoreUpdate(n) PROVE Forward
  <2>1. n \in Signer
    BY <1>3, StoreSigner
  <2>2. \A p \in Node \ Signer : active'[p] = active[p]
    BY <1>3, <2>1 DEF Order, SporkType, StoreUpdate, Stored
  <2> QED
    BY <2>2 DEF Forward
<1>4. ASSUME NEW n \in Node, Restart(n) PROVE Forward
  <2> SUFFICES ASSUME NEW p \in Node \ Signer, NEW i \in Id, active'[p][i] # active[p][i]
               PROVE  at[p].step = "stored" /\ at'[p] = Idle
    BY DEF Forward
  <2>1. p = n /\ active'[n] = disk[n] /\ at'[n] = Idle
    BY <1>4 DEF Order, SporkType, Restart
  <2>2. at[n].step \in {"idle", "checked"} => disk[n] = active[n]
    BY <2>1 DEF Order, Steps, InStep
  <2>3. at[n].step \in {"idle", "checked", "stored"}
    BY Positions DEF Order, SporkType
  <2> QED
    BY <2>1, <2>2, <2>3
<1>5. ASSUME NEW n \in Node, Handle(n) PROVE UNCHANGED active
  BY <1>5 DEF Handle, ReceiveVersion, ReceiveGetSporks, ReceiveInv, ReceiveGetData,
              ReceiveSpork, sporks
<1>6. ASSUME NEW n \in Node, \/ \E m \in Stray[n] : ReceiveStray(n, m)
                             \/ Refuse(n)
                             \/ WriteSpork(n)
                             \/ \E i \in Id, v \in Value : UpdateSpork(n, i, v)
      PROVE  UNCHANGED active
  BY <1>6 DEF ReceiveStray, Refuse, WriteSpork, UpdateSpork
<1>7. ASSUME Tick \/ (\E e \in Edge : Connect(e) \/ Disconnect(e)) \/ UNCHANGED vars
      PROVE  UNCHANGED active
  BY <1>7 DEF Tick, Connect, Disconnect, vars, sporks
<1> QED
  BY <1>1, <1>2, <1>3, <1>4, <1>5, <1>6, <1>7 DEF Next

(* On a node that does not sign a spork in memory gives way only to one    *)
(* signed later, but for a crash between its store and its write.          *)
THEOREM NeverOlderHolds == Spec => NeverOlder
<1>1. Order /\ [Next]_vars => [Forward]_vars
  BY StepForward
<1> QED
  BY <1>1, OrderHolds, PTL DEF Spec, NeverOlder, Forward

-----------------------------------------------------------------------------
(* The inductive form of OnlySigned.                                       *)
Trusted == Order /\ OnlySigned /\ Genuine

LEMMA TrustedInit == Init => Trusted
<1> SUFFICES ASSUME Init PROVE Trusted
  OBVIOUS
<1>1. OnlySigned
  BY DEF Init, OnlySigned, Held
<1>2. Genuine
  BY DEF Init, Genuine, Idle
<1> QED
  BY <1>1, <1>2, OrderInit DEF Trusted

(* What a thread has in hand, if it counts as signed, was signed.          *)
InHand(x, set) ==
    x.step = "stored" \/ (x.step = "checked" /\ x.valid) => x.spork \in set

LEMMA KeptTrust ==
    ASSUME Trusted, signed \subseteq signed', UNCHANGED <<active, seen, disk>>,
           \A n \in Node : InHand(at'[n], signed'),
           \A n \in Node : signing'[n] # NoSpork => signing'[n] \in signed',
           \A k \in net' : k.kind = "spork" => k.body \in signed'
    PROVE  OnlySigned' /\ Genuine'
<1>1. OnlySigned'
  BY DEF Trusted, OnlySigned, Held
<1>2. Genuine'
  BY DEF Genuine, InHand
<1> QED
  BY <1>1, <1>2

(* Packets, connections and the clock.                                     *)
LEMMA PassiveTrust ==
    ASSUME Trusted, UNCHANGED sporks, signed' = signed,
           \A k \in net' \ net : k.kind = "spork" => k.body \in signed
    PROVE  OnlySigned' /\ Genuine'
<1>1. \A n \in Node : InHand(at'[n], signed')
  BY DEF Trusted, Genuine, InHand, sporks
<1>2. \A n \in Node : signing'[n] # NoSpork => signing'[n] \in signed'
  BY DEF Trusted, Genuine, sporks
<1>3. \A k \in net' : k.kind = "spork" => k.body \in signed'
  BY DEF Trusted, Genuine
<1>4. UNCHANGED <<active, seen, disk>>
  BY DEF sporks
<1> QED
  BY <1>1, <1>2, <1>3, <1>4, KeptTrust

(* A thread takes or drops a message.                                      *)
LEMMA ThreadTrust ==
    ASSUME Trusted, NEW n \in Node, NEW x, at' = [at EXCEPT ![n] = x], InHand(x, signed),
           UNCHANGED <<active, seen, disk, signing, signed>>, net' \subseteq net
    PROVE  OnlySigned' /\ Genuine'
<1>1. \A p \in Node : InHand(at'[p], signed')
  BY DEF Trusted, Order, SporkType, Genuine, InHand
<1>2. \A p \in Node : signing'[p] # NoSpork => signing'[p] \in signed'
  BY DEF Trusted, Genuine
<1>3. \A k \in net' : k.kind = "spork" => k.body \in signed'
  BY DEF Trusted, Genuine
<1> QED
  BY <1>1, <1>2, <1>3, KeptTrust

(* A message that was signed is filed in the maps of a node.               *)
LEMMA FiledTrust ==
    ASSUME Trusted, NEW n \in Node, NEW m \in Message, m \in signed, Stored(n, m)
    PROVE  \A p \in Node : seen'[p] \cup Held(active'[p]) \subseteq signed
<1> SUFFICES ASSUME NEW p \in Node PROVE seen'[p] \cup Held(active'[p]) \subseteq signed
  OBVIOUS
<1>1. seen'[p] \subseteq signed
  BY DEF Trusted, Order, SporkType, OnlySigned, Stored
<1>2. Held(active'[p]) \subseteq signed
  <2>1. \A i \in Id : active'[p][i] \in {active[p][i], m}
    BY DEF Trusted, Order, SporkType, Map, Stored
  <2> QED
    BY <2>1 DEF Trusted, OnlySigned, Held
<1> QED
  BY <1>1, <1>2

LEMMA TrustedNext == Trusted /\ [Next]_vars => Trusted'
<1> SUFFICES ASSUME Trusted, [Next]_vars PROVE OnlySigned' /\ Genuine'
  BY OrderNext DEF Trusted
<1>1. CASE \/ UNCHANGED vars
           \/ Tick
           \/ \E e \in Edge : Connect(e) \/ Disconnect(e)
           \/ \E n \in Node, k \in net : ReceiveVersion(n, k) \/ ReceiveInv(n, k)
  <2>1. Quiet
    <3>1. CASE UNCHANGED vars
      BY <3>1 DEF vars, Quiet, sporks, Trusted, Order, SporkType
    <3> QED
      BY <1>1, <3>1, QuietSteps DEF Trusted
  <2>2. signed' = signed
    BY <1>1 DEF vars, Tick, Connect, Disconnect, ReceiveVersion, ReceiveInv, bounds
  <2>3. UNCHANGED sporks /\ \A k \in net' \ net : k.kind # "spork"
    BY <2>1 DEF Quiet
  <2> QED
    BY <2>2, <2>3, PassiveTrust
<1>2. ASSUME NEW n \in Node, NEW k \in net, ReceiveGetSporks(n, k) \/ ReceiveGetData(n, k)
      PROVE  OnlySigned' /\ Genuine'
  <2>1. UNCHANGED sporks /\ signed' = signed
    BY <1>2 DEF ReceiveGetSporks, ReceiveGetData, bounds
  <2>2. \A q \in net' \ net : q.body \in seen[n] \cup Held(active[n])
    BY SMT, <1>2 DEF ReceiveGetSporks, ReceiveGetData, Packed
  <2>3. \A q \in net' \ net : q.body \in signed
    BY <2>2 DEF Trusted, OnlySigned
  <2> QED
    BY <2>1, <2>3, PassiveTrust
<1>3. ASSUME NEW n \in Node, NEW k \in net, ReceiveSpork(n, k) PROVE OnlySigned' /\ Genuine'
  <2> DEFINE x == IF Updates(n, k.body) THEN [step |-> "checked", spork |-> k.body, valid |-> TRUE]
                  ELSE Idle
  <2>1. k.body \in signed
    BY <1>3 DEF Trusted, Genuine, ReceiveSpork, Takes
  <2>2. InHand(x, signed)
    BY <2>1 DEF InHand, Idle
  <2>3. /\ at' = [at EXCEPT ![n] = x] /\ net' \subseteq net
        /\ UNCHANGED <<active, seen, disk, signing, signed>>
    BY <1>3 DEF ReceiveSpork, Check, bounds
  <2> HIDE DEF x
  <2> QED
    BY <2>2, <2>3, ThreadTrust
<1>4. ASSUME NEW n \in Node, NEW m \in Stray[n], ReceiveStray(n, m) PROVE OnlySigned' /\ Genuine'
  <2> DEFINE x == IF Updates(n, m) THEN [step |-> "checked", spork |-> m, valid |-> FALSE]
                  ELSE Idle
  <2>1. InHand(x, signed)
    BY DEF InHand, Idle
  <2>2. /\ at' = [at EXCEPT ![n] = x] /\ net' \subseteq net
        /\ UNCHANGED <<active, seen, disk, signing, signed>>
    BY <1>4 DEF ReceiveStray, Check, bounds
  <2> HIDE DEF x
  <2> QED
    BY <2>1, <2>2, ThreadTrust
<1>5. ASSUME NEW n \in Node, Refuse(n) PROVE OnlySigned' /\ Genuine'
  <2>1. InHand(Idle, signed)
    BY DEF InHand, Idle
  <2>2. /\ at' = [at EXCEPT ![n] = Idle] /\ net' \subseteq net
        /\ UNCHANGED <<active, seen, disk, signing, signed>>
    BY <1>5 DEF Refuse, bounds
  <2> QED
    BY <2>1, <2>2, ThreadTrust
<1>6. ASSUME NEW n \in Node, Accept(n) PROVE OnlySigned' /\ Genuine'
  <2> DEFINE m == at[n].spork
  <2>1. at[n].step = "checked" /\ at[n].valid /\ Stored(n, m) /\ at' = [at EXCEPT ![n].step = "stored"]
    BY <1>6 DEF Accept
  <2>2. UNCHANGED <<disk, signing, signed>> /\ net' = net \cup Announcements(n, m)
    BY <1>6 DEF Accept, bounds
  <2>3. m \in Message /\ m \in signed
    <3>1. at[n] \in Position
      BY DEF Trusted, Order, SporkType
    <3> QED
      BY <2>1, <3>1, Positions DEF Trusted, Genuine
  <2>4. OnlySigned'
    BY <2>1, <2>2, <2>3, FiledTrust DEF Trusted, OnlySigned
  <2>5. \A p \in Node : InHand(at'[p], signed')
    <3>1. at'[n].spork = m
      BY SMT, <2>1 DEF Trusted, Order, SporkType, Position, Idle
    <3>2. \A p \in Node : p # n => at'[p] = at[p]
      BY <2>1 DEF Trusted, Order, SporkType
    <3> QED
      BY <2>2, <2>3, <3>1, <3>2 DEF Trusted, Genuine, InHand
  <2>6. \A k \in net' : k.kind = "spork" => k \in net
    BY SMT, <2>2 DEF Announcements
  <2> QED
    BY <2>2, <2>4, <2>5, <2>6 DEF Trusted, Genuine, InHand
<1>7. ASSUME NEW n \in Node, WriteSpork(n) PROVE OnlySigned' /\ Genuine'
  <2> DEFINE m == at[n].spork
  <2>1. at[n].step = "stored" /\ at' = [at EXCEPT ![n] = Idle]
    BY <1>7 DEF WriteSpork
  <2>2. disk' = [disk EXCEPT ![n][m.id] = m] /\ UNCHANGED <<active, seen, signing, net, signed>>
    BY <1>7 DEF WriteSpork, bounds
  <2>3. m \in signed
    BY <2>1 DEF Trusted, Genuine
  <2>4. \A p \in Node : Held(disk'[p]) \subseteq signed
    <3>1. \A p \in Node, i \in Id : disk'[p][i] \in {disk[p][i], m}
      BY <2>2 DEF Trusted, Order, SporkType, Map
    <3> QED
      BY <2>3, <3>1 DEF Trusted, OnlySigned, Held
  <2>5. OnlySigned'
    <3>1. active' = active /\ seen' = seen /\ signed' = signed
      BY <2>2
    <3>2. \A p \in Node : seen[p] \subseteq signed /\ Held(active[p]) \subseteq signed
      BY DEF Trusted, OnlySigned
    <3>3. \A p \in Node : seen'[p] \cup Held(active'[p]) \cup Held(disk'[p]) \subseteq signed'
      BY <2>4, <3>1, <3>2
    <3> QED
      BY ZenonT(30), <3>3 DEF OnlySigned, Held
  <2>6. \A p \in Node : InHand(at'[p], signed')
    BY <2>1, <2>2 DEF Trusted, Order, SporkType, Genuine, InHand, Idle
  <2> QED
    BY <2>2, <2>5, <2>6 DEF Trusted, Genuine, InHand
<1>8. ASSUME NEW n \in Node, NEW i \in Id, NEW v \in Value, UpdateSpork(n, i, v)
      PROVE  OnlySigned' /\ Genuine'
  <2> DEFINE m == [id |-> i, value |-> v, time |-> now]
  <2>1. /\ signing' = [signing EXCEPT ![n] = m] /\ signed' = signed \cup {m}
        /\ net' = net \cup Announcements(n, m)
        /\ UNCHANGED <<active, seen, disk, at>>
    BY <1>8 DEF UpdateSpork
  <2> HIDE DEF m
  <2>2. \A p \in Node : signing'[p] # NoSpork => signing'[p] \in signed'
    BY <2>1 DEF Trusted, Order, SporkType, Genuine
  <2>3. \A p \in Node : InHand(at'[p], signed')
    BY <2>1 DEF Trusted, Genuine, InHand
  <2>4. \A k \in net' : k.kind = "spork" => k.body \in signed'
    <3>1. \A k \in Announcements(n, m) : k.kind # "spork"
      BY SMT DEF Announcements
    <3>2. \A k \in net : k.kind = "spork" => k.body \in signed
      BY DEF Trusted, Genuine
    <3> QED
      BY <2>1, <3>1, <3>2
  <2>5. signed \subseteq signed' /\ UNCHANGED <<active, seen, disk>>
    BY <2>1
  <2> QED
    BY <2>2, <2>3, <2>4, <2>5, KeptTrust
<1>9. ASSUME NEW n \in Node, StoreUpdate(n) PROVE OnlySigned' /\ Genuine'
  <2>1. /\ signing[n] # NoSpork /\ Stored(n, signing[n])
        /\ signing' = [signing EXCEPT ![n] = NoSpork]
        /\ UNCHANGED <<disk, at, net, signed>>
    BY <1>9 DEF StoreUpdate, bounds
  <2>2. signing[n] \in Message /\ signing[n] \in signed
    BY <2>1 DEF Trusted, Order, SporkType, Spork, Genuine
  <2>3. OnlySigned'
    BY <2>1, <2>2, FiledTrust DEF Trusted, OnlySigned
  <2>4. Genuine'
    BY <2>1 DEF Trusted, Order, SporkType, Genuine
  <2> QED
    BY <2>3, <2>4
<1>10. ASSUME NEW n \in Node, Restart(n) PROVE OnlySigned' /\ Genuine'
  <2>1. /\ active' = [active EXCEPT ![n] = disk[n]]
        /\ seen' = [seen EXCEPT ![n] = Held(disk[n])]
        /\ at' = [at EXCEPT ![n] = Idle]
        /\ signing' = [signing EXCEPT ![n] = NoSpork]
        /\ net' \subseteq net /\ UNCHANGED <<disk, signed>>
    BY <1>10 DEF Restart, Closed
  <2>2. OnlySigned'
    <3>1. \A p \in Node : active'[p] \in {active[p], disk[p]} /\ seen'[p] \in {seen[p], Held(disk[p])}
      BY <2>1 DEF Trusted, Order, SporkType
    <3>2. \A p \in Node : seen[p] \cup Held(active[p]) \cup Held(disk[p]) \subseteq signed
      BY DEF Trusted, OnlySigned
    <3>3. signed' = signed /\ disk' = disk
      BY <2>1
    <3>4. \A p \in Node : seen'[p] \subseteq signed' /\ Held(active'[p]) \subseteq signed'
      BY <3>1, <3>2, <3>3
    <3> QED
      BY <3>2, <3>3, <3>4 DEF OnlySigned
  <2>3. Genuine'
    BY <2>1 DEF Trusted, Order, SporkType, Genuine, Idle
  <2> QED
    BY <2>2, <2>3
<1>11. ASSUME NEW n \in Node, Handle(n) PROVE OnlySigned' /\ Genuine'
  BY <1>11, <1>1, <1>2, <1>3 DEF Handle
<1> QED
  BY <1>1, <1>4, <1>5, <1>6, <1>7, <1>8, <1>9, <1>10, <1>11 DEF Next

(* Whatever a node keeps, in memory or on disk, was signed with the key.   *)
THEOREM AlwaysOnlySigned == Spec => []OnlySigned
<1>1. Trusted => OnlySigned
  BY DEF Trusted
<1> QED
  BY <1>1, TrustedInit, TrustedNext, PTL DEF Spec

=============================================================================
