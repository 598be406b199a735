---------------------------- MODULE LobbyProofs ----------------------------
(***************************************************************************)
(* For every set of player slots and every length of the countdown and of  *)
(* the channels: the host's records tell the truth about readiness, and no *)
(* client is left behind a countdown that is over.                         *)
(***************************************************************************)
EXTENDS Lobby, TLAPS

\* What the last message of a sequence that counts says, or what held before
\* when there is none.
Silent(s, skip) == \A i \in DOMAIN s : s[i] = skip
Says(s, skip, yes) == \E i \in DOMAIN s : s[i] = yes /\ \A j \in DOMAIN s : s[j] # skip => j <= i
Reads(s, skip, yes, old) == IF Silent(s, skip) THEN old ELSE Says(s, skip, yes)

\* Who is out has heard all it will hear and remembers nothing.
Gone(c) == client[c].status = "out" => client[c] = Out /\ toClient[c] = <<>>

\* Who is there has a record on the host, and has not said that it leaves.
Here(c) ==
  client[c].status # "out" =>
    /\ member[c].presence # "absent"
    /\ \A i \in DOMAIN toHost[c] : toHost[c][i] \notin {"EVENT_LEAVE", "DISCONNECT"}

\* A slot's first message is its player's identity, which finds a record that is
\* not ready; its last one is the end of the connection, after which nothing is left.
FirstWord(c) == \A i \in DOMAIN toHost[c] : toHost[c][i] = "EVENT_JOIN" => i = 1 /\ ~member[c].ready
LastWord(c) == \A i \in DOMAIN toHost[c] : toHost[c][i] = "DISCONNECT" => i = Len(toHost[c])
Left(c) == member[c].presence = "absent" => toHost[c] = <<>> /\ ~member[c].ready

\* ReadinessIsTrue and NoOrphanCountdown of one client.
Truthful(c) == Reads(toHost[c], "EVENT_JOIN", "READY", member[c].ready) = client[c].ready
Accompanied(c) ==
  Reads(toClient[c], "BOOTSTRAP", "START_COUNTDOWN", client[c].countdown)
    => host.status = "lobby" /\ host.countdown

Slot(c) ==
  Gone(c) /\ Here(c) /\ FirstWord(c) /\ LastWord(c) /\ Left(c) /\ Truthful(c) /\ Accompanied(c)

IInv == TypeOK /\ \A c \in Client : Slot(c)

----------------------------------------------------------------------------
(* Sequences of messages                                                   *)

LEMMA ReadsNothing ==
  ASSUME NEW skip, NEW yes, NEW old \in BOOLEAN
  PROVE  Reads(<<>>, skip, yes, old) = old
BY DEF Reads, Silent

\* The last message decides, unless it does not count.
LEMMA ReadsAppend ==
  ASSUME NEW S, NEW s \in Seq(S), NEW m \in S, NEW skip, NEW yes, yes # skip,
         NEW old \in BOOLEAN
  PROVE  Reads(Append(s, m), skip, yes, old)
           <=> IF m = skip THEN Reads(s, skip, yes, old) ELSE m = yes
<1> DEFINE t == Append(s, m)
<1>1. /\ Len(s) \in Nat /\ DOMAIN s = 1 .. Len(s) /\ DOMAIN t = 1 .. Len(s) + 1
      /\ t[Len(s) + 1] = m /\ \A i \in 1 .. Len(s) : t[i] = s[i]
  OBVIOUS
<1> HIDE DEF t
<1>2. CASE m = skip
  <2>1. Silent(t, skip) <=> Silent(s, skip)
    BY <1>1, <1>2 DEF Silent
  <2>2. Says(t, skip, yes) <=> Says(s, skip, yes)
    <3>1. ASSUME Says(t, skip, yes) PROVE Says(s, skip, yes)
      <4>1. PICK i \in DOMAIN t : t[i] = yes /\ \A j \in DOMAIN t : t[j] # skip => j <= i
        BY <3>1 DEF Says
      <4> QED
        BY <1>1, <1>2, <4>1 DEF Says
    <3>2. ASSUME Says(s, skip, yes) PROVE Says(t, skip, yes)
      <4>1. PICK i \in DOMAIN s : s[i] = yes /\ \A j \in DOMAIN s : s[j] # skip => j <= i
        BY <3>2 DEF Says
      <4>2. i \in DOMAIN t /\ t[i] = yes /\ \A j \in DOMAIN t : t[j] # skip => j <= i
        BY <1>1, <1>2, <4>1
      <4> QED
        BY <4>2 DEF Says
    <3> QED
      BY <3>1, <3>2
  <2> QED
    BY <1>2, <2>1, <2>2 DEF Reads, t
<1>3. CASE m # skip
  <2>1. ~Silent(t, skip)
    BY <1>1, <1>3 DEF Silent
  <2>2. ASSUME Says(t, skip, yes) PROVE m = yes
    <3>1. PICK i \in DOMAIN t : t[i] = yes /\ \A j \in DOMAIN t : t[j] # skip => j <= i
      BY <2>2 DEF Says
    <3>2. Len(s) + 1 <= i
      BY <1>1, <1>3, <3>1
    <3>3. i = Len(s) + 1
      BY <1>1, <3>1, <3>2
    <3> QED
      BY <1>1, <3>1, <3>3
  <2>3. ASSUME m = yes PROVE Says(t, skip, yes)
    <3>1. Len(s) + 1 \in DOMAIN t /\ \A j \in DOMAIN t : j <= Len(s) + 1
      BY <1>1
    <3> QED
      BY <1>1, <2>3, <3>1 DEF Says
  <2> QED
    BY <1>3, <2>1, <2>2, <2>3 DEF Reads, t
<1> QED
  BY <1>2, <1>3

\* To receive the first message is to know what it says.
LEMMA ReadsTail ==
  ASSUME NEW S, NEW s \in Seq(S), s # <<>>, NEW skip, NEW yes, yes # skip,
         NEW old \in BOOLEAN
  PROVE  Reads(s, skip, yes, old)
           <=> Reads(Tail(s), skip, yes, IF Head(s) = skip THEN old ELSE Head(s) = yes)
<1> DEFINE t == Tail(s)
<1>1. /\ Len(s) \in Nat /\ Len(s) >= 1 /\ DOMAIN s = 1 .. Len(s)
      /\ DOMAIN t = 1 .. Len(s) - 1 /\ Head(s) = s[1]
      /\ \A i \in 1 .. Len(s) - 1 : t[i] = s[i + 1]
  OBVIOUS
<1> HIDE DEF t
<1>2. Silent(s, skip) <=> Head(s) = skip /\ Silent(t, skip)
  <2>1. ASSUME Silent(s, skip) PROVE Head(s) = skip /\ Silent(t, skip)
    BY <1>1, <2>1 DEF Silent
  <2>2. ASSUME Head(s) = skip, Silent(t, skip), NEW i \in DOMAIN s PROVE s[i] = skip
    <3>1. CASE i = 1
      BY <1>1, <2>2, <3>1
    <3>2. CASE i # 1
      <4>1. i - 1 \in DOMAIN t /\ t[i - 1] = s[i]
        BY <1>1, <3>2
      <4> QED
        BY <2>2, <4>1 DEF Silent
    <3> QED
      BY <3>1, <3>2
  <2> QED
    BY <2>1, <2>2 DEF Silent
<1>3. Silent(t, skip) => (Says(s, skip, yes) <=> Head(s) = yes)
  <2>1. ASSUME Silent(t, skip), Says(s, skip, yes) PROVE Head(s) = yes
    <3>1. PICK i \in DOMAIN s : s[i] = yes
      BY <2>1 DEF Says
    <3>2. i # 1 => i - 1 \in DOMAIN t /\ t[i - 1] = yes
      BY <1>1, <3>1
    <3> QED
      BY <1>1, <2>1, <3>1, <3>2 DEF Silent
  <2>2. ASSUME Silent(t, skip), Head(s) = yes PROVE Says(s, skip, yes)
    <3>1. ASSUME NEW j \in DOMAIN s, s[j] # skip PROVE j <= 1
      <4>1. j # 1 => j - 1 \in DOMAIN t /\ t[j - 1] = s[j]
        BY <1>1
      <4> QED
        BY <1>1, <2>2, <3>1, <4>1 DEF Silent
    <3> QED
      BY <1>1, <2>2, <3>1 DEF Says
  <2> QED
    BY <2>1, <2>2
<1>4. ~Silent(t, skip) => (Says(s, skip, yes) <=> Says(t, skip, yes))
  <2>1. ASSUME ~Silent(t, skip), Says(s, skip, yes) PROVE Says(t, skip, yes)
    <3>1. PICK i \in DOMAIN s : s[i] = yes /\ \A j \in DOMAIN s : s[j] # skip => j <= i
      BY <2>1 DEF Says
    <3>2. PICK k \in DOMAIN t : t[k] # skip
      BY <2>1 DEF Silent
    <3>3. k + 1 \in DOMAIN s /\ s[k + 1] # skip
      BY <1>1, <3>2
    <3>4. i >= 2 /\ i - 1 \in DOMAIN t /\ t[i - 1] = yes
      BY <1>1, <3>1, <3>2, <3>3
    <3>5. ASSUME NEW j \in DOMAIN t, t[j] # skip PROVE j <= i - 1
      <4>1. j + 1 \in DOMAIN s /\ s[j + 1] # skip
        BY <1>1, <3>5
      <4> QED
        BY <1>1, <3>1, <4>1
    <3> QED
      BY <3>4, <3>5 DEF Says
  <2>2. ASSUME Says(t, skip, yes) PROVE Says(s, skip, yes)
    <3>1. PICK i \in DOMAIN t : t[i] = yes /\ \A j \in DOMAIN t : t[j] # skip => j <= i
      BY <2>2 DEF Says
    <3>2. i + 1 \in DOMAIN s /\ s[i + 1] = yes
      BY <1>1, <3>1
    <3>3. ASSUME NEW j \in DOMAIN s, s[j] # skip PROVE j <= i + 1
      <4>1. j # 1 => j - 1 \in DOMAIN t /\ t[j - 1] = s[j]
        BY <1>1
      <4> QED
        BY <1>1, <3>1, <3>3, <4>1
    <3> QED
      BY <3>2, <3>3 DEF Says
  <2> QED
    BY <2>1, <2>2
<1> QED
  BY <1>2, <1>3, <1>4 DEF Reads, t

\* Two messages one after the other.
LEMMA PairIsAppended ==
  ASSUME NEW S, NEW s \in Seq(S), NEW a \in S, NEW b \in S
  PROVE  /\ s \o <<a>> = Append(s, a)
         /\ s \o <<a, b>> = Append(Append(s, a), b)
         /\ s \o <<>> = s
OBVIOUS

LEMMA NothingIsLeft ==
  ASSUME NEW S, NEW s \in Seq(S), Len(s) = 0
  PROVE  s = <<>>
OBVIOUS

LEMMA ConcatAppend ==
  ASSUME NEW S, NEW s \in Seq(S), NEW first \in Seq(S), NEW m \in S
  PROVE  s \o first \in Seq(S) /\ s \o Append(first, m) = Append(s \o first, m)
OBVIOUS

----------------------------------------------------------------------------
(* What the steps have in common                                           *)

Hosts == [status : {"lobby", "game_starting", "in_game"}, countdown : BOOLEAN,
          seconds : 0 .. Countdown]
Members == [presence : {"absent", "present", "joined"}, ready : BOOLEAN,
            bootstrap : {"idle", "pending", "sent"}]
Clients == [status : {"out", "connected_lobby", "game_starting", "in_game"},
            countdown : BOOLEAN, ready : BOOLEAN,
            world : {"none", "announced", "loading", "running"}]

LEMMA Types ==
  TypeOK <=> /\ host \in Hosts
             /\ member \in [Client -> Members]
             /\ client \in [Client -> Clients]
             /\ toHost \in [Client -> Seq(Report)]
             /\ toClient \in [Client -> Seq(Message)]
BY DEF TypeOK, Hosts, Members, Clients

LEMMA OutIsClient == Out \in Clients /\ ~Out.ready /\ ~Out.countdown /\ Out.status = "out"
BY DEF Out, Clients

LEMMA NobodyIsMember == Nobody \in Members /\ ~Nobody.ready /\ Nobody.presence = "absent"
BY DEF Nobody, Members

LEMMA BroadcastMeans ==
  ASSUME TypeOK, NEW targets, NEW messages \in Seq(Message), Broadcast(targets, messages)
  PROVE  /\ toClient' \in [Client -> Seq(Message)]
         /\ \A d \in Client :
              toClient'[d] = IF d \in targets THEN toClient[d] \o messages ELSE toClient[d]
<1>1. \A d \in Client : toClient[d] \o messages \in Seq(Message) /\ toClient[d] \in Seq(Message)
  BY Types
<1> QED
  BY <1>1 DEF Broadcast

\* A slot that a step leaves alone.
LEMMA SlotLeftAlone ==
  ASSUME NEW d \in Client, Slot(d), member'[d] = member[d], client'[d] = client[d],
         toHost'[d] = toHost[d], toClient'[d] = toClient[d],
         host'.status = host.status /\ host'.countdown = host.countdown
  PROVE  Slot(d)'
<1>1. Gone(d)' /\ Here(d)' /\ FirstWord(d)' /\ LastWord(d)' /\ Left(d)'
  BY DEF Slot, Gone, Here, FirstWord, LastWord, Left
<1>2. Truthful(d)'
  BY DEF Slot, Truthful
<1>3. Accompanied(d)'
  BY DEF Slot, Accompanied
<1> QED
  BY <1>1, <1>2, <1>3 DEF Slot

\* A step that only adds to what a client will hear.
LEMMA SlotTold ==
  ASSUME NEW d \in Client, Slot(d),
         /\ member'[d].presence = member[d].presence
         /\ member'[d].ready = member[d].ready,
         client'[d] = client[d], toHost'[d] = toHost[d],
         client[d].status = "out" => toClient'[d] = toClient[d],
         Reads(toClient'[d], "BOOTSTRAP", "START_COUNTDOWN", client[d].countdown)
           => host'.status = "lobby" /\ host'.countdown
  PROVE  Slot(d)'
<1>1. Gone(d)' /\ Here(d)' /\ FirstWord(d)' /\ LastWord(d)' /\ Left(d)'
  BY DEF Slot, Gone, Here, FirstWord, LastWord, Left
<1>2. Truthful(d)'
  BY DEF Slot, Truthful
<1>3. Accompanied(d)'
  BY DEF Accompanied
<1> QED
  BY <1>1, <1>2, <1>3 DEF Slot

\* Who is out is not counting down.
LEMMA OutIsQuiet ==
  ASSUME NEW d \in Client, Slot(d), client[d].status = "out"
  PROVE  ~Reads(toClient[d], "BOOTSTRAP", "START_COUNTDOWN", client[d].countdown)
<1>1. client[d] = Out /\ toClient[d] = <<>>
  BY DEF Slot, Gone
<1>2. Out.countdown = FALSE
  BY DEF Out
<1>3. ~Reads(<<>>, "BOOTSTRAP", "START_COUNTDOWN", FALSE)
  BY ReadsNothing
<1> QED
  BY <1>1, <1>2, <1>3

\* Everyone who is there listens.
LEMMA HereListens ==
  ASSUME NEW d \in Client, Slot(d), d \notin Listeners
  PROVE  client[d].status = "out"
BY DEF Slot, Here, Listeners

\* What the host's handlers find behind the message they take.
LEMMA RestOfQueue ==
  ASSUME TypeOK, NEW c \in Client, Slot(c), NEW message, HostReceives(c, message)
  PROVE  /\ message \in Report
         /\ toHost' \in [Client -> Seq(Report)]
         /\ \A d \in Client \ {c} : toHost'[d] = toHost[d]
         /\ \A i \in DOMAIN toHost'[c] : toHost'[c][i] # "EVENT_JOIN"
         /\ LastWord(c)'
         /\ message = "DISCONNECT" => toHost'[c] = <<>>
         /\ message \in {"EVENT_LEAVE", "DISCONNECT"} => client[c].status = "out"
         /\ client[c].status # "out" =>
              \A i \in DOMAIN toHost'[c] : toHost'[c][i] \notin {"EVENT_LEAVE", "DISCONNECT"}
         /\ member[c].presence # "absent"
         /\ message = "EVENT_JOIN" => ~member[c].ready
         /\ \A old \in BOOLEAN :
              (message = "EVENT_JOIN" => old = member[c].ready) /\
              (message # "EVENT_JOIN" => old = (message = "READY"))
                => Reads(toHost'[c], "EVENT_JOIN", "READY", old) = client[c].ready
<1> DEFINE s == toHost[c]
           t == Tail(s)
<1>1. /\ s \in Seq(Report) /\ s # <<>> /\ Head(s) = message /\ toHost' = [toHost EXCEPT ![c] = t]
      /\ member[c].ready \in BOOLEAN /\ client[c].ready \in BOOLEAN
  BY Types DEF HostReceives, Members, Clients
<1>2. /\ toHost \in [Client -> Seq(Report)] /\ t \in Seq(Report) /\ toHost'[c] = t
      /\ toHost' \in [Client -> Seq(Report)]
      /\ \A d \in Client \ {c} : toHost'[d] = toHost[d]
  <2>1. toHost \in [Client -> Seq(Report)] /\ t \in Seq(Report)
    BY <1>1, Types
  <2> HIDE DEF s, t
  <2> QED
    BY <1>1, <2>1
<1>3. /\ Len(s) \in Nat /\ Len(s) >= 1 /\ DOMAIN s = 1 .. Len(s) /\ s[1] = message
      /\ Len(t) = Len(s) - 1 /\ DOMAIN t = 1 .. Len(s) - 1
      /\ (Len(s) = 1 => t = <<>>)
      /\ \A i \in 1 .. Len(s) - 1 : t[i] = s[i + 1]
  <2> HIDE DEF s
  <2>1. /\ Len(s) \in Nat /\ Len(s) >= 1 /\ DOMAIN s = 1 .. Len(s) /\ s[1] = message
        /\ Len(t) = Len(s) - 1 /\ t \in Seq(Report)
    BY <1>1
  <2>2. Len(s) = 1 => t = <<>>
    <3> HIDE DEF t
    <3>1. Len(s) = 1 => Len(t) = 0
      BY <2>1
    <3> QED
      BY <2>1, <3>1, NothingIsLeft
  <2>3. \A i \in 1 .. Len(s) - 1 : t[i] = s[i + 1]
    BY <1>1, <2>1
  <2> QED
    BY <2>1, <2>2, <2>3
<1>4. /\ \A i \in DOMAIN s : s[i] = "EVENT_JOIN" => i = 1 /\ ~member[c].ready
      /\ \A i \in DOMAIN s : s[i] = "DISCONNECT" => i = Len(s)
      /\ client[c].status # "out" =>
           \A i \in DOMAIN s : s[i] \notin {"EVENT_LEAVE", "DISCONNECT"}
      /\ member[c].presence = "absent" => s = <<>>
      /\ Reads(s, "EVENT_JOIN", "READY", member[c].ready) = client[c].ready
  BY DEF Slot, FirstWord, LastWord, Here, Left, Truthful
<1>5. message \in Report
  <2> HIDE DEF s
  <2> QED
    BY <1>1
<1> HIDE DEF s, t
<1>6. /\ \A i \in DOMAIN t : t[i] # "EVENT_JOIN"
      /\ \A i \in DOMAIN t : t[i] = "DISCONNECT" => i = Len(t)
      /\ client[c].status # "out" =>
           \A i \in DOMAIN t : t[i] \notin {"EVENT_LEAVE", "DISCONNECT"}
  <2>1. \A i \in DOMAIN t : i + 1 \in DOMAIN s /\ t[i] = s[i + 1] /\ i + 1 # 1 /\ i \in Nat
    BY <1>3
  <2> QED
    BY <1>3, <1>4, <2>1
<1>7. ASSUME NEW old \in BOOLEAN,
             message = "EVENT_JOIN" => old = member[c].ready,
             message # "EVENT_JOIN" => old = (message = "READY")
      PROVE  Reads(t, "EVENT_JOIN", "READY", old) = client[c].ready
  <2>1. Reads(s, "EVENT_JOIN", "READY", member[c].ready)
          <=> Reads(t, "EVENT_JOIN", "READY",
                    IF message = "EVENT_JOIN" THEN member[c].ready ELSE message = "READY")
    BY <1>1, ReadsTail DEF t
  <2>2. old = IF message = "EVENT_JOIN" THEN member[c].ready ELSE message = "READY"
    BY <1>7
  <2>3. Reads(t, "EVENT_JOIN", "READY", old) \in BOOLEAN
    BY DEF Reads, Silent, Says
  <2> QED
    BY <1>1, <1>4, <2>1, <2>2, <2>3
<1>8. message = "DISCONNECT" => t = <<>>
  BY <1>3, <1>4
<1>9. message \in {"EVENT_LEAVE", "DISCONNECT"} => client[c].status = "out"
  BY <1>3, <1>4
<1>10. message = "EVENT_JOIN" => ~member[c].ready
  BY <1>3, <1>4
<1> QED
  BY <1>1, <1>2, <1>4, <1>5, <1>6, <1>7, <1>8, <1>9, <1>10 DEF LastWord

LEMMA ReceivedMeans ==
  ASSUME TypeOK, NEW c \in Client, Slot(c), NEW message, Received(c, message)
  PROVE  /\ message \in Message /\ UNCHANGED <<host, member, toHost>>
         /\ toClient' \in [Client -> Seq(Message)]
         /\ \A d \in Client \ {c} : toClient'[d] = toClient[d]
         /\ client[c].status # "out"
         /\ Reads(toClient[c], "BOOTSTRAP", "START_COUNTDOWN", client[c].countdown)
              <=> Reads(toClient'[c], "BOOTSTRAP", "START_COUNTDOWN",
                        IF message = "BOOTSTRAP" THEN client[c].countdown
                        ELSE message = "START_COUNTDOWN")
<1> DEFINE s == toClient[c]
<1>1. /\ s \in Seq(Message) /\ s # <<>> /\ Head(s) = message
      /\ toClient' = [toClient EXCEPT ![c] = Tail(s)] /\ UNCHANGED <<host, member, toHost>>
      /\ client[c].countdown \in BOOLEAN /\ toClient \in [Client -> Seq(Message)]
  BY Types DEF Received, Clients
<1>2. client[c].status # "out"
  BY <1>1 DEF Slot, Gone
<1> HIDE DEF s
<1>3. message \in Message /\ Tail(s) \in Seq(Message)
  BY <1>1
<1>4. /\ toClient' \in [Client -> Seq(Message)] /\ toClient'[c] = Tail(s)
      /\ \A d \in Client \ {c} : toClient'[d] = toClient[d]
  BY <1>1, <1>3
<1>5. Reads(s, "BOOTSTRAP", "START_COUNTDOWN", client[c].countdown)
        <=> Reads(Tail(s), "BOOTSTRAP", "START_COUNTDOWN",
                  IF Head(s) = "BOOTSTRAP" THEN client[c].countdown
                  ELSE Head(s) = "START_COUNTDOWN")
  BY <1>1, ReadsTail
<1> QED
  BY <1>1, <1>2, <1>3, <1>4, <1>5 DEF s

\* A client that takes a message and notes what it says of the countdown.
LEMMA Heard ==
  ASSUME IInv, NEW c \in Client, NEW message, Received(c, message), NEW new \in Clients,
         client' = [client EXCEPT ![c] = new],
         new.status # "out" /\ new.ready = client[c].ready,
         new.countdown = IF message = "BOOTSTRAP" THEN client[c].countdown
                         ELSE message = "START_COUNTDOWN"
  PROVE  IInv'
<1>1. TypeOK /\ Slot(c) /\ \A d \in Client : Slot(d)
  BY DEF IInv
<1>2. /\ message \in Message /\ UNCHANGED <<host, member, toHost>>
      /\ toClient' \in [Client -> Seq(Message)]
      /\ \A d \in Client \ {c} : toClient'[d] = toClient[d]
      /\ client[c].status # "out"
      /\ Reads(toClient[c], "BOOTSTRAP", "START_COUNTDOWN", client[c].countdown)
           <=> Reads(toClient'[c], "BOOTSTRAP", "START_COUNTDOWN",
                     IF message = "BOOTSTRAP" THEN client[c].countdown
                     ELSE message = "START_COUNTDOWN")
  BY <1>1, ReceivedMeans
<1>3. /\ client' \in [Client -> Clients] /\ client'[c] = new
      /\ \A d \in Client \ {c} : client'[d] = client[d]
  BY <1>1, Types
<1>4. TypeOK'
  BY <1>1, <1>2, <1>3, Types DEF TypeOK, Clients
<1>5. ASSUME NEW d \in Client \ {c} PROVE Slot(d)'
  BY <1>1, <1>2, <1>3, SlotLeftAlone
<1>6. Gone(c)' /\ Here(c)' /\ FirstWord(c)' /\ LastWord(c)' /\ Left(c)'
  BY <1>1, <1>2, <1>3 DEF Slot, Gone, Here, FirstWord, LastWord, Left
<1>7. Truthful(c)'
  BY <1>1, <1>2, <1>3 DEF Slot, Truthful, Reads, Silent, Says
<1>8. Accompanied(c)'
  BY <1>1, <1>2, <1>3 DEF Slot, Accompanied
<1> QED
  BY <1>4, <1>5, <1>6, <1>7, <1>8 DEF IInv, Slot

LEMMA ReceiveStep == ASSUME IInv, NEW c \in Client, ClientReceives(c) PROVE IInv'
<1> USE DEF Clients
<1>1. client \in [Client -> Clients] /\ client[c] \in Clients /\ TypeOK /\ Slot(c)
  BY Types DEF IInv
<1>2. ASSUME NEW message, Received(c, message) PROVE client[c].status # "out"
  BY <1>1, <1>2, ReceivedMeans
<1>3. CASE ReceiveStartCountdown(c)
  <2> DEFINE new == [client[c] EXCEPT !.countdown = TRUE]
  <2>1. Received(c, "START_COUNTDOWN") /\ client' = [client EXCEPT ![c] = new]
    BY <1>3 DEF ReceiveStartCountdown
  <2>2. /\ new \in Clients /\ new.status # "out" /\ new.ready = client[c].ready
        /\ new.countdown = TRUE
    BY <1>1, <1>2, <2>1
  <2> HIDE DEF new
  <2> QED
    BY <2>1, <2>2, Heard
<1>4. CASE ReceiveCancelCountdown(c)
  <2> DEFINE new == [client[c] EXCEPT !.countdown = FALSE, !.status = "connected_lobby"]
  <2>1. Received(c, "CANCEL_COUNTDOWN") /\ client' = [client EXCEPT ![c] = new]
    BY <1>1, <1>4 DEF ReceiveCancelCountdown
  <2>2. /\ new \in Clients /\ new.status # "out" /\ new.ready = client[c].ready
        /\ new.countdown = FALSE
    BY <1>1
  <2> HIDE DEF new
  <2>3. new.countdown = IF "CANCEL_COUNTDOWN" = "BOOTSTRAP" THEN client[c].countdown
                        ELSE "CANCEL_COUNTDOWN" = "START_COUNTDOWN"
    BY <2>2
  <2> QED
    BY <2>1, <2>2, <2>3, Heard
<1>5. CASE ReceiveStartGame(c)
  <2> DEFINE new == [client[c] EXCEPT !.countdown = FALSE, !.status = "game_starting"]
  <2>1. Received(c, "START_GAME") /\ client' = [client EXCEPT ![c] = new]
    BY <1>1, <1>5 DEF ReceiveStartGame
  <2>2. /\ new \in Clients /\ new.status # "out" /\ new.ready = client[c].ready
        /\ new.countdown = FALSE
    BY <1>1
  <2> HIDE DEF new
  <2>3. new.countdown = IF "START_GAME" = "BOOTSTRAP" THEN client[c].countdown
                        ELSE "START_GAME" = "START_COUNTDOWN"
    BY <2>2
  <2> QED
    BY <2>1, <2>2, <2>3, Heard
<1>6. CASE ReceiveLeave(c)
  <2> DEFINE new == [client[c] EXCEPT !.countdown = FALSE]
  <2>1. Received(c, "EVENT_LEAVE") /\ client' = [client EXCEPT ![c] = new]
    BY <1>6 DEF ReceiveLeave
  <2>2. /\ new \in Clients /\ new.status # "out" /\ new.ready = client[c].ready
        /\ new.countdown = FALSE
    BY <1>1, <1>2, <2>1
  <2> HIDE DEF new
  <2>3. new.countdown = IF "EVENT_LEAVE" = "BOOTSTRAP" THEN client[c].countdown
                        ELSE "EVENT_LEAVE" = "START_COUNTDOWN"
    BY <2>2
  <2> QED
    BY <2>1, <2>2, <2>3, Heard
<1>7. CASE ReceiveBootstrap(c)
  <2> DEFINE world == IF client[c].world \in {"none", "running"} THEN "announced"
                      ELSE client[c].world
             new == [client[c] EXCEPT !.world = world]
  <2>1. Received(c, "BOOTSTRAP") /\ client' = [client EXCEPT ![c] = new]
    BY <1>7 DEF ReceiveBootstrap
  <2>2. world \in {"none", "announced", "loading", "running"}
    BY <1>1
  <2> HIDE DEF world
  <2>3. /\ new \in Clients /\ new.status # "out" /\ new.ready = client[c].ready
        /\ new.countdown = client[c].countdown
    BY <1>1, <1>2, <2>1, <2>2
  <2> HIDE DEF new
  <2> QED
    BY <2>1, <2>3, Heard
<1> QED
  BY <1>3, <1>4, <1>5, <1>6, <1>7 DEF ClientReceives

----------------------------------------------------------------------------
(* The clients                                                             *)

LEMMA EnterStep == ASSUME IInv, NEW c \in Client, Enter(c) PROVE IInv'
<1> DEFINE new == [Out EXCEPT !.status = "connected_lobby"]
           record == [member[c] EXCEPT !.presence = "present"]
<1>1. TypeOK /\ Slot(c) /\ \A d \in Client : Slot(d)
  BY DEF IInv
<1>2. /\ new \in Clients /\ new.status = "connected_lobby" /\ ~new.ready /\ ~new.countdown
  BY DEF Out, Clients
<1>3. /\ record \in Members /\ record.presence = "present" /\ record.ready = member[c].ready
  BY <1>1, Types DEF Members
<1>4. /\ client' = [client EXCEPT ![c] = new] /\ member' = [member EXCEPT ![c] = record]
      /\ toHost' = [toHost EXCEPT ![c] = <<"EVENT_JOIN">>] /\ UNCHANGED <<host, toClient>>
      /\ client[c].status = "out" /\ member[c].presence = "absent"
  BY DEF Enter
<1> HIDE DEF new, record
<1>5. <<"EVENT_JOIN">> \in Seq(Report)
  BY DEF Report
<1>6. TypeOK'
  BY <1>1, <1>2, <1>3, <1>4, <1>5, Types DEF TypeOK, Clients, Members
<1>7. /\ client'[c] = new /\ member'[c] = record /\ toHost'[c] = <<"EVENT_JOIN">>
      /\ \A d \in Client \ {c} :
           client'[d] = client[d] /\ member'[d] = member[d] /\ toHost'[d] = toHost[d]
  BY <1>1, <1>4, Types
<1>8. ASSUME NEW d \in Client \ {c} PROVE Slot(d)'
  BY <1>1, <1>4, <1>7, SlotLeftAlone
<1>9. Gone(c)' /\ Here(c)' /\ FirstWord(c)' /\ LastWord(c)' /\ Left(c)'
  BY <1>1, <1>2, <1>3, <1>4, <1>7 DEF Slot, Gone, Here, FirstWord, LastWord, Left
<1>10. Truthful(c)'
  <2>1. Silent(<<"EVENT_JOIN">>, "EVENT_JOIN")
    BY DEF Silent
  <2>2. member'[c].ready = FALSE /\ client'[c].ready = FALSE
    BY <1>1, <1>2, <1>3, <1>4, <1>7, Types DEF Slot, Left, Members, Clients
  <2> QED
    BY <1>7, <2>1, <2>2 DEF Truthful, Reads
<1>11. Accompanied(c)'
  <2>1. toClient'[c] = <<>> /\ client'[c].countdown = FALSE
    BY <1>1, <1>2, <1>4, <1>7 DEF Slot, Gone, Clients
  <2> QED
    BY <2>1, ReadsNothing DEF Accompanied
<1> QED
  BY <1>6, <1>8, <1>9, <1>10, <1>11 DEF IInv, Slot

LEMMA ToggleReadyStep == ASSUME IInv, NEW c \in Client, ToggleReady(c) PROVE IInv'
<1> DEFINE new == [client[c] EXCEPT !.ready = ~client[c].ready]
           word == IF client[c].ready THEN "NOT_READY" ELSE "READY"
<1>1. TypeOK /\ Slot(c) /\ \A d \in Client : Slot(d)
  BY DEF IInv
<1>2. /\ new \in Clients /\ new.status = client[c].status /\ (new.ready <=> ~client[c].ready)
      /\ new.countdown = client[c].countdown
  BY <1>1, Types DEF Clients
<1>3. /\ word \in {"READY", "NOT_READY"} /\ (word = "READY" <=> ~client[c].ready)
      /\ word \in Report
  BY DEF Report
<1>4. /\ client' = [client EXCEPT ![c] = new] /\ toHost' = [toHost EXCEPT ![c] = Append(@, word)]
      /\ UNCHANGED <<host, member, toClient>> /\ client[c].status = "connected_lobby"
  BY DEF ToggleReady
<1> HIDE DEF new, word
<1> DEFINE s == toHost[c]
           t == Append(s, word)
<1>5. /\ s \in Seq(Report) /\ t \in Seq(Report) /\ Len(s) \in Nat /\ Len(t) = Len(s) + 1
      /\ DOMAIN s = 1 .. Len(s) /\ DOMAIN t = 1 .. Len(s) + 1 /\ t[Len(s) + 1] = word
      /\ \A i \in 1 .. Len(s) : t[i] = s[i]
  <2>1. s \in Seq(Report)
    BY <1>1, Types
  <2> HIDE DEF s
  <2> QED
    BY <1>3, <2>1
<1>6. /\ client'[c] = new /\ toHost'[c] = t
      /\ \A d \in Client \ {c} : client'[d] = client[d] /\ toHost'[d] = toHost[d]
  BY <1>1, <1>4, Types
<1>7. TypeOK'
  BY <1>1, <1>2, <1>4, <1>5, Types DEF TypeOK, Clients
<1>8. ASSUME NEW d \in Client \ {c} PROVE Slot(d)'
  BY <1>1, <1>4, <1>6, SlotLeftAlone
<1>9. Here(c)' /\ FirstWord(c)' /\ LastWord(c)' /\ Left(c)' /\ Gone(c)'
  <2>1. /\ \A i \in DOMAIN s : s[i] = "EVENT_JOIN" => i = 1 /\ ~member[c].ready
        /\ \A i \in DOMAIN s : s[i] \notin {"EVENT_LEAVE", "DISCONNECT"}
        /\ member[c].presence # "absent"
    BY <1>1, <1>4 DEF Slot, FirstWord, Here
  <2> HIDE DEF s, t
  <2>2. /\ \A i \in DOMAIN t : t[i] = "EVENT_JOIN" => i = 1 /\ ~member[c].ready
        /\ \A i \in DOMAIN t : t[i] \notin {"EVENT_LEAVE", "DISCONNECT"}
    <3>1. \A i \in DOMAIN t : (i \in DOMAIN s /\ t[i] = s[i]) \/ t[i] = word
      BY <1>5
    <3> QED
      BY <1>3, <2>1, <3>1
  <2> QED
    BY <1>2, <1>4, <1>6, <2>1, <2>2 DEF FirstWord, Here, LastWord, Left, Gone
<1>10. Truthful(c)'
  <2>1. Reads(t, "EVENT_JOIN", "READY", member[c].ready) <=> word = "READY"
    <3>1. member[c].ready \in BOOLEAN
      BY <1>1, Types DEF Members
    <3> HIDE DEF s
    <3> QED
      BY <1>3, <1>5, <3>1, ReadsAppend
  <2>2. Reads(t, "EVENT_JOIN", "READY", member[c].ready) \in BOOLEAN
    BY <1>1, Types DEF Reads, Silent, Says, Members
  <2> QED
    BY <1>2, <1>3, <1>4, <1>6, <2>1, <2>2 DEF Truthful, Clients
<1>11. Accompanied(c)'
  BY <1>1, <1>2, <1>4, <1>6 DEF Slot, Accompanied, Reads, Silent, Says
<1> QED
  BY <1>7, <1>8, <1>9, <1>10, <1>11 DEF IInv, Slot

\* Whatever of a client's messages is lost, the end of the connection is the last.
LEMMA EndOfConnection ==
  ASSUME TypeOK, NEW c \in Client, Slot(c), client[c].status # "out", Depart(c)
  PROVE  /\ toHost' \in [Client -> Seq(Report)]
         /\ \A d \in Client \ {c} : toHost'[d] = toHost[d]
         /\ FirstWord(c)' /\ LastWord(c)'
         /\ ~Reads(toHost'[c], "EVENT_JOIN", "READY", member[c].ready)
<1> DEFINE s == toHost[c]
<1>1. /\ s \in Seq(Report) /\ member[c].ready \in BOOLEAN /\ member' = member
      /\ toHost \in [Client -> Seq(Report)]
      /\ \A i \in DOMAIN s : s[i] = "EVENT_JOIN" => i = 1 /\ ~member[c].ready
      /\ \A i \in DOMAIN s : s[i] # "DISCONNECT"
  BY Types DEF Depart, Members, Slot, FirstWord, Here
<1>2. PICK t \in Seq(Report) :
        /\ toHost' = [toHost EXCEPT ![c] = Append(t, "DISCONNECT")]
        /\ \A i \in DOMAIN t : t[i] = "EVENT_JOIN" => i = 1 /\ ~member[c].ready
        /\ \A i \in DOMAIN t : t[i] # "DISCONNECT"
  <2>1. CASE toHost' = [toHost EXCEPT ![c] = @ \o <<"EVENT_LEAVE", "DISCONNECT">>]
    <3> DEFINE t == Append(s, "EVENT_LEAVE")
    <3>1. s \o <<"EVENT_LEAVE", "DISCONNECT">> = Append(t, "DISCONNECT")
      <4> HIDE DEF s
      <4>1. "EVENT_LEAVE" \in Report /\ "DISCONNECT" \in Report
        BY DEF Report
      <4> QED
        BY <1>1, <4>1, PairIsAppended
    <3>2. /\ t \in Seq(Report)
          /\ \A i \in DOMAIN t : (i \in DOMAIN s /\ t[i] = s[i]) \/ t[i] = "EVENT_LEAVE"
      <4> HIDE DEF s
      <4> QED
        BY <1>1 DEF Report
    <3>3. toHost' = [toHost EXCEPT ![c] = Append(t, "DISCONNECT")]
      BY <2>1, <3>1
    <3> HIDE DEF s, t
    <3> QED
      BY <1>1, <3>2, <3>3
  <2>2. CASE \E kept \in 0 .. Len(s) :
               toHost' = [toHost EXCEPT ![c] = Append(SubSeq(@, 1, kept), "DISCONNECT")]
    <3>1. PICK kept \in 0 .. Len(s) :
            toHost' = [toHost EXCEPT ![c] = Append(SubSeq(@, 1, kept), "DISCONNECT")]
      BY <2>2
    <3> DEFINE t == SubSeq(s, 1, kept)
    <3>2. t \in Seq(Report) /\ \A i \in DOMAIN t : i \in DOMAIN s /\ t[i] = s[i]
      <4> HIDE DEF s
      <4> QED
        BY <1>1
    <3>3. toHost' = [toHost EXCEPT ![c] = Append(t, "DISCONNECT")]
      BY <3>1
    <3> HIDE DEF s, t
    <3> QED
      BY <1>1, <3>2, <3>3
  <2> QED
    BY <2>1, <2>2 DEF Depart
<1> DEFINE u == Append(t, "DISCONNECT")
<1>3. /\ u \in Seq(Report) /\ Len(t) \in Nat /\ Len(u) = Len(t) + 1
      /\ DOMAIN t = 1 .. Len(t) /\ DOMAIN u = 1 .. Len(t) + 1
      /\ u[Len(t) + 1] = "DISCONNECT" /\ \A i \in 1 .. Len(t) : u[i] = t[i]
  <2>1. "DISCONNECT" \in Report
    BY DEF Report
  <2> QED
    BY <2>1
<1>4. ~Reads(u, "EVENT_JOIN", "READY", member[c].ready)
  <2>1. "DISCONNECT" \in Report
    BY DEF Report
  <2>2. Reads(u, "EVENT_JOIN", "READY", member[c].ready)
          <=> IF "DISCONNECT" = "EVENT_JOIN" THEN Reads(t, "EVENT_JOIN", "READY", member[c].ready)
              ELSE "DISCONNECT" = "READY"
    <3> HIDE DEF s
    <3> QED
      BY <1>1, <2>1, ReadsAppend
  <2> QED
    BY <2>2
<1>5. toHost' = [toHost EXCEPT ![c] = u]
  BY <1>2
<1> HIDE DEF u
<1>6. /\ toHost' \in [Client -> Seq(Report)] /\ toHost'[c] = u
      /\ \A d \in Client \ {c} : toHost'[d] = toHost[d]
  BY <1>1, <1>3, <1>5
<1>7. \A i \in DOMAIN u : i = Len(u) \/ (i \in DOMAIN t /\ u[i] = t[i])
  BY <1>3
<1>8. u[Len(u)] = "DISCONNECT"
  BY <1>3
<1>9. FirstWord(c)'
  <2>1. ASSUME NEW i \in DOMAIN u, u[i] = "EVENT_JOIN" PROVE i = 1 /\ ~member[c].ready
    BY <1>2, <1>7, <1>8, <2>1
  <2> QED
    BY <1>1, <1>6, <2>1 DEF FirstWord
<1>10. LastWord(c)'
  <2>1. ASSUME NEW i \in DOMAIN u, u[i] = "DISCONNECT" PROVE i = Len(u)
    BY <1>2, <1>7, <2>1
  <2> QED
    BY <1>6, <2>1 DEF LastWord
<1> QED
  BY <1>4, <1>6, <1>9, <1>10

LEMMA DepartStep == ASSUME IInv, NEW c \in Client, Depart(c) PROVE IInv'
<1>1. TypeOK /\ Slot(c) /\ \A d \in Client : Slot(d)
  BY DEF IInv
<1>2. /\ client[c].status # "out" /\ client' = [client EXCEPT ![c] = Out]
      /\ toClient' = [toClient EXCEPT ![c] = <<>>] /\ UNCHANGED <<host, member>>
  BY DEF Depart
<1>3. /\ toHost' \in [Client -> Seq(Report)]
      /\ \A d \in Client \ {c} : toHost'[d] = toHost[d]
      /\ FirstWord(c)' /\ LastWord(c)'
      /\ ~Reads(toHost'[c], "EVENT_JOIN", "READY", member[c].ready)
  BY <1>1, <1>2, EndOfConnection
<1>4. /\ client' \in [Client -> Clients] /\ client'[c] = Out
      /\ toClient' \in [Client -> Seq(Message)] /\ toClient'[c] = <<>>
      /\ \A d \in Client \ {c} : client'[d] = client[d] /\ toClient'[d] = toClient[d]
  BY <1>1, <1>2, Types, OutIsClient
<1>5. TypeOK'
  BY <1>1, <1>2, <1>3, <1>4, Types DEF TypeOK, Clients
<1>6. ASSUME NEW d \in Client \ {c} PROVE Slot(d)'
  BY <1>1, <1>2, <1>3, <1>4, SlotLeftAlone
<1>7. Gone(c)' /\ Here(c)' /\ Left(c)'
  BY <1>1, <1>2, <1>4, OutIsClient DEF Slot, Gone, Here, Left
<1>8. Truthful(c)'
  <2>1. Reads(toHost'[c], "EVENT_JOIN", "READY", member[c].ready) = FALSE
    <3>1. Reads(toHost'[c], "EVENT_JOIN", "READY", member[c].ready) \in BOOLEAN
      BY <1>1, Types DEF Reads, Silent, Says, Members
    <3> QED
      BY <1>3, <3>1
  <2>2. client'[c].ready = FALSE /\ member'[c].ready = member[c].ready
    BY <1>2, <1>4 DEF Out
  <2> QED
    BY <2>1, <2>2 DEF Truthful
<1>9. Accompanied(c)'
  <2>1. client'[c].countdown = FALSE
    BY <1>4 DEF Out
  <2> QED
    BY <1>4, <2>1, ReadsNothing DEF Accompanied
<1> QED
  BY <1>3, <1>5, <1>6, <1>7, <1>8, <1>9 DEF IInv, Slot

\* A client that goes on loading.
LEMMA LoadStep == ASSUME IInv, NEW c \in Client, StartLoad(c) \/ FinishLoad(c) PROVE IInv'
<1>1. TypeOK /\ Slot(c) /\ \A d \in Client : Slot(d)
  BY DEF IInv
<1>2. PICK world \in {"loading", "running"}, status \in {"game_starting", "in_game"} :
        /\ client' = [client EXCEPT ![c].world = world, ![c].status = status]
        /\ client[c].world \in {"announced", "loading"}
        /\ UNCHANGED <<host, member, toHost, toClient>>
  BY DEF StartLoad, FinishLoad
<1> DEFINE new == [client[c] EXCEPT !.world = world, !.status = status]
<1>3. /\ new \in Clients /\ new.status # "out" /\ new.ready = client[c].ready
      /\ new.countdown = client[c].countdown
  BY <1>1, Types DEF Clients
<1>4. client' = [client EXCEPT ![c] = new]
  BY <1>1, <1>2, Types
<1> HIDE DEF new
<1>5. /\ client' \in [Client -> Clients] /\ client'[c] = new
      /\ \A d \in Client \ {c} : client'[d] = client[d]
  BY <1>1, <1>3, <1>4, Types
<1>6. client[c].status # "out"
  BY <1>1, <1>2 DEF Slot, Gone, Out
<1>7. TypeOK'
  BY <1>1, <1>2, <1>5, Types DEF TypeOK, Clients
<1>8. ASSUME NEW d \in Client \ {c} PROVE Slot(d)'
  BY <1>1, <1>2, <1>5, SlotLeftAlone
<1>9. Slot(c)'
  <2>1. Gone(c)' /\ Here(c)' /\ FirstWord(c)' /\ LastWord(c)' /\ Left(c)'
    BY <1>1, <1>2, <1>3, <1>5, <1>6 DEF Slot, Gone, Here, FirstWord, LastWord, Left
  <2>2. Truthful(c)'
    BY <1>1, <1>2, <1>3, <1>5 DEF Slot, Truthful
  <2>3. Accompanied(c)'
    BY <1>1, <1>2, <1>3, <1>5 DEF Slot, Accompanied
  <2> QED
    BY <2>1, <2>2, <2>3 DEF Slot
<1> QED
  BY <1>7, <1>8, <1>9 DEF IInv

----------------------------------------------------------------------------
(* The host                                                                *)

\* A message that ends every countdown, last of what is broadcast.
LEMMA ToldToStop ==
  ASSUME TypeOK, NEW d \in Client, NEW before \in Seq(Message), NEW m \in Message,
         m \notin {"BOOTSTRAP", "START_COUNTDOWN"}
  PROVE  ~Reads(Append(before, m), "BOOTSTRAP", "START_COUNTDOWN", client[d].countdown)
<1>1. client[d].countdown \in BOOLEAN
  BY Types DEF Clients
<1> QED
  BY <1>1, ReadsAppend

\* When everyone is told to stop, or one who is out is left out, no countdown is left over.
LEMMA AllToldToStop ==
  ASSUME IInv, NEW targets, NEW messages \in Seq(Message), NEW first \in Seq(Message),
         NEW m \in Message, m \notin {"BOOTSTRAP", "START_COUNTDOWN"},
         messages = Append(first, m), Broadcast(targets, messages),
         \A d \in Client \ targets : client[d].status = "out",
         \A d \in targets \cap Client : client[d].status # "out",
         NEW d \in Client, member'[d] = member[d], client'[d] = client[d], toHost'[d] = toHost[d]
  PROVE  Slot(d)'
<1>1. TypeOK /\ Slot(d) /\ toClient[d] \in Seq(Message)
  BY Types DEF IInv
<1>2. toClient'[d] = IF d \in targets THEN toClient[d] \o messages ELSE toClient[d]
  BY <1>1, BroadcastMeans
<1>3. CASE d \in targets
  <2> DEFINE before == toClient[d] \o first
  <2>1. before \in Seq(Message) /\ toClient[d] \o messages = Append(before, m)
    <3> DEFINE s == toClient[d]
    <3>1. s \in Seq(Message)
      BY <1>1
    <3> HIDE DEF s
    <3>2. s \o first \in Seq(Message) /\ s \o Append(first, m) = Append(s \o first, m)
      BY <3>1, ConcatAppend
    <3>3. s \o messages = Append(s \o first, m)
      BY <3>2, Zenon
    <3> QED
      BY <3>2, <3>3 DEF s
  <2> HIDE DEF before
  <2>2. ~Reads(toClient'[d], "BOOTSTRAP", "START_COUNTDOWN", client[d].countdown)
    BY <1>1, <1>2, <1>3, <2>1, ToldToStop
  <2> QED
    BY <1>1, <1>3, <2>2, SlotTold
<1>4. CASE d \notin targets
  <2>1. client[d].status = "out" /\ toClient'[d] = toClient[d]
    BY <1>2, <1>4
  <2>2. ~Reads(toClient[d], "BOOTSTRAP", "START_COUNTDOWN", client[d].countdown)
    BY <1>1, <2>1, OutIsQuiet
  <2> QED
    BY <1>1, <2>1, <2>2, SlotTold
<1> QED
  BY <1>3, <1>4

\* The countdown is started, cancelled or over while nobody's record changes.
LEMMA HostTells ==
  ASSUME IInv, NEW messages \in Seq(Message), NEW first \in Seq(Message),
         NEW m \in Message, m \notin {"BOOTSTRAP", "START_COUNTDOWN"},
         messages = Append(first, m), Broadcast(Listeners, messages),
         host' \in Hosts, UNCHANGED <<member, client, toHost>>
  PROVE  IInv'
<1>1. TypeOK /\ \A d \in Client : Slot(d)
  BY DEF IInv
<1>2. toClient' \in [Client -> Seq(Message)]
  BY <1>1, BroadcastMeans
<1>3. TypeOK'
  BY <1>1, <1>2, Types DEF TypeOK, Hosts
<1>4. \A d \in Client \ Listeners : client[d].status = "out"
  BY <1>1, HereListens
<1>5. \A d \in Listeners \cap Client : client[d].status # "out"
  BY DEF Listeners
<1>6. ASSUME NEW d \in Client PROVE Slot(d)'
  BY <1>4, <1>5, AllToldToStop
<1> QED
  BY <1>3, <1>6 DEF IInv

LEMMA StartCountdownStep == ASSUME IInv, StartCountdown PROVE IInv'
<1>1. TypeOK /\ \A d \in Client : Slot(d)
  BY DEF IInv
<1>2. <<"START_COUNTDOWN">> \in Seq(Message)
  BY DEF Message
<1>3. Broadcast(Listeners, <<"START_COUNTDOWN">>) /\ UNCHANGED <<member, client, toHost>>
  BY DEF StartCountdown
<1>4. /\ toClient' \in [Client -> Seq(Message)]
      /\ \A d \in Client : d \notin Listeners => toClient'[d] = toClient[d]
  BY <1>1, <1>2, <1>3, BroadcastMeans
<1>5. host' \in Hosts /\ host'.status = "lobby" /\ host'.countdown
  <2>1. host \in Hosts /\ Countdown \in 0 .. Countdown /\ host.status = "lobby"
    BY <1>1, Types, LobbyConstants DEF StartCountdown
  <2>2. host' = [host EXCEPT !.countdown = TRUE, !.seconds = Countdown]
    BY DEF StartCountdown
  <2> QED
    BY <2>1, <2>2 DEF Hosts
<1>6. TypeOK'
  BY <1>1, <1>3, <1>4, <1>5, Types DEF TypeOK, Hosts
<1>7. ASSUME NEW d \in Client PROVE Slot(d)'
  <2>1. client[d].status = "out" => toClient'[d] = toClient[d]
    BY <1>4 DEF Listeners
  <2> QED
    BY <1>1, <1>3, <1>5, <2>1, SlotTold
<1> QED
  BY <1>6, <1>7 DEF IInv

LEMMA CancelCountdownStep == ASSUME IInv, CancelCountdown PROVE IInv'
<1>1. host' \in Hosts
  BY Types DEF IInv, CancelCountdown, Hosts
<1>2. /\ <<>> \in Seq(Message) /\ "CANCEL_COUNTDOWN" \in Message
      /\ <<"CANCEL_COUNTDOWN">> = Append(<<>>, "CANCEL_COUNTDOWN")
      /\ <<"CANCEL_COUNTDOWN">> \in Seq(Message)
  BY DEF Message
<1>3. Broadcast(Listeners, <<"CANCEL_COUNTDOWN">>) /\ UNCHANGED <<member, client, toHost>>
  BY DEF CancelCountdown
<1> QED
  BY <1>1, <1>2, <1>3, HostTells

LEMMA OnTickStep == ASSUME IInv, OnTick PROVE IInv'
<1> DEFINE first == IF AllPeersReady THEN <<>> ELSE <<"CANCEL_COUNTDOWN">>
           messages == first \o (IF host.seconds = 0 THEN <<"START_GAME">> ELSE <<>>)
<1>1. host' \in Hosts
  <2>1. host \in Hosts /\ AllPeersReady \in BOOLEAN
    BY Types DEF IInv, AllPeersReady
  <2> QED
    BY <2>1 DEF OnTick, Hosts
<1>2. /\ Broadcast(Listeners, messages) /\ UNCHANGED <<member, client, toHost>>
      /\ ~AllPeersReady \/ host.seconds = 0
  BY DEF OnTick
<1>3. first \in Seq(Message) /\ <<>> \in Seq(Message)
  <2>1. <<>> \in Seq(Message) /\ <<"CANCEL_COUNTDOWN">> \in Seq(Message)
    BY DEF Message
  <2> QED
    BY <2>1
<1>4. CASE host.seconds = 0
  <2>1. "START_GAME" \in Message
    BY DEF Message
  <2>2. messages = Append(first, "START_GAME") /\ messages \in Seq(Message)
    <3>1. messages = first \o <<"START_GAME">>
      BY <1>4
    <3> HIDE DEF first
    <3> QED
      BY <1>3, <2>1, <3>1
  <2> HIDE DEF first, messages
  <2> QED
    BY <1>1, <1>2, <1>3, <2>1, <2>2, HostTells
<1>5. CASE host.seconds # 0
  <2>1. "CANCEL_COUNTDOWN" \in Message
    BY DEF Message
  <2>2. /\ messages = <<"CANCEL_COUNTDOWN">> \o <<>>
        /\ messages = Append(<<>>, "CANCEL_COUNTDOWN") /\ messages \in Seq(Message)
    <3>1. messages = <<"CANCEL_COUNTDOWN">> \o <<>>
      BY <1>2, <1>5
    <3> HIDE DEF messages
    <3> QED
      BY <2>1, <3>1
  <2> HIDE DEF first, messages
  <2> QED
    BY <1>1, <1>2, <1>3, <2>1, <2>2, HostTells
<1> QED
  BY <1>4, <1>5, Types DEF IInv, Hosts

LEMMA SecondPassesStep == ASSUME IInv, SecondPasses PROVE IInv'
<1>1. TypeOK /\ \A d \in Client : Slot(d)
  BY DEF IInv
<1>2. /\ host' \in Hosts /\ host'.status = host.status /\ host'.countdown = host.countdown
      /\ UNCHANGED <<member, client, toHost, toClient>>
  <2>1. host \in Hosts /\ host.seconds \in 0 .. Countdown /\ host.seconds > 0
    BY <1>1, Types DEF SecondPasses, Hosts
  <2>2. host.seconds - 1 \in 0 .. Countdown
    BY <2>1, LobbyConstants
  <2>3. host' = [host EXCEPT !.seconds = host.seconds - 1]
    BY DEF SecondPasses
  <2> DEFINE left == host.seconds - 1
  <2> HIDE DEF left
  <2>4. left \in 0 .. Countdown /\ host' = [host EXCEPT !.seconds = left]
    BY <2>2, <2>3 DEF left
  <2>5. host' \in Hosts /\ host'.status = host.status /\ host'.countdown = host.countdown
    BY <2>1, <2>4 DEF Hosts
  <2> QED
    BY <2>5 DEF SecondPasses
<1>3. TypeOK'
  BY <1>1, <1>2, Types DEF TypeOK, Hosts
<1>4. ASSUME NEW d \in Client PROVE Slot(d)'
  BY <1>1, <1>2, SlotLeftAlone
<1> QED
  BY <1>3, <1>4 DEF IInv

LEMMA HostSpawnsStep == ASSUME IInv, HostSpawns PROVE IInv'
<1>1. TypeOK /\ \A d \in Client : Slot(d)
  BY DEF IInv
<1>2. /\ host.status = "game_starting" /\ host' \in Hosts
      /\ UNCHANGED <<client, toHost, toClient>>
  BY <1>1, Types DEF HostSpawns, Hosts
<1>3. /\ member' \in [Client -> Members]
      /\ \A d \in Client : /\ member'[d].presence = member[d].presence
                           /\ member'[d].ready = member[d].ready
  <2>1. member' = [d \in Client |->
          IF member[d].presence = "joined" THEN [member[d] EXCEPT !.bootstrap = "pending"]
          ELSE member[d]]
    BY DEF HostSpawns
  <2>2. \A d \in Client :
          /\ member[d] \in Members /\ [member[d] EXCEPT !.bootstrap = "pending"] \in Members
          /\ [member[d] EXCEPT !.bootstrap = "pending"].presence = member[d].presence
          /\ [member[d] EXCEPT !.bootstrap = "pending"].ready = member[d].ready
    BY <1>1, Types DEF Members
  <2> QED
    BY <2>1, <2>2
<1>4. TypeOK'
  BY <1>1, <1>2, <1>3, Types DEF TypeOK, Hosts, Members
<1>5. ASSUME NEW d \in Client PROVE Slot(d)'
  <2>1. ~Reads(toClient[d], "BOOTSTRAP", "START_COUNTDOWN", client[d].countdown)
    BY <1>1, <1>2 DEF Slot, Accompanied
  <2> QED
    BY <1>1, <1>2, <1>3, <2>1, SlotTold
<1> QED
  BY <1>4, <1>5 DEF IInv

\* The bootstrap is sent or acknowledged: its stage is no other business's.
LEMMA BootstrapStep ==
  ASSUME IInv, NEW c \in Client, SendBootstrap(c) \/ Acknowledge(c)
  PROVE  IInv'
<1>1. TypeOK /\ Slot(c) /\ \A d \in Client : Slot(d)
  BY DEF IInv
<1>2. PICK stage \in {"sent", "idle"} : member' = [member EXCEPT ![c].bootstrap = stage]
  BY DEF SendBootstrap, Acknowledge
<1>3. /\ member' \in [Client -> Members]
      /\ \A d \in Client : /\ member'[d].presence = member[d].presence
                           /\ member'[d].ready = member[d].ready
  BY <1>1, <1>2, Types DEF Members
<1>4. UNCHANGED <<host, client, toHost>>
  BY DEF SendBootstrap, Acknowledge
<1>5. /\ toClient' \in [Client -> Seq(Message)]
      /\ \A d \in Client :
           /\ client[d].status = "out" => toClient'[d] = toClient[d]
           /\ Reads(toClient'[d], "BOOTSTRAP", "START_COUNTDOWN", client[d].countdown)
                <=> Reads(toClient[d], "BOOTSTRAP", "START_COUNTDOWN", client[d].countdown)
  <2>1. CASE SendBootstrap(c)
    <3>1. "BOOTSTRAP" \in Message /\ <<"BOOTSTRAP">> \in Seq(Message)
      BY DEF Message
    <3>2. /\ toClient' \in [Client -> Seq(Message)]
          /\ \A d \in Client :
               toClient'[d] = IF d = c THEN toClient[d] \o <<"BOOTSTRAP">> ELSE toClient[d]
      <4>1. Broadcast({c}, <<"BOOTSTRAP">>)
        BY <2>1 DEF SendBootstrap
      <4>2. \A d \in Client : toClient'[d] =
              IF d \in {c} THEN toClient[d] \o <<"BOOTSTRAP">> ELSE toClient[d]
        BY <1>1, <3>1, <4>1, BroadcastMeans
      <4> QED
        BY <1>1, <3>1, <4>1, <4>2, BroadcastMeans
    <3>3. client[c].status # "out"
      BY <2>1 DEF SendBootstrap, Listeners
    <3>4. /\ toClient[c] \in Seq(Message) /\ client[c].countdown \in BOOLEAN
          /\ toClient'[c] = Append(toClient[c], "BOOTSTRAP")
      <4>1. toClient[c] \in Seq(Message) /\ client[c].countdown \in BOOLEAN
        BY <1>1, Types DEF Clients
      <4> QED
        BY <3>1, <3>2, <4>1, PairIsAppended
    <3>5. Reads(toClient'[c], "BOOTSTRAP", "START_COUNTDOWN", client[c].countdown)
            <=> Reads(toClient[c], "BOOTSTRAP", "START_COUNTDOWN", client[c].countdown)
      BY <3>1, <3>4, ReadsAppend
    <3> QED
      BY <3>2, <3>3, <3>5
  <2>2. CASE Acknowledge(c)
    BY <1>1, <2>2, Types DEF Acknowledge
  <2> QED
    BY <2>1, <2>2
<1>6. TypeOK'
  BY <1>1, <1>3, <1>4, <1>5, Types DEF TypeOK, Members
<1>7. ASSUME NEW d \in Client PROVE Slot(d)'
  BY <1>1, <1>3, <1>4, <1>5, SlotTold DEF Slot, Accompanied
<1> QED
  BY <1>6, <1>7 DEF IInv

\* The host takes a message that says something of a record, and nobody is told.
LEMMA HostNotes ==
  ASSUME IInv, NEW c \in Client, NEW message, HostReceives(c, message), NEW new \in Members,
         member' = [member EXCEPT ![c] = new], UNCHANGED <<host, client, toClient>>,
         new.presence # "absent",
         new.ready = IF message = "EVENT_JOIN" THEN FALSE ELSE message = "READY"
  PROVE  IInv'
<1>1. TypeOK /\ Slot(c) /\ \A d \in Client : Slot(d)
  BY DEF IInv
<1>2. /\ toHost' \in [Client -> Seq(Report)]
      /\ \A d \in Client \ {c} : toHost'[d] = toHost[d]
      /\ \A i \in DOMAIN toHost'[c] : toHost'[c][i] # "EVENT_JOIN"
      /\ LastWord(c)'
      /\ client[c].status # "out" =>
           \A i \in DOMAIN toHost'[c] : toHost'[c][i] \notin {"EVENT_LEAVE", "DISCONNECT"}
      /\ message = "EVENT_JOIN" => ~member[c].ready
      /\ \A old \in BOOLEAN :
           (message = "EVENT_JOIN" => old = member[c].ready) /\
           (message # "EVENT_JOIN" => old = (message = "READY"))
             => Reads(toHost'[c], "EVENT_JOIN", "READY", old) = client[c].ready
  BY <1>1, RestOfQueue
<1>3. /\ member' \in [Client -> Members] /\ member'[c] = new
      /\ \A d \in Client \ {c} : member'[d] = member[d]
  BY <1>1, Types
<1>4. TypeOK'
  BY <1>1, <1>2, <1>3, Types DEF TypeOK, Members
<1>5. ASSUME NEW d \in Client \ {c} PROVE Slot(d)'
  BY <1>1, <1>2, <1>3, SlotLeftAlone
<1>6. Gone(c)' /\ Here(c)' /\ FirstWord(c)' /\ Left(c)'
  BY <1>1, <1>2, <1>3 DEF Slot, Gone, Here, FirstWord, Left
<1>7. Truthful(c)'
  <2>1. new.ready \in BOOLEAN /\ member[c].ready \in BOOLEAN
    BY <1>1, Types DEF Members
  <2>2. message = "EVENT_JOIN" => new.ready = member[c].ready
    BY <1>2, <2>1
  <2>3. message # "EVENT_JOIN" => new.ready = (message = "READY")
    OBVIOUS
  <2>4. Reads(toHost'[c], "EVENT_JOIN", "READY", new.ready) = client[c].ready
    BY <1>2, <2>1, <2>2, <2>3
  <2> QED
    BY <1>3, <2>4 DEF Truthful
<1>8. Accompanied(c)'
  BY <1>1 DEF Slot, Accompanied, Reads, Silent, Says
<1> QED
  BY <1>2, <1>4, <1>5, <1>6, <1>7, <1>8 DEF IInv, Slot

LEMMA HostReceivesStep ==
  ASSUME IInv, NEW c \in Client,
         HostReceivesJoin(c) \/ \E ready \in BOOLEAN : HostReceivesReady(c, ready)
  PROVE  IInv'
<1>1. TypeOK /\ Slot(c) /\ member \in [Client -> Members] /\ member[c] \in Members
  BY Types DEF IInv
<1>2. CASE HostReceivesJoin(c)
  <2> DEFINE stage == IF host.status = "in_game" THEN "pending" ELSE member[c].bootstrap
             new == [member[c] EXCEPT !.presence = "joined", !.ready = FALSE, !.bootstrap = stage]
  <2>1. /\ member' = [member EXCEPT ![c] = new] /\ HostReceives(c, "EVENT_JOIN")
        /\ UNCHANGED <<host, client, toClient>>
    BY <1>1, <1>2 DEF HostReceivesJoin
  <2>2. stage \in {"idle", "pending", "sent"}
    BY <1>1 DEF Members
  <2> HIDE DEF stage
  <2>3. new \in Members /\ new.presence # "absent" /\ new.ready = FALSE
    BY <1>1, <2>2 DEF Members
  <2> HIDE DEF new
  <2> QED
    BY <2>1, <2>3, HostNotes
<1>3. ASSUME NEW ready \in BOOLEAN, HostReceivesReady(c, ready) PROVE IInv'
  <2> DEFINE message == IF ready THEN "READY" ELSE "NOT_READY"
             new == [member[c] EXCEPT !.ready = ready]
  <2>1. /\ member' = [member EXCEPT ![c] = new] /\ HostReceives(c, message)
        /\ UNCHANGED <<host, client, toClient>>
    BY <1>1, <1>3 DEF HostReceivesReady
  <2>2. /\ message # "EVENT_JOIN" /\ (ready <=> message = "READY")
    OBVIOUS
  <2> HIDE DEF message
  <2>3. member[c].presence # "absent"
    BY <1>1, <2>1, RestOfQueue
  <2>4. new \in Members /\ new.presence # "absent" /\ new.ready = ready
    BY <1>1, <2>3 DEF Members
  <2> HIDE DEF new
  <2>5. new.ready = IF message = "EVENT_JOIN" THEN FALSE ELSE message = "READY"
    BY <2>2, <2>4
  <2> QED
    BY <2>1, <2>4, <2>5, HostNotes
<1> QED
  BY <1>2, <1>3

\* A player goes: its record is emptied and, if it had joined, the others are told.
LEMMA HostLoses ==
  ASSUME IInv, NEW c \in Client, NEW message \in {"EVENT_LEAVE", "DISCONNECT"},
         HostReceives(c, message), NEW new \in Members,
         member' = [member EXCEPT ![c] = new], client' = client,
         ~new.ready, new.presence = "absent" => message = "DISCONNECT",
         ClearPlayerSlot(c) \/ UNCHANGED <<host, toClient>>
  PROVE  IInv'
<1>1. TypeOK /\ Slot(c) /\ \A d \in Client : Slot(d)
  BY DEF IInv
<1>2. /\ toHost' \in [Client -> Seq(Report)]
      /\ \A d \in Client \ {c} : toHost'[d] = toHost[d]
      /\ \A i \in DOMAIN toHost'[c] : toHost'[c][i] # "EVENT_JOIN"
      /\ LastWord(c)'
      /\ message = "DISCONNECT" => toHost'[c] = <<>>
      /\ client[c].status = "out"
      /\ Reads(toHost'[c], "EVENT_JOIN", "READY", FALSE) = client[c].ready
  <2>1. message # "EVENT_JOIN" /\ (message = "READY") = FALSE
    OBVIOUS
  <2> QED
    BY <1>1, <2>1, RestOfQueue
<1>3. /\ member' \in [Client -> Members] /\ member'[c] = new
      /\ \A d \in Client \ {c} : member'[d] = member[d]
  BY <1>1, Types
<1>4. Gone(c) /\ client[c] = Out /\ toClient[c] = <<>>
  BY <1>1, <1>2 DEF Slot, Gone
<1>5. ASSUME toClient'[c] = toClient[c] PROVE Slot(c)'
  <2>1. Gone(c)' /\ Here(c)' /\ FirstWord(c)' /\ Left(c)'
    BY <1>2, <1>3, <1>4, <1>5 DEF Gone, Here, FirstWord, Left
  <2>2. Truthful(c)'
    <3>1. member'[c].ready = FALSE
      BY <1>3 DEF Members
    <3> QED
      BY <1>2, <3>1 DEF Truthful
  <2>3. Accompanied(c)'
    <3>1. client'[c].countdown = FALSE /\ toClient'[c] = <<>>
      BY <1>4, <1>5 DEF Out
    <3> QED
      BY <3>1, ReadsNothing DEF Accompanied
  <2> QED
    BY <1>2, <2>1, <2>2, <2>3 DEF Slot
<1>6. CASE UNCHANGED <<host, toClient>>
  <2>1. TypeOK'
    BY <1>1, <1>2, <1>3, <1>6, Types DEF TypeOK, Members
  <2>2. ASSUME NEW d \in Client \ {c} PROVE Slot(d)'
    BY <1>1, <1>2, <1>3, <1>6, SlotLeftAlone
  <2> QED
    BY <1>5, <1>6, <2>1, <2>2 DEF IInv
<1>7. CASE ClearPlayerSlot(c)
  <2> DEFINE first == IF host.countdown THEN <<"CANCEL_COUNTDOWN">> ELSE <<>>
             messages == IF host.countdown THEN <<"CANCEL_COUNTDOWN", "EVENT_LEAVE">>
                         ELSE <<"EVENT_LEAVE">>
             targets == Listeners \ {c}
  <2>1. host' \in Hosts /\ Broadcast(targets, messages)
    BY <1>1, <1>7, Types DEF ClearPlayerSlot, Hosts
  <2>2. /\ "EVENT_LEAVE" \in Message /\ first \in Seq(Message) /\ messages \in Seq(Message)
        /\ messages = Append(first, "EVENT_LEAVE")
    <3>1. "EVENT_LEAVE" \in Message /\ "CANCEL_COUNTDOWN" \in Message
      BY DEF Message
    <3>2. CASE host.countdown
      BY <3>1, <3>2
    <3>3. CASE ~host.countdown
      BY <3>1, <3>3
    <3> QED
      BY <3>2, <3>3
  <2> HIDE DEF first, messages
  <2>3. \A d \in Client \ targets : client[d].status = "out"
    BY <1>1, <1>2, HereListens
  <2>4. \A d \in targets \cap Client : client[d].status # "out"
    BY DEF Listeners
  <2>8. c \notin targets
    OBVIOUS
  <2> HIDE DEF targets
  <2>5. toClient' \in [Client -> Seq(Message)] /\ toClient'[c] = toClient[c]
    BY <1>1, <2>1, <2>2, <2>8, BroadcastMeans
  <2>6. ASSUME NEW d \in Client \ {c} PROVE Slot(d)'
    <3>1. member'[d] = member[d] /\ client'[d] = client[d] /\ toHost'[d] = toHost[d]
      BY <1>2, <1>3
    <3> QED
      BY <2>1, <2>2, <2>3, <2>4, <3>1, AllToldToStop
  <2>7. TypeOK'
    BY <1>1, <1>2, <1>3, <2>1, <2>5, Types DEF TypeOK, Members, Hosts
  <2> QED
    BY <1>5, <2>5, <2>6, <2>7 DEF IInv
<1> QED
  BY <1>6, <1>7

LEMMA HostLosesStep ==
  ASSUME IInv, NEW c \in Client, HostReceivesLeave(c) \/ HostSeesDisconnect(c)
  PROVE  IInv'
<1>1. TypeOK /\ member \in [Client -> Members] /\ member[c] \in Members
  BY Types DEF IInv
<1>2. CASE HostReceivesLeave(c)
  <2> DEFINE new == [member[c] EXCEPT !.presence = "present", !.ready = FALSE]
  <2>1. /\ member' = [member EXCEPT ![c] = new] /\ HostReceives(c, "EVENT_LEAVE")
        /\ ClearPlayerSlot(c) /\ client' = client
    BY <1>1, <1>2 DEF HostReceivesLeave
  <2>2. new \in Members /\ new.presence = "present" /\ ~new.ready
    BY <1>1 DEF Members
  <2> HIDE DEF new
  <2> QED
    BY <2>1, <2>2, HostLoses
<1>3. CASE HostSeesDisconnect(c)
  <2>1. /\ member' = [member EXCEPT ![c] = Nobody] /\ HostReceives(c, "DISCONNECT")
        /\ ClearPlayerSlot(c) \/ UNCHANGED <<host, toClient>>
        /\ client' = client
    BY <1>3 DEF HostSeesDisconnect
  <2> QED
    BY <2>1, NobodyIsMember, HostLoses
<1> QED
  BY <1>2, <1>3

----------------------------------------------------------------------------
(* The theorems                                                            *)

LEMMA InitIsGood == ASSUME Init PROVE IInv
<1>1. /\ host = [status |-> "lobby", countdown |-> FALSE, seconds |-> 0]
      /\ member = [c \in Client |-> Nobody] /\ client = [c \in Client |-> Out]
      /\ toHost = [c \in Client |-> <<>>] /\ toClient = [c \in Client |-> <<>>]
  BY DEF Init
<1>2. TypeOK
  <2>1. host \in Hosts
    BY <1>1, LobbyConstants DEF Hosts
  <2>2. <<>> \in Seq(Message) /\ <<>> \in Seq(Report)
    OBVIOUS
  <2> QED
    BY <1>1, <2>1, <2>2, Types, OutIsClient, NobodyIsMember
<1>3. ASSUME NEW c \in Client PROVE Slot(c)
  <2>1. /\ member[c] = Nobody /\ client[c] = Out /\ toHost[c] = <<>> /\ toClient[c] = <<>>
    BY <1>1
  <2>2. Gone(c) /\ Here(c) /\ FirstWord(c) /\ LastWord(c) /\ Left(c)
    BY <2>1, OutIsClient, NobodyIsMember DEF Gone, Here, FirstWord, LastWord, Left
  <2>3. /\ member[c].ready = FALSE /\ client[c].ready = FALSE
        /\ client[c].countdown = FALSE
    BY <2>1 DEF Nobody, Out
  <2>4. Truthful(c) /\ Accompanied(c)
    BY <2>1, <2>3, ReadsNothing DEF Truthful, Accompanied
  <2> QED
    BY <2>2, <2>4 DEF Slot
<1> QED
  BY <1>2, <1>3 DEF IInv

LEMMA StepKeepsIInv == ASSUME IInv, [Next]_vars PROVE IInv'
<1>1. CASE UNCHANGED vars
  <2>1. TypeOK'
    BY <1>1 DEF vars, IInv, TypeOK
  <2>2. ASSUME NEW d \in Client PROVE Slot(d)'
    BY <1>1, SlotLeftAlone DEF vars, IInv
  <2> QED
    BY <2>1, <2>2 DEF IInv
<1>2. CASE Next
  BY <1>2, EnterStep, ToggleReadyStep, DepartStep, ReceiveStep, LoadStep, HostReceivesStep,
     HostLosesStep, BootstrapStep, StartCountdownStep, CancelCountdownStep, SecondPassesStep,
     OnTickStep, HostSpawnsStep
  DEF Next, HostHandles
<1> QED
  BY <1>1, <1>2

\* The invariant of Lobby, for any number of slots.
THEOREM LobbyInvariant == Spec => []IInv
BY InitIsGood, StepKeepsIInv, PTL DEF Spec

\* The host's records, the clients' and the messages keep their types; the
\* countdown of mp-lobby-progress.gc never runs below zero.
THEOREM LobbyTypeCorrect == Spec => []TypeOK
BY LobbyInvariant, PTL DEF IInv

\* Once all has arrived, the host's record of a slot shows the readiness that its
\* player's own menu shows (mp_handle_join_packet, LOBBY_ACTION).
THEOREM ReadinessStaysTrue == Spec => []ReadinessIsTrue
<1>1. ASSUME IInv PROVE ReadinessIsTrue
  <2>1. ASSUME NEW c \in Client PROVE WillBeReady(c) = client[c].ready
    <3>1. Reads(toHost[c], "EVENT_JOIN", "READY", member[c].ready) = client[c].ready
      BY <1>1 DEF IInv, Slot, Truthful
    <3>2. WillBeReady(c) = Reads(toHost[c], "EVENT_JOIN", "READY", member[c].ready)
      BY DEF WillBeReady, Reads, Silent, Says
    <3> QED
      BY <3>1, <3>2
  <2> QED
    BY <2>1 DEF ReadinessIsTrue
<1> QED
  BY <1>1, LobbyInvariant, PTL

\* No client is left behind a countdown that the host has ended, by a launch, a
\* cancellation or a departure (mp-lobby-progress.gc, mp_clear_player_slot).
THEOREM NoCountdownIsOrphaned == Spec => []NoOrphanCountdown
<1>1. ASSUME IInv PROVE NoOrphanCountdown
  <2>1. ASSUME NEW c \in Client, WillCount(c) PROVE host.status = "lobby" /\ host.countdown
    <3>1. Reads(toClient[c], "BOOTSTRAP", "START_COUNTDOWN", client[c].countdown)
            => host.status = "lobby" /\ host.countdown
      BY <1>1 DEF IInv, Slot, Accompanied
    <3>2. WillCount(c) => Reads(toClient[c], "BOOTSTRAP", "START_COUNTDOWN", client[c].countdown)
      BY DEF WillCount, Reads, Silent, Says
    <3> QED
      BY <2>1, <3>1, <3>2
  <2> QED
    BY <2>1 DEF NoOrphanCountdown
<1> QED
  BY <1>1, LobbyInvariant, PTL
============================================================================
