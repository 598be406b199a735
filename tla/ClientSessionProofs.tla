------------------------ MODULE ClientSessionProofs ------------------------
(***************************************************************************)
(* The safety properties of ClientSession: whatever order the network, the *)
(* deadlines, the menus and the bootstrap controller take, a client never  *)
(* waits for nobody, an attempt to reconnect keeps its invite, nothing     *)
(* reconnects a client whose host has left, and the back-off only grows    *)
(* while the session goes on.                                              *)
(***************************************************************************)
EXTENDS ClientSession, TLAPS

\* The handshake's clock and the transport go together: a peer that has not
\* proved itself is timed, and only a peer is timed or polled.
Timed ==
  /\ link = "connected" => data.handshake
  /\ data.handshake => link # "none"
  /\ pc = "poll" => link # "none"

\* Nothing is left of a session that the host has closed.
Over == data.status = "host_left" => link = "gone" /\ ~data.attempt

\* A transport that has not been welcomed belongs to an attempt, if any attempt failed.
Counted ==
  link \in {"connecting", "connected", "proved"} /\ data.count # 0 => data.attempt

IInv == TypeOK /\ SomebodyWillAnswer /\ AttemptsHaveInvite /\ Timed /\ Over /\ Counted

Data == [status : Status, attempt : BOOLEAN, waiting : BOOLEAN, count : 0 .. LastDelay,
         armed : BOOLEAN, invite : BOOLEAN, handshake : BOOLEAN, assigned : BOOLEAN]
Game == [phase : {"none", "announced", "loading"}, player : BOOLEAN, recovering : BOOLEAN]

----------------------------------------------------------------------------
(* What the handlers make of MultiplayerData, field by field               *)

LEMMA ClearedFields ==
  ASSUME NEW d \in Data
  PROVE  /\ Cleared(d) \in Data
         /\ ~Cleared(d).attempt /\ ~Cleared(d).waiting /\ Cleared(d).count = 0
         /\ Cleared(d).status = d.status /\ (Cleared(d).handshake <=> d.handshake)
         /\ (Cleared(d).invite <=> d.invite)
<1>1. 0 \in 0 .. LastDelay
  BY DEF LastDelay
<1> QED
  BY <1>1 DEF Cleared, Data

LEMMA KeptFields ==
  ASSUME NEW d \in Data
  PROVE  /\ Disconnected(d, TRUE) \in Data
         /\ Disconnected(d, TRUE).status = "reconnecting" /\ ~Disconnected(d, TRUE).handshake
         /\ (Disconnected(d, TRUE).attempt <=> d.attempt)
         /\ (Disconnected(d, TRUE).waiting <=> d.waiting)
         /\ Disconnected(d, TRUE).count = d.count /\ (Disconnected(d, TRUE).invite <=> d.invite)
BY DEF Disconnected, Data, Status

LEMMA DisconnectedFields ==
  ASSUME NEW d \in Data
  PROVE  /\ Disconnected(d, FALSE) \in Data
         /\ Disconnected(d, FALSE).status = IF link = "none" THEN d.status ELSE "idle"
         /\ ~Disconnected(d, FALSE).handshake /\ ~Disconnected(d, FALSE).attempt
         /\ ~Disconnected(d, FALSE).waiting /\ Disconnected(d, FALSE).count = 0
<1> DEFINE closed == [d EXCEPT !.status = IF link = "none" THEN @ ELSE "idle", !.handshake = FALSE]
<1>1. /\ closed \in Data /\ ~closed.handshake
      /\ closed.status = IF link = "none" THEN d.status ELSE "idle"
  BY DEF Data, Status
<1>2. Disconnected(d, FALSE) = [Cleared(closed) EXCEPT !.invite = FALSE]
  BY DEF Disconnected
<1> DEFINE cleared == Cleared(closed)
<1>3. /\ cleared \in Data /\ cleared.status = closed.status /\ ~cleared.handshake
      /\ ~cleared.attempt /\ ~cleared.waiting /\ cleared.count = 0
  <2> HIDE DEF closed
  <2> QED
    BY <1>1, ClearedFields
<1> HIDE DEF closed, cleared
<1> QED
  BY <1>1, <1>2, <1>3 DEF cleared, Data

LEMMA EnterReconnectFields ==
  ASSUME NEW d \in Data
  PROVE  /\ EnterReconnect(d) \in Data
         /\ EnterReconnect(d).status = "reconnecting"
         /\ EnterReconnect(d).attempt => d.attempt
         /\ EnterReconnect(d).waiting => d.waiting
         /\ EnterReconnect(d).count = d.count /\ (EnterReconnect(d).invite <=> d.invite)
         /\ (EnterReconnect(d).handshake <=> d.handshake)
<1>1. CASE d.status = "reconnecting"
  BY <1>1 DEF EnterReconnect
<1>2. CASE d.status # "reconnecting"
  <2>1. EnterReconnect(d) =
          [d EXCEPT !.status = "reconnecting", !.attempt = FALSE, !.waiting = FALSE, !.armed = TRUE]
    BY <1>2 DEF EnterReconnect
  <2> QED
    BY <2>1 DEF Data, Status
<1> QED
  BY <1>1, <1>2

LEMMA NoteFailedFields ==
  ASSUME NEW d \in Data
  PROVE  /\ NoteFailed(d) \in Data
         /\ NoteFailed(d).status = "reconnecting"
         /\ ~NoteFailed(d).attempt /\ ~NoteFailed(d).waiting
         /\ NoteFailed(d).count >= d.count /\ (NoteFailed(d).handshake <=> d.handshake)
<1> DEFINE n == IF d.count < LastDelay THEN d.count + 1 ELSE d.count
<1>1. n \in 0 .. LastDelay /\ n >= d.count
  BY DEF Data, LastDelay
<1>2. NoteFailed(d) = [d EXCEPT !.status = "reconnecting", !.attempt = FALSE, !.waiting = FALSE,
                                !.armed = TRUE, !.count = n]
  BY DEF NoteFailed
<1> HIDE DEF n
<1>3. NoteFailed(d) \in Data
  BY <1>1, <1>2 DEF Data, Status
<1>4. /\ NoteFailed(d).status = "reconnecting" /\ ~NoteFailed(d).attempt
      /\ ~NoteFailed(d).waiting /\ NoteFailed(d).count = n
  BY <1>2 DEF Data
<1>5. NoteFailed(d).handshake <=> d.handshake
  BY <1>2, Zenon DEF Data
<1> QED
  BY <1>1, <1>3, <1>4, <1>5

LEMMA NoteAuthenticatedFields ==
  ASSUME NEW d \in Data
  PROVE  /\ NoteAuthenticated(d) \in Data
         /\ ~NoteAuthenticated(d).attempt
         /\ (NoteAuthenticated(d).waiting <=> (d.attempt \/ d.waiting))
         /\ NoteAuthenticated(d).count = IF d.attempt \/ d.waiting THEN d.count ELSE 0
         /\ (NoteAuthenticated(d).invite <=> d.invite)
<1> DEFINE n == IF d.attempt \/ d.waiting THEN d.count ELSE 0
           w == d.attempt \/ d.waiting
<1>1. n \in 0 .. LastDelay /\ w \in BOOLEAN
  BY DEF Data, LastDelay
<1>2. NoteAuthenticated(d) = [d EXCEPT !.attempt = FALSE, !.waiting = w, !.armed = FALSE,
                                       !.count = n]
  BY DEF NoteAuthenticated
<1>3. /\ NoteAuthenticated(d) \in Data /\ ~NoteAuthenticated(d).attempt
      /\ (NoteAuthenticated(d).waiting <=> w) /\ NoteAuthenticated(d).count = n
      /\ (NoteAuthenticated(d).invite <=> d.invite)
  <2> HIDE DEF n, w
  <2> QED
    BY <1>1, <1>2 DEF Data
<1> QED
  BY <1>3

LEMMA SetStatusFields ==
  ASSUME NEW d \in Data, NEW status \in Status
  PROVE  /\ SetStatus(d, status) \in Data
         /\ SetStatus(d, status).status = status
         /\ SetStatus(d, status).attempt => d.attempt
         /\ SetStatus(d, status).waiting => d.waiting
         /\ (SetStatus(d, status).handshake <=> d.handshake)
         /\ (SetStatus(d, status).invite <=> d.invite)
         /\ \/ (SetStatus(d, status).attempt <=> d.attempt) /\ SetStatus(d, status).count = d.count
            \/ SetStatus(d, status).count = 0
<1> DEFINE set == [d EXCEPT !.status = status]
<1>1. /\ set \in Data /\ set.status = status /\ (set.attempt <=> d.attempt)
      /\ (set.waiting <=> d.waiting) /\ (set.handshake <=> d.handshake) /\ (set.invite <=> d.invite)
      /\ set.count = d.count
  BY DEF Data
<1>2. SetStatus(d, status) = IF status = "in_game" /\ d.waiting THEN Cleared(set) ELSE set
  BY DEF SetStatus
<1> HIDE DEF set
<1> QED
  BY <1>1, <1>2, ClearedFields

LEMMA SetUpFields ==
  ASSUME NEW d \in Data, NEW created \in BOOLEAN
  PROVE  /\ SetUp(d, created) \in Data
         /\ SetUp(d, created).status = IF created THEN "connecting" ELSE "failed"
         /\ (SetUp(d, created).attempt <=> d.attempt) /\ (SetUp(d, created).waiting <=> d.waiting)
         /\ SetUp(d, created).count = d.count /\ (SetUp(d, created).invite <=> d.invite)
         /\ (SetUp(d, created).handshake <=> d.handshake)
BY DEF SetUp, Data, Status

LEMMA TriedFields ==
  ASSUME NEW d \in Data, NEW created \in BOOLEAN
  PROVE  /\ Tried(d, created) \in Data
         /\ Tried(d, created).status = IF created THEN "connecting" ELSE "failed"
         /\ ~Tried(d, created).handshake
         /\ (Tried(d, created).invite <=> d.invite) /\ Tried(d, created).count = d.count
         /\ created => Tried(d, created).attempt
<1> DEFINE kept == Disconnected(d, TRUE)
           again == SetUp(kept, created)
<1>1. /\ kept \in Data /\ ~kept.handshake
      /\ (kept.invite <=> d.invite) /\ kept.count = d.count
  BY KeptFields
<1>2. Tried(d, created) = IF created THEN [again EXCEPT !.attempt = TRUE, !.waiting = FALSE,
                                                        !.armed = FALSE] ELSE again
  BY DEF Tried
<1> HIDE DEF kept
<1>3. /\ again \in Data /\ ~again.handshake /\ (again.invite <=> d.invite)
      /\ again.status = IF created THEN "connecting" ELSE "failed"
      /\ again.count = d.count
  BY <1>1, SetUpFields
<1> HIDE DEF again
<1> QED
  BY <1>2, <1>3 DEF Data

LEMMA TickedIsGame == ASSUME NEW d \in Data, game \in Game PROVE Ticked(d) \in Game
BY DEF Ticked, Game, Data


----------------------------------------------------------------------------
(* Every action preserves the invariant                                    *)

\* A step of the frame that leaves the session and its transport alone.
LEMMA FrameStep ==
  ASSUME IInv, UNCHANGED <<data, link>>, game' \in Game, pc' \in {"frame", "poll"},
         pc' = "poll" => link # "none"
  PROVE  IInv'
<1>1. TypeOK'
  BY DEF IInv, TypeOK, Game
<1>2. SomebodyWillAnswer' /\ AttemptsHaveInvite' /\ Timed' /\ Over' /\ Counted'
  BY DEF IInv, SomebodyWillAnswer, AttemptsHaveInvite, Timed, Over, Counted
<1> QED
  BY <1>1, <1>2 DEF IInv

LEMMA TypeOKFields == ASSUME IInv PROVE data \in Data /\ game \in Game
BY DEF IInv, TypeOK, Data, Game

LEMMA RetryStep == ASSUME IInv, Retry PROVE IInv'
<1>1. data \in Data /\ game \in Game /\ data.status = "reconnecting" /\ pc = "frame"
  BY DEF Retry, RetryArmed, IInv, TypeOK, Data, Game
<1>2. game' \in Game /\ (pc' = "poll" => link' # "none") /\ pc' \in {"frame", "poll"}
  <2>1. data' \in Data
    <3>1. CASE ~data.invite
      BY <1>1, <3>1 DEF Retry, Data, Status
    <3>2. CASE data.invite
      <4>1. Tried(data, TRUE) \in Data /\ NoteFailed(Tried(data, FALSE)) \in Data
        BY <1>1, TriedFields, NoteFailedFields
      <4> QED
        BY <3>2, <4>1 DEF Retry
    <3> QED
      BY <3>1, <3>2
  <2> QED
    BY <1>1, <2>1, TickedIsGame DEF Retry
<1>3. CASE ~data.invite
  <2>1. data' = [data EXCEPT !.status = "failed"] /\ link' = link
    BY <1>3 DEF Retry
  <2> QED
    BY <1>1, <1>2, <2>1
    DEF IInv, TypeOK, Data, Game, SomebodyWillAnswer, AttemptsHaveInvite, Timed,
       Over, Counted, Status, Link
<1>4. CASE data.invite
  <2>1. PICK created \in BOOLEAN :
          /\ data' = IF created THEN Tried(data, TRUE) ELSE NoteFailed(Tried(data, FALSE))
          /\ link' = LinkSetUp(created)
    BY <1>4 DEF Retry
  <2>2. CASE created
    BY <1>1, <1>2, <1>4, <2>1, <2>2, TriedFields
    DEF IInv, TypeOK, Data, Game, SomebodyWillAnswer, AttemptsHaveInvite, Timed,
       Over, Counted, Status, Link, LinkSetUp
  <2>3. CASE ~created
    <3> DEFINE tried == Tried(data, FALSE)
    <3>1. tried \in Data /\ ~tried.handshake
      BY <1>1, TriedFields
    <3> HIDE DEF tried
    <3>2. /\ data' = NoteFailed(tried) /\ data' \in Data /\ data'.status = "reconnecting"
          /\ ~data'.attempt /\ ~data'.waiting /\ ~data'.handshake /\ link' = "none"
      BY <2>1, <2>3, <3>1, NoteFailedFields DEF tried, LinkSetUp
    <3> QED
      BY <1>2, <3>2
      DEF IInv, TypeOK, Data, Game, SomebodyWillAnswer, AttemptsHaveInvite, Timed,
       Over, Counted, Status, Link
  <2> QED
    BY <2>2, <2>3
<1> QED
  BY <1>3, <1>4

LEMMA BeginPollStep == ASSUME IInv, BeginPoll PROVE IInv'
<1>1. UNCHANGED <<data, link>> /\ pc' \in {"frame", "poll"} /\ (pc' = "poll" => link # "none")
  BY DEF BeginPoll
<1>2. game' \in Game
  BY TickedIsGame, TypeOKFields DEF BeginPoll
<1> QED
  BY <1>1, <1>2, FrameStep

LEMMA IdleTickStep == ASSUME IInv, IdleTick PROVE IInv'
<1>1. UNCHANGED <<data, link>> /\ pc' = "frame"
  BY DEF IdleTick
<1>2. game' \in Game
  BY TypeOKFields DEF IdleTick, Game
<1> QED
  BY <1>1, <1>2, FrameStep

LEMMA StartLoadStep == ASSUME IInv, StartLoad PROVE IInv'
BY SetStatusFields
   DEF IInv, TypeOK, Data, Game, SomebodyWillAnswer, AttemptsHaveInvite, Timed,
       Over, Counted, Status, Link,
       StartLoad

LEMMA FinishStep == ASSUME IInv, Finish PROVE IInv'
BY SetStatusFields
   DEF IInv, TypeOK, Data, Game, SomebodyWillAnswer, AttemptsHaveInvite, Timed,
       Over, Counted, Status, Link,
       Finish

LEMMA JoinStep == ASSUME IInv, NEW saved \in BOOLEAN, Join(saved) PROVE IInv'
<1> DEFINE left == Disconnected(data, FALSE)
           joining == [left EXCEPT !.invite = saved]
<1>1. data \in Data /\ game \in Game /\ pc = "frame" /\ UNCHANGED <<pc, game>>
  BY DEF Join, IInv, TypeOK, Data, Game
<1>2. left \in Data /\ ~left.handshake /\ ~left.attempt /\ ~left.waiting /\ left.count = 0
  BY <1>1, DisconnectedFields
<1>3. \/ data' = [left EXCEPT !.status = "failed"] /\ link' = "none"
      \/ \E created \in BOOLEAN :
           data' = SetUp(joining, created) /\ link' = LinkSetUp(created)
  BY DEF Join
<1> HIDE DEF left
<1>4. CASE data' = [left EXCEPT !.status = "failed"] /\ link' = "none"
  BY <1>1, <1>2, <1>4
  DEF IInv, TypeOK, Data, Game, SomebodyWillAnswer, AttemptsHaveInvite, Timed,
       Over, Counted, Status, Link
<1>5. ASSUME NEW created \in BOOLEAN, data' = SetUp(joining, created), link' = LinkSetUp(created)
      PROVE  IInv'
  <2>1. /\ joining \in Data /\ ~joining.handshake /\ ~joining.attempt /\ ~joining.waiting
        /\ joining.count = 0
    BY <1>2 DEF Data
  <2> HIDE DEF joining
  <2>2. /\ data' \in Data /\ ~data'.handshake /\ ~data'.attempt /\ ~data'.waiting
        /\ data'.count = 0 /\ data'.status = IF created THEN "connecting" ELSE "failed"
    BY <1>5, <2>1, SetUpFields
  <2> QED
    BY <1>1, <1>5, <2>2
    DEF IInv, TypeOK, Data, Game, SomebodyWillAnswer, AttemptsHaveInvite, Timed,
       Over, Counted, Status, Link, LinkSetUp
<1> QED
  BY <1>3, <1>4, <1>5

\* A step of the frame after which there is no session: the transport is gone
\* and nothing is tracked.
LEMMA SessionGone ==
  ASSUME IInv, pc = "frame", pc' = pc, game' \in Game, link' = "none",
         data' \in Data, ~data'.handshake, ~data'.attempt, ~data'.waiting,
         data'.status \notin {"connecting", "connected_lobby", "host_left"}
  PROVE  IInv'
BY DEF IInv, TypeOK, Data, Game, SomebodyWillAnswer, AttemptsHaveInvite, Timed,
       Over, Counted, Status, Link

LEMMA LeaveStep == ASSUME IInv, Leave PROVE IInv'
<1> DEFINE left == Disconnected(data, FALSE)
<1>1. /\ data \in Data /\ pc = "frame" /\ pc' = pc /\ game' \in Game /\ link' = "none"
      /\ data' = SetStatus(left, "idle")
  BY TypeOKFields DEF Leave
<1>2. left \in Data /\ ~left.handshake /\ ~left.attempt /\ ~left.waiting
  BY <1>1, DisconnectedFields
<1> HIDE DEF left
<1>3. "idle" \in Status
  BY DEF Status
<1>4. /\ data' \in Data /\ ~data'.handshake /\ ~data'.attempt /\ ~data'.waiting
      /\ data'.status = "idle"
  BY <1>1, <1>2, <1>3, SetStatusFields
<1> QED
  BY <1>1, <1>4, SessionGone

LEMMA QuitGameStep == ASSUME IInv, QuitGame PROVE IInv'
BY DisconnectedFields
   DEF IInv, TypeOK, Data, Game, SomebodyWillAnswer, AttemptsHaveInvite, Timed,
       Over, Counted, Status, Link,
       QuitGame, Polled

LEMMA ManualReconnectStep == ASSUME IInv, ManualReconnect PROVE IInv'
<1>1. /\ data \in Data /\ pc = "frame" /\ pc' = pc
      /\ data.status \in {"game_starting", "in_game"} /\ game' \in Game
  BY DEF ManualReconnect, IInv, TypeOK, Data, Game
<1>2. CASE ~data.invite
  <2>1. data' = [data EXCEPT !.status = "failed"] /\ link' = link
    BY <1>2 DEF ManualReconnect
  <2> QED
    BY <1>1, <2>1
    DEF IInv, TypeOK, Data, Game, SomebodyWillAnswer, AttemptsHaveInvite, Timed,
       Over, Counted, Status, Link
<1>3. CASE data.invite
  <2>1. PICK created \in BOOLEAN : data' = Tried(data, created) /\ link' = LinkSetUp(created)
    BY <1>3 DEF ManualReconnect
  <2>2. /\ data' \in Data /\ ~data'.handshake /\ data'.invite /\ (created => data'.attempt)
        /\ data'.status = IF created THEN "connecting" ELSE "failed"
    BY <1>1, <1>3, <2>1, TriedFields
  <2> QED
    BY <1>1, <2>1, <2>2
    DEF IInv, TypeOK, Data, Game, SomebodyWillAnswer, AttemptsHaveInvite, Timed,
       Over, Counted, Status, Link, LinkSetUp
<1> QED
  BY <1>2, <1>3

LEMMA ConnectedStep == ASSUME IInv, Connected PROVE IInv'
<1>1. /\ data' = [data EXCEPT !.handshake = TRUE] /\ link = "connecting" /\ link' = "connected"
      /\ pc = "poll" /\ UNCHANGED <<pc, game>>
  BY DEF Connected
<1>2. /\ data' \in Data /\ data'.handshake /\ data'.status = data.status
      /\ (data'.attempt <=> data.attempt) /\ (data'.waiting <=> data.waiting)
      /\ data'.count = data.count /\ (data'.invite <=> data.invite)
  BY <1>1, TypeOKFields DEF Data
<1> QED
  BY <1>1, <1>2
  DEF IInv, TypeOK, Data, Game, SomebodyWillAnswer, AttemptsHaveInvite, Timed, Over, Counted, Link

LEMMA AnswerNotSentStep == ASSUME IInv, AnswerNotSent PROVE IInv'
BY DEF IInv, TypeOK, Data, Game, SomebodyWillAnswer, AttemptsHaveInvite, Timed,
       Over, Counted, Status, Link,
       AnswerNotSent

LEMMA ReceiveProofStep == ASSUME IInv, ReceiveProof PROVE IInv'
BY DEF IInv, TypeOK, Data, Game, SomebodyWillAnswer, AttemptsHaveInvite, Timed,
       Over, Counted, Status, Link,
       ReceiveProof

LEMMA ReceiveVersionMismatchStep == ASSUME IInv, ReceiveVersionMismatch PROVE IInv'
BY DEF IInv, TypeOK, Data, Game, SomebodyWillAnswer, AttemptsHaveInvite, Timed,
       Over, Counted, Status, Link,
       ReceiveVersionMismatch

LEMMA ReceiveWelcomeStep == ASSUME IInv, ReceiveWelcome PROVE IInv'
<1> DEFINE noted == NoteAuthenticated(data)
<1>1. noted \in Data /\ ~noted.attempt /\ (noted.waiting => noted.invite)
  BY NoteAuthenticatedFields DEF IInv, TypeOK, Data, AttemptsHaveInvite
<1>2. data' = [noted EXCEPT !.status = "connected_lobby", !.assigned = TRUE, !.handshake = FALSE]
  BY DEF ReceiveWelcome
<1> HIDE DEF noted
<1>3. /\ data' \in Data /\ data'.status = "connected_lobby" /\ ~data'.handshake
      /\ ~data'.attempt /\ (data'.waiting => data'.invite)
  BY <1>1, <1>2 DEF Data, Status
<1> QED
  BY <1>3
  DEF IInv, TypeOK, Data, Game, SomebodyWillAnswer, AttemptsHaveInvite, Timed,
       Over, Counted, Status, Link,
      ReceiveWelcome

LEMMA ReceiveLobbyActionStep ==
  ASSUME IInv, NEW status \in {"connected_lobby", "game_starting"}, ReceiveLobbyAction(status)
  PROVE  IInv'
BY DEF IInv, TypeOK, Data, Game, SomebodyWillAnswer, AttemptsHaveInvite, Timed,
       Over, Counted, Status, Link,
       ReceiveLobbyAction

LEMMA ReceiveBootstrapStep == ASSUME IInv, ReceiveBootstrap PROVE IInv'
BY DEF IInv, TypeOK, Data, Game, SomebodyWillAnswer, AttemptsHaveInvite, Timed,
       Over, Counted, Status, Link,
       ReceiveBootstrap

LEMMA ReceiveHostLeaveStep == ASSUME IInv, ReceiveHostLeave PROVE IInv'
<1> DEFINE cleared == Cleared(data)
<1>1. cleared \in Data /\ ~cleared.attempt /\ ~cleared.waiting /\ cleared.count = 0
  BY TypeOKFields, ClearedFields
<1>2. /\ data' = [[cleared EXCEPT !.status = "host_left"] EXCEPT !.handshake = FALSE]
      /\ link' = "gone" /\ UNCHANGED <<pc, game>>
  BY DEF ReceiveHostLeave, HostClosed
<1> HIDE DEF cleared
<1>3. /\ data' \in Data /\ data'.status = "host_left" /\ ~data'.handshake
      /\ ~data'.attempt /\ ~data'.waiting /\ data'.count = 0
  BY <1>1, <1>2 DEF Data, Status
<1> QED
  BY <1>2, <1>3
  DEF IInv, TypeOK, Data, Game, SomebodyWillAnswer, AttemptsHaveInvite, Timed, Over, Counted, Link

LEMMA DisconnectStep == ASSUME IInv, NEW reason \in Reason, Disconnect(reason) PROVE IInv'
BY EnterReconnectFields, ClearedFields
   DEF IInv, TypeOK, Data, Game, SomebodyWillAnswer, AttemptsHaveInvite, Timed,
       Over, Counted, Status, Link,
       Disconnect, AfterDisconnect, HostClosed, Reason, Established

LEMMA EndPollStep == ASSUME IInv, EndPoll PROVE IInv'
BY TickedIsGame
   DEF IInv, TypeOK, Data, Game, SomebodyWillAnswer, AttemptsHaveInvite, Timed,
       Over, Counted, Status, Link,
       EndPoll

LEMMA HandshakeTimeoutStep == ASSUME IInv, HandshakeTimeout PROVE IInv'
<1>1. /\ data \in Data /\ game \in Game /\ pc' = "frame" /\ link' = "none" /\ link # "none"
      /\ game' = Ticked(data')
  BY TypeOKFields DEF HandshakeTimeout, IInv, Timed
<1>2. /\ data' \in Data /\ ~data'.handshake /\ ~data'.attempt /\ ~data'.waiting
      /\ data'.status \in {"reconnecting", "idle"}
  <2>1. CASE data.attempt \/ data.status = "reconnecting"
    BY <1>1, <2>1, KeptFields, NoteFailedFields DEF HandshakeTimeout
  <2>2. CASE ~(data.attempt \/ data.status = "reconnecting")
    BY <1>1, <2>2, DisconnectedFields DEF HandshakeTimeout
  <2> QED
    BY <2>1, <2>2
<1>3. game' \in Game
  BY <1>1, <1>2, TickedIsGame
<1> QED
  BY <1>1, <1>2, <1>3
  DEF IInv, TypeOK, Data, Game, SomebodyWillAnswer, AttemptsHaveInvite, Timed, Over, Counted, Link

LEMMA ReceiveTimeoutStep == ASSUME IInv, ReceiveTimeout PROVE IInv'
<1>1. /\ data \in Data /\ link = "welcomed" /\ link' = link /\ pc' = "frame"
      /\ data' = EnterReconnect(data) /\ game' = Ticked(data') /\ game \in Game
  BY TypeOKFields DEF ReceiveTimeout
<1>2. /\ data' \in Data /\ data'.status = "reconnecting" /\ (data'.attempt => data.attempt)
      /\ (data'.waiting => data.waiting) /\ (data'.invite <=> data.invite)
  BY <1>1, EnterReconnectFields
<1>3. game' \in Game
  BY <1>1, <1>2, TickedIsGame
<1> QED
  BY <1>1, <1>2, <1>3
  DEF IInv, TypeOK, Data, Game, SomebodyWillAnswer, AttemptsHaveInvite, Timed, Over, Counted, Link

LEMMA StepKeepsIInv == ASSUME IInv, [Next]_vars PROVE IInv'
<1>1. CASE UNCHANGED vars
  BY <1>1
  DEF vars, IInv, TypeOK, Data, Game, SomebodyWillAnswer, AttemptsHaveInvite, Timed,
       Over, Counted, Status, Link
<1>2. CASE Next
  BY <1>2, RetryStep, BeginPollStep, IdleTickStep, StartLoadStep, FinishStep, JoinStep,
     LeaveStep, QuitGameStep, ManualReconnectStep, ConnectedStep, AnswerNotSentStep,
     ReceiveProofStep, ReceiveVersionMismatchStep, ReceiveWelcomeStep, ReceiveLobbyActionStep,
     ReceiveBootstrapStep, ReceiveHostLeaveStep, DisconnectStep, EndPollStep,
     HandshakeTimeoutStep, ReceiveTimeoutStep
  DEF Next, Player, Network
<1> QED
  BY <1>1, <1>2

\* What holds at every step of a client: the invariant of ClientSession.
THEOREM ClientInvariant == Spec => []IInv
<1>1. Init => IInv
  BY DEF Init, IInv, TypeOK, SomebodyWillAnswer, AttemptsHaveInvite, Timed, Over, Counted,
         Status, Link, LastDelay
<1> QED
  BY <1>1, StepKeepsIInv, PTL DEF Spec

\* Every variable keeps its type, whatever the handlers of multiplayer_session.cpp
\* make of MultiplayerData.
THEOREM ClientTypeCorrect == Spec => []TypeOK
BY ClientInvariant, PTL DEF IInv

\* A client that is connecting has a transport that will answer or a handshake
\* that is timed, and one in the lobby has a host (multiplayer_session.cpp).
THEOREM ClientIsAnswered == Spec => []SomebodyWillAnswer
BY ClientInvariant, PTL DEF IInv

\* Every attempt to reconnect has the invite that the next one needs
\* (try_saved_reconnect, multiplayer_clear_session_state).
THEOREM InviteIsKept == Spec => []AttemptsHaveInvite
BY ClientInvariant, PTL DEF IInv

----------------------------------------------------------------------------
(* What a step may not do                                                  *)

LEMMA LeftStaysLeft ==
  ASSUME IInv, Next, data.status = "host_left"
  PROVE  data'.status \notin {"reconnecting", "connecting"}
<1>1. data \in Data /\ link = "gone" /\ ~data.attempt
  BY DEF IInv, TypeOK, Data, Over
<1>2. CASE QuitGame \/ HandshakeTimeout
  BY <1>1, <1>2, DisconnectedFields DEF QuitGame, HandshakeTimeout
<1>3. CASE StartLoad \/ Finish
  <2>1. PICK status \in {"game_starting", "in_game"} : data' = SetStatus(data, status)
    BY <1>3 DEF StartLoad, Finish
  <2> QED
    BY <1>1, <2>1, SetStatusFields DEF Status
<1>4. CASE BeginPoll \/ IdleTick \/ EndPoll
  BY <1>4 DEF BeginPoll, IdleTick, EndPoll
<1>5. ~Retry /\ ~Leave /\ ~ManualReconnect /\ \A saved \in BOOLEAN : ~Join(saved)
  BY DEF Retry, RetryArmed, Leave, ManualReconnect, Join, Polled, Status
<1>6. ~Network /\ ~ReceiveTimeout
  BY <1>1 DEF Network, Connected, AnswerNotSent, ReceiveProof, ReceiveVersionMismatch,
    ReceiveWelcome, ReceiveLobbyAction, ReceiveBootstrap, ReceiveHostLeave, Disconnect,
    ReceiveTimeout
<1> QED
  BY <1>2, <1>3, <1>4, <1>5, <1>6 DEF Next, Player

\* Nothing that is left of an attempt makes a client reconnect to a host that has
\* closed the session (multiplayer_cancel_client_reconnect).
THEOREM HostLeftStays == Spec => HostLeftIsFinal
<1>1. ASSUME IInv, [Next]_vars
      PROVE  [data.status = "host_left" => data'.status \notin {"reconnecting", "connecting"}]_vars
  BY <1>1, LeftStaysLeft
<1> QED
  BY <1>1, ClientInvariant, PTL DEF Spec, HostLeftIsFinal

LEMMA PollKeepsBackoff ==
  ASSUME IInv, Next, pc = "poll", data'.count < data.count
  PROVE  data'.status \in {"host_left", "idle"}
<1>1. data \in Data /\ data.count \in Int /\ link # "none"
  BY DEF IInv, TypeOK, Data, Timed, LastDelay
<1>2. CASE ReceiveWelcome
  <2> DEFINE noted == NoteAuthenticated(data)
  <2>1. noted \in Data /\ noted.count = data.count
    BY <1>1, <1>2, NoteAuthenticatedFields DEF ReceiveWelcome, IInv, Counted, Data, LastDelay
  <2>2. data' = [noted EXCEPT !.status = "connected_lobby", !.assigned = TRUE, !.handshake = FALSE]
    BY <1>2 DEF ReceiveWelcome
  <2> HIDE DEF noted
  <2>3. data'.count = data.count
    BY <2>1, <2>2 DEF Data
  <2> QED
    BY <1>1, <2>3
<1>3. CASE ReceiveHostLeave
  BY <1>1, <1>3, ClearedFields DEF ReceiveHostLeave, HostClosed, Data, Status
<1>4. ASSUME NEW reason \in Reason, Disconnect(reason) PROVE data'.status \in {"host_left", "idle"}
  BY <1>1, <1>4, ClearedFields, EnterReconnectFields
  DEF Disconnect, AfterDisconnect, HostClosed, Reason, Data, Status
<1>5. CASE HandshakeTimeout
  <2>1. CASE data.attempt \/ data.status = "reconnecting"
    <3> DEFINE kept == Disconnected(data, TRUE)
    <3>1. kept \in Data /\ kept.count = data.count /\ data' = NoteFailed(kept)
      BY <1>1, <1>5, <2>1, KeptFields DEF HandshakeTimeout
    <3> HIDE DEF kept
    <3>2. data'.count >= data.count /\ data' \in Data
      BY <3>1, NoteFailedFields
    <3> QED
      BY <1>1, <3>2 DEF Data, LastDelay
  <2>2. CASE ~(data.attempt \/ data.status = "reconnecting")
    BY <1>1, <1>5, <2>2, DisconnectedFields DEF HandshakeTimeout
  <2> QED
    BY <2>1, <2>2
<1>6. CASE ReceiveTimeout
  BY <1>1, <1>6, EnterReconnectFields DEF ReceiveTimeout
<1>7. CASE Connected \/ ReceiveProof \/ ReceiveVersionMismatch
  <2>1. data'.count = data.count
    <3>1. CASE Connected
      BY <1>1, <3>1 DEF Connected, Data
    <3>2. CASE ReceiveProof
      BY <1>1, <3>2 DEF ReceiveProof, Data
    <3>3. CASE ReceiveVersionMismatch
      BY <1>1, <3>3 DEF ReceiveVersionMismatch, Data
    <3> QED
      BY <1>7, <3>1, <3>2, <3>3
  <2> QED
    BY <1>1, <2>1
<1>8. CASE AnswerNotSent \/ ReceiveBootstrap \/ EndPoll
  BY <1>1, <1>8 DEF AnswerNotSent, ReceiveBootstrap, EndPoll
<1>9. ASSUME NEW status \in {"connected_lobby", "game_starting"}, ReceiveLobbyAction(status)
      PROVE  data'.count = data.count
  BY <1>1, <1>9 DEF ReceiveLobbyAction, Data
<1>10. /\ ~Retry /\ ~BeginPoll /\ ~IdleTick /\ ~StartLoad /\ ~Finish /\ ~Leave /\ ~QuitGame
       /\ ~ManualReconnect /\ \A saved \in BOOLEAN : ~Join(saved)
  BY DEF Retry, BeginPoll, IdleTick, StartLoad, Finish, Leave, QuitGame, ManualReconnect, Join
<1> QED
  BY <1>1, <1>2, <1>3, <1>4, <1>5, <1>6, <1>7, <1>8, <1>9, <1>10 DEF Next, Player, Network

\* The network does not shorten a client's back-off unless the session is over
\* (multiplayer_note_client_reconnect_authenticated).
THEOREM BackoffIsKept == Spec => BackoffKept
<1>1. ASSUME IInv, [Next]_vars
      PROVE  [pc = "poll" /\ data'.count < data.count => data'.status \in {"host_left", "idle"}]_vars
  BY <1>1, PollKeepsBackoff
<1> QED
  BY <1>1, ClientInvariant, PTL DEF Spec, BackoffKept
============================================================================
