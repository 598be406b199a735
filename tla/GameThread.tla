----------------------------- MODULE GameThread -----------------------------
(***************************************************************************)
(* The game's thread with its background threads: the scanner and the      *)
(* responder of Discovery and the worker of PortMapping.  The functions    *)
(* that start, stop and join them (MultiplayerScanner, setup_host,         *)
(* setup_client, disconnect) are programs: sequences of the steps that     *)
(* another thread may come between, which the game's thread takes one by   *)
(* one.  It joins threads in the middle of a frame and waits there.        *)
(*                                                                         *)
(* The menus (progress.gc, progress-pc.gc) start a program when the one    *)
(* before has ended.  A searching screen is left by Back, or by the lobby. *)
(***************************************************************************)
EXTENDS PortMapping, Discovery, Sequences

VARIABLES
  todo,  \* what the game's thread still has to do before it returns to the menu
  menu,  \* the screen
  role   \* "none" without a transport (~initialized)

gameVars == <<todo, menu, role>>
vars == <<worker, mapping, router, scanner, search, status, responder, active, todo, menu, role>>

----------------------------------------------------------------------------
(* Programs                                                                *)

StartSearch == <<"search_lan", "join_scanner", "spawn_scanner">>

StartDirectSearch == <<"stop_search", "join_scanner", "search_direct", "spawn_scanner">>

\* Seeded fault: the result is wiped before the scanner is joined.
StopSearchHasty == <<"stop_search", "status_idle", "forget", "join_scanner">>

StopSearch == <<"stop_search", "status_idle", "join_scanner", "forget">>

StopWorker == <<"stop_worker", "notify_worker", "join_worker">>

\* Seeded faults of disconnect: the transport is closed before the responder is
\* joined; the worker is told to stop and not awaited.
DisconnectHostFirst ==
  <<"stop_threads", "join_scanner">> \o StopWorker \o <<"mapping_idle", "close", "join_responder">>
DisconnectNoJoin ==
  <<"stop_threads", "join_scanner", "join_responder", "stop_worker", "notify_worker",
    "mapping_idle", "close">>

Disconnect ==
  <<"stop_threads", "join_scanner", "join_responder">> \o StopWorker \o <<"mapping_idle", "close">>

\* start_port_mapping_worker joins a worker that is left from before.
StartWorker == (IF worker.pc = "none" THEN <<>> ELSE StopWorker) \o <<"spawn_worker">>

Steps == {"search_lan", "search_direct", "stop_search", "status_idle", "join_scanner",
          "spawn_scanner", "forget", "stop_threads", "join_responder", "stop_worker",
          "notify_worker", "join_worker", "mapping_idle", "close", "idle",
          "setup_client", "setup_host_lan", "setup_host_online", "spawn_worker"}

GameTypeOK ==
  /\ MappingTypeOK
  /\ SearchTypeOK
  /\ todo \in Seq(Steps)
  /\ menu \in {"title", "searching", "direct", "lobby"}
  /\ role \in {"none", "client", "host"}

Init ==
  /\ MappingInit
  /\ DiscoveryInit
  /\ todo = <<>>
  /\ menu = "title"
  /\ role = "none"

----------------------------------------------------------------------------
(* The steps                                                               *)

At(step) == todo # <<>> /\ Head(todo) = step /\ todo' = Tail(todo)

SearchLan ==
  /\ At("search_lan")
  /\ search' = [stop |-> FALSE, directed |-> FALSE, found |-> "none"]
  /\ UNCHANGED <<mappingVars, scanner, status, responder, active, menu, role>>

SearchDirect ==
  /\ At("search_direct")
  /\ search' = [stop |-> FALSE, directed |-> TRUE, found |-> "none"]
  /\ UNCHANGED <<mappingVars, scanner, status, responder, active, menu, role>>

SpawnScanner ==
  /\ At("spawn_scanner")
  /\ scanner' = [NoScanner EXCEPT !.pc = "born"]
  /\ UNCHANGED <<mappingVars, search, status, responder, active, menu, role>>

\* "stop_threads" ends the responder as well.
StopFlags ==
  /\ At("stop_search") \/ At("stop_threads")
  /\ search' = [search EXCEPT !.stop = TRUE]
  /\ active' = (active /\ Head(todo) = "stop_search")
  /\ UNCHANGED <<mappingVars, scanner, status, responder, menu, role>>

StatusIdle ==
  /\ At("status_idle") \/ At("idle")
  /\ status' = "idle"
  /\ UNCHANGED <<mappingVars, scanner, search, responder, active, menu, role>>

JoinScanner ==
  /\ At("join_scanner")
  /\ ~ScannerRuns
  /\ scanner' = NoScanner
  /\ UNCHANGED <<mappingVars, search, status, responder, active, menu, role>>

Forget ==
  /\ At("forget")
  /\ search' = [search EXCEPT !.found = "none", !.directed = FALSE]
  /\ UNCHANGED <<mappingVars, scanner, status, responder, active, menu, role>>

JoinResponder ==
  /\ At("join_responder")
  /\ responder \in {"none", "ended"}
  /\ responder' = "none"
  /\ UNCHANGED <<mappingVars, scanner, search, status, active, menu, role>>

\* The flag, without the mutex.
TellWorker ==
  /\ At("stop_worker")
  /\ mapping' = [mapping EXCEPT !.stop = TRUE]
  /\ UNCHANGED <<worker, router, discoveryVars, menu, role>>

\* notify_all wakes a worker that sleeps, and is lost on any other.
NotifyWorker ==
  /\ At("notify_worker")
  /\ worker' = IF worker.pc = "blocked" THEN [worker EXCEPT !.pc = "check"] ELSE worker
  /\ UNCHANGED <<mapping, router, discoveryVars, menu, role>>

JoinWorker ==
  /\ At("join_worker")
  /\ ~WorkerRuns
  /\ worker' = NoWorker
  /\ UNCHANGED <<mapping, router, discoveryVars, menu, role>>

\* The end of stop_port_mapping_worker, and host_setup_status.
MappingIdle ==
  /\ At("mapping_idle")
  /\ mapping' = [mapping EXCEPT !.state = "idle", !.setup = "idle"]
  /\ UNCHANGED <<worker, router, discoveryVars, menu, role>>

\* The transport; without one disconnect leaves the status as it is.
CloseTransport ==
  /\ At("close")
  /\ role' = "none"
  /\ status' = IF role = "none" THEN status ELSE "idle"
  /\ search' = [search EXCEPT !.found = "none", !.directed = FALSE]
  /\ UNCHANGED <<mappingVars, scanner, responder, active, menu>>

\* setup_client: a socket and a peer, or not.
SetupClient ==
  /\ At("setup_client")
  /\ \/ role' = "client" /\ status' = "connecting"
     \/ status' = "failed" /\ UNCHANGED role
  /\ UNCHANGED <<mappingVars, scanner, search, responder, active, menu>>

\* setup_host up to the threads: any of its checks, or the bind, may fail.
SetupHostFails ==
  /\ At("setup_host_lan") \/ At("setup_host_online")
  /\ status' = "failed"
  /\ mapping' = [mapping EXCEPT !.setup = "start_failed"]
  /\ UNCHANGED <<worker, router, scanner, search, responder, active, menu, role>>

SetupLanHost ==
  /\ At("setup_host_lan")
  /\ role' = "host"
  /\ status' = "connected_lobby"
  /\ mapping' = [mapping EXCEPT !.setup = "ready"]
  /\ active' = TRUE
  /\ responder' = "born"
  /\ UNCHANGED <<worker, router, scanner, search, menu>>

\* Hosting online; the automatic mapping may be switched off.
SetupOnlineHost ==
  /\ todo # <<>>
  /\ Head(todo) = "setup_host_online"
  /\ \E automatic \in BOOLEAN :
       /\ todo' = (IF automatic THEN StartWorker ELSE <<>>) \o Tail(todo)
       /\ mapping' = [mapping EXCEPT !.setup = IF automatic THEN "starting" ELSE "disabled"]
  /\ role' = "host"
  /\ status' = "connected_lobby"
  /\ active' = TRUE
  /\ responder' = "born"
  /\ UNCHANGED <<worker, router, scanner, search, menu>>

SpawnWorker ==
  /\ At("spawn_worker")
  /\ worker' = [NoWorker EXCEPT !.pc = "check"]
  /\ mapping' = [stop |-> FALSE, state |-> "pending", setup |-> "configuring"]
  /\ UNCHANGED <<router, discoveryVars, menu, role>>

Step ==
  \/ SearchLan \/ SearchDirect \/ SpawnScanner \/ StopFlags \/ StatusIdle \/ JoinScanner
  \/ Forget \/ JoinResponder \/ TellWorker \/ NotifyWorker \/ JoinWorker \/ MappingIdle
  \/ CloseTransport \/ SetupClient \/ SetupHostFails \/ SetupLanHost \/ SetupOnlineHost
  \/ SpawnWorker

----------------------------------------------------------------------------
(* What the menus and the tick start                                       *)

Starts(program) == todo = <<>> /\ todo' = program

\* Entering 'searching-game; start_search does nothing while one is under way.
OpenSearch ==
  /\ menu = "title"
  /\ Starts(IF status = "searching" THEN <<>> ELSE StartSearch)
  /\ menu' = "searching"
  /\ UNCHANGED <<mappingVars, discoveryVars, role>>

\* Leaving 'searching-game
CancelSearch ==
  /\ menu = "searching"
  /\ Starts(StopSearch \o Disconnect \o <<"idle">>)
  /\ menu' = "title"
  /\ UNCHANGED <<mappingVars, discoveryVars, role>>

\* mp_direct_connect_start: a search when the room code is not given.
OpenDirect ==
  /\ menu = "title"
  /\ \/ Starts(StartDirectSearch)
     \/ Starts(Disconnect \o <<"setup_client">>)
  /\ menu' = "direct"
  /\ UNCHANGED <<mappingVars, discoveryVars, role>>

\* Leaving 'direct-searching
CancelDirect ==
  /\ menu = "direct"
  /\ Starts(IF status \in {"connecting", "connected_lobby", "failed"}
            THEN StopSearch \o Disconnect ELSE StopSearch)
  /\ menu' = "title"
  /\ UNCHANGED <<mappingVars, discoveryVars, role>>

\* mp-connect-discovered-host-if-ready! with pc_multi_connect_found_host; it
\* does not ask which screen is shown.
ConnectFound ==
  /\ status = "found"
  /\ IF search.found = "none"
     THEN Starts(<<>>) /\ status' = "failed" /\ UNCHANGED search
     ELSE /\ Starts(Disconnect \o <<"setup_client">>)
          /\ search' = [search EXCEPT !.found = "none"]
          /\ UNCHANGED status
  /\ UNCHANGED <<mappingVars, scanner, responder, active, menu, role>>

\* A poll, with the host's answer to the client.
ClientAnswered ==
  /\ todo = <<>>
  /\ role = "client"
  /\ status = "connecting"
  /\ \/ status' = "failed" /\ UNCHANGED menu
     \/ status' = "connected_lobby" /\ menu' = "lobby"
  /\ UNCHANGED <<mappingVars, scanner, search, responder, active, todo, role>>

\* 'host-to-lobby
HostGame ==
  /\ menu = "title"
  /\ \E kind \in {"setup_host_lan", "setup_host_online"} :
       Starts((IF role = "none" THEN <<>> ELSE Disconnect) \o <<kind>>)
  /\ menu' = "lobby"
  /\ UNCHANGED <<mappingVars, discoveryVars, role>>

\* mp-lobby-leave!
LeaveLobby ==
  /\ menu = "lobby"
  /\ Starts(Disconnect \o <<"idle">>)
  /\ menu' = "title"
  /\ UNCHANGED <<mappingVars, discoveryVars, role>>

Menus ==
  \/ OpenSearch \/ CancelSearch \/ OpenDirect \/ CancelDirect \/ ConnectFound
  \/ ClientAnswered \/ HostGame \/ LeaveLobby

Worker == WorkerNext /\ UNCHANGED <<discoveryVars, gameVars>>
Scanner == ScannerNext /\ UNCHANGED <<mappingVars, gameVars>>
Responder == ResponderNext /\ UNCHANGED <<mappingVars, gameVars>>

Next == Step \/ Menus \/ Worker \/ Scanner \/ Responder

\* Every thread that can go on does; a duration passes (WaitTimesOut) and a
\* query or a request to the router returns.  The tick looks for a result.
Fairness ==
  /\ WF_vars(Step)
  /\ WF_vars(Worker)
  /\ WF_vars(Scanner)
  /\ WF_vars(Responder)
  /\ WF_vars(ConnectFound)

Spec == Init /\ [][Next]_vars /\ Fairness

----------------------------------------------------------------------------

\* Between two programs nothing is left of a session that is not there: no
\* worker that could still publish or map, no responder, no state of a mapping.
NothingRunsOn ==
  todo = <<>> /\ role # "host" =>
    /\ worker.pc = "none"
    /\ responder = "none"
    /\ mapping.state = "idle"
    /\ mapping.setup \in {"idle", "start_failed"}

\* A thread that runs suits the session, in the middle of a program too: no
\* scanner is left that could overwrite the status of a session that was set up,
\* and the responder, which reads the host's transport and room code without a
\* lock, is joined before disconnect destroys them.
ThreadsSuitTheRole ==
  /\ role # "none" => scanner.pc \in {"none", "ended"}
  /\ responder = "answering" => role = "host"

\* A cancelled search leaves no invite, also when the answer comes between the
\* stop and the join (test CancellationClearsPrivateResultState).
CancelledIsForgotten == todo = <<>> /\ menu = "title" => search.found = "none"

\* The game's thread gets through its joins: a notification that the worker
\* misses costs the rest of the interval, not the game.
GameGoesOn == (todo # <<>>) ~> (todo = <<>>)

\* A search ends by itself, and what it found is taken up.
SearchEnds == (status \in {"searching", "found"}) ~> (status \notin {"searching", "found"})
=============================================================================
