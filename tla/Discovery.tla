----------------------------- MODULE Discovery -----------------------------
(***************************************************************************)
(* The two threads that find a host on the network: the scanner of a       *)
(* player who searches (scan_thread_func, multiplayer_scanner.cpp) and the *)
(* responder of one who hosts (discovery_responder_func).  The scanner     *)
(* shares join_status, stop_search and the result with the game's thread,  *)
(* which starts and joins both: that is in GameThread.                     *)
(***************************************************************************)
EXTENDS Integers

CONSTANT Attempts   \* max_attempts of a search

ASSUME SearchIsTried == Attempts \in Nat \ {0}

VARIABLES
  scanner,    \* scanner_thread and its locals
  search,     \* stop_search, directed_discovery, found_ip
  status,     \* join_status
  responder,  \* discovery_thread
  active      \* host_discovery_active

discoveryVars == <<scanner, search, status, responder, active>>

NoScanner == [pc |-> "none", directed |-> FALSE, left |-> Attempts]

SearchTypeOK ==
  /\ scanner \in [pc : {"none", "born", "reading", "seeking", "receiving", "publish",
                        "giving_up", "failing", "ended"},
                  directed : BOOLEAN, left : 0 .. Attempts]
  /\ search \in [stop : BOOLEAN, directed : BOOLEAN, found : {"none", "lan", "direct"}]
  /\ status \in {"idle", "searching", "found", "connecting", "connected_lobby", "failed",
                 "credential_discovery_failed"}
  /\ responder \in {"none", "born", "listening", "receiving", "answering", "ended"}
  /\ active \in BOOLEAN

DiscoveryInit ==
  /\ scanner = NoScanner
  /\ search = [stop |-> FALSE, directed |-> FALSE, found |-> "none"]
  /\ status = "idle"
  /\ responder = "none"
  /\ active = FALSE

ScannerRuns == scanner.pc \notin {"none", "ended"}

----------------------------------------------------------------------------
(* scan_thread_func                                                        *)

Begin ==
  /\ scanner.pc = "born"
  /\ status' = "searching"
  /\ scanner' = [scanner EXCEPT !.pc = "reading"]
  /\ UNCHANGED <<search, responder, active>>

\* Reads the target under the mutex and opens its socket.
ReadTarget ==
  /\ scanner.pc = "reading"
  /\ \/ /\ scanner' = [scanner EXCEPT !.pc = "seeking", !.directed = search.directed]
        /\ UNCHANGED status
     \/ /\ scanner' = [scanner EXCEPT !.pc = "ended"]
        /\ status' = "failed"
  /\ UNCHANGED <<search, responder, active>>

\* Seeded fault: the attempts are not counted.
AttemptUnbounded ==
  /\ scanner.pc = "seeking"
  /\ scanner' = [scanner EXCEPT !.pc = IF search.stop THEN "giving_up" ELSE "receiving"]
  /\ UNCHANGED <<search, status, responder, active>>

\* The loop's condition, and sending the query.
Attempt ==
  /\ scanner.pc = "seeking"
  /\ scanner' = IF scanner.left = 0 \/ search.stop
                THEN [scanner EXCEPT !.pc = "giving_up"]
                ELSE [scanner EXCEPT !.pc = "receiving", !.left = @ - 1]
  /\ UNCHANGED <<search, status, responder, active>>

\* recvfrom: nothing within half a second, or an answer of no use.
NoAnswer ==
  /\ scanner.pc = "receiving"
  /\ scanner' = [scanner EXCEPT !.pc = "seeking"]
  /\ UNCHANGED <<search, status, responder, active>>

\* The answer of a host that fits, stored under the mutex.
Answered ==
  /\ scanner.pc = "receiving"
  /\ search' = [search EXCEPT !.found = IF scanner.directed THEN "direct" ELSE "lan"]
  /\ scanner' = [scanner EXCEPT !.pc = "publish"]
  /\ UNCHANGED <<status, responder, active>>

PublishFound ==
  /\ scanner.pc = "publish"
  /\ status' = "found"
  /\ scanner' = [scanner EXCEPT !.pc = "ended"]
  /\ UNCHANGED <<search, responder, active>>

\* Seeded fault: a search that was stopped leaves the status to who stopped it.
GiveUpSilently ==
  /\ scanner.pc = "giving_up"
  /\ scanner' = [scanner EXCEPT !.pc =
       IF status = "searching" /\ ~search.stop THEN "failing" ELSE "ended"]
  /\ UNCHANGED <<search, status, responder, active>>

\* The status is tested and then set: the game's thread may write it in between.
GiveUp ==
  /\ scanner.pc = "giving_up"
  /\ scanner' = [scanner EXCEPT !.pc = IF status = "searching" THEN "failing" ELSE "ended"]
  /\ UNCHANGED <<search, status, responder, active>>

Fail ==
  /\ scanner.pc = "failing"
  /\ status' = IF scanner.directed THEN "credential_discovery_failed" ELSE "failed"
  /\ scanner' = [scanner EXCEPT !.pc = "ended"]
  /\ UNCHANGED <<search, responder, active>>

ScannerNext ==
  Begin \/ ReadTarget \/ Attempt \/ NoAnswer \/ Answered \/ PublishFound \/ GiveUp \/ Fail

----------------------------------------------------------------------------
(* discovery_responder_func                                                *)

\* The socket is opened and bound, or the thread ends.
Bind ==
  /\ responder = "born"
  /\ responder' \in {"listening", "ended"}
  /\ UNCHANGED <<scanner, search, status, active>>

\* The loop's condition
Listen ==
  /\ responder = "listening"
  /\ responder' = IF active THEN "receiving" ELSE "ended"
  /\ UNCHANGED <<scanner, search, status, active>>

\* recvfrom returns within 200 ms; a query that comes after the end was
\* requested is still answered, with the host's port and the room code.
Receive ==
  /\ responder = "receiving"
  /\ responder' \in {"listening", "answering"}
  /\ UNCHANGED <<scanner, search, status, active>>

Answer ==
  /\ responder = "answering"
  /\ responder' = "listening"
  /\ UNCHANGED <<scanner, search, status, active>>

ResponderNext == Bind \/ Listen \/ Receive \/ Answer

----------------------------------------------------------------------------

\* A status SEARCHING has a scanner behind it that will change it.  Since
\* start_search does nothing in that status, one without a scanner would keep
\* the player from ever searching again.
NoPhantomSearch == status = "searching" => ScannerRuns
=============================================================================
