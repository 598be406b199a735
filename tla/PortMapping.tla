---------------------------- MODULE PortMapping ----------------------------
(***************************************************************************)
(* The worker thread that opens a port on the router, keeps it open and    *)
(* closes it (start_port_mapping_worker, multiplayer_manager.cpp), with    *)
(* the mutex, the condition variable and the stop flag it shares with the  *)
(* game's thread.  What the game's thread does is in GameThread.           *)
(*                                                                         *)
(* wait_for looks at the flag with the mutex held ("check"), finds it      *)
(* unset ("drowsy") and sleeps ("blocked").  The flag is set and the       *)
(* condition notified without the mutex: both may happen while the worker  *)
(* is drowsy, and the notification is lost.                                *)
(***************************************************************************)
EXTENDS Integers

CONSTANT RefreshAttempts   \* kPortMappingRefreshAttempts

ASSUME RefreshIsTried == RefreshAttempts \in Nat \ {0}

VARIABLES
  worker,   \* port_mapping_thread and its locals
  mapping,  \* port_mapping_worker_stop, port_mapping_state, host_setup_status
  router    \* external: "orphaned" is a mapping whose removal failed

mappingVars == <<worker, mapping, router>>

\* "none" is a thread object that is not joinable.
NoWorker == [pc |-> "none", at |-> "settle", method |-> "none", usable |-> FALSE,
             tries |-> 0, failed |-> FALSE]

WorkerPc == {"none", "check", "drowsy", "blocked", "open", "opened", "publish", "tell", "refresh",
             "close", "unpublish", "ended"}

MappingTypeOK ==
  /\ worker \in [pc : WorkerPc, at : {"settle", "interval", "retry"},
                 method : {"none", "upnp", "natpmp"}, usable : BOOLEAN,
                 tries : 0 .. RefreshAttempts, failed : BOOLEAN]
  /\ mapping \in [stop : BOOLEAN, state : {"idle", "pending", "ready", "failed"},
                  setup : {"idle", "starting", "configuring", "ready", "disabled",
                           "mapping_failed", "start_failed"}]
  /\ router \in {"clear", "mapped", "orphaned"}

MappingInit ==
  /\ worker = NoWorker
  /\ mapping = [stop |-> FALSE, state |-> "idle", setup |-> "idle"]
  /\ router = "clear"

WorkerRuns == worker.pc \notin {"none", "ended"}

\* mp_close_udp_port_mapping: the router may refuse or not answer.
Closed == IF router = "mapped" THEN {"clear", "orphaned"} ELSE {router}

\* Where wait_for_mapping_stop leads to, by the place it was called from.
AfterWait(stopped) ==
  IF worker.at = "settle" THEN [worker EXCEPT !.pc = IF stopped THEN "ended" ELSE "open"]
  ELSE IF stopped THEN [worker EXCEPT !.pc = "close", !.failed = FALSE]
  ELSE IF worker.at = "retry" THEN [worker EXCEPT !.pc = "refresh"]
  ELSE IF worker.method = "natpmp" THEN [worker EXCEPT !.pc = "refresh", !.tries = 0]
  ELSE [worker EXCEPT !.pc = "check"]

\* wait_for evaluates its predicate.
WorkerChecks ==
  /\ worker.pc = "check"
  /\ worker' = IF mapping.stop THEN AfterWait(TRUE) ELSE [worker EXCEPT !.pc = "drowsy"]
  /\ UNCHANGED <<mapping, router>>

WorkerSleeps ==
  /\ worker.pc = "drowsy"
  /\ worker' = [worker EXCEPT !.pc = "blocked"]
  /\ UNCHANGED <<mapping, router>>

\* Seeded fault: once mapped, the worker sleeps again after each duration and
\* leaves only when it is notified.
WaitForEver ==
  /\ worker.pc = "blocked"
  /\ worker' = IF worker.at = "settle" THEN AfterWait(mapping.stop)
               ELSE [worker EXCEPT !.pc = "drowsy"]
  /\ UNCHANGED <<mapping, router>>

\* The duration has passed: wait_for returns what the predicate says by then.
WaitTimesOut ==
  /\ worker.pc = "blocked"
  /\ worker' = AfterWait(mapping.stop)
  /\ UNCHANGED <<mapping, router>>

\* mp_open_udp_port_mapping: UPnP, then NAT-PMP; the external address may be
\* missing or private.
Open ==
  /\ worker.pc = "open"
  /\ \/ \E method \in {"upnp", "natpmp"}, usable \in BOOLEAN :
          /\ worker' = [worker EXCEPT !.pc = "opened", !.method = method, !.usable = usable]
          /\ router' = "mapped"
     \/ /\ worker' = [worker EXCEPT !.pc = "opened"]
        /\ UNCHANGED router
  /\ UNCHANGED mapping

\* Seeded fault: a stop that comes while the router is asked ends the thread.
OpenedForgotten ==
  /\ worker.pc = "opened"
  /\ worker' = [worker EXCEPT !.pc = IF mapping.stop THEN "ended" ELSE "publish"]
  /\ UNCHANGED <<mapping, router>>

\* The mapping is of no use once the stop is requested, or without a public
\* address, and is closed again.
Opened ==
  /\ worker.pc = "opened"
  /\ worker' = [worker EXCEPT !.pc = IF mapping.stop THEN "ended" ELSE "publish"]
  /\ IF mapping.stop \/ ~worker.usable THEN router' \in Closed ELSE UNCHANGED router
  /\ UNCHANGED mapping

\* port_mapping_state, under the mutex
Publish ==
  /\ worker.pc = "publish"
  /\ worker' = [worker EXCEPT !.pc = "tell"]
  /\ mapping' = [mapping EXCEPT !.state = IF worker.usable THEN "ready" ELSE "failed"]
  /\ UNCHANGED router

\* host_setup_status, which is read without the mutex
Tell ==
  /\ worker.pc = "tell"
  /\ worker' = IF worker.usable THEN [worker EXCEPT !.pc = "check", !.at = "interval"]
               ELSE [worker EXCEPT !.pc = "ended"]
  /\ mapping' = [mapping EXCEPT !.setup = IF worker.usable THEN "ready" ELSE "mapping_failed"]
  /\ UNCHANGED router

\* mp_refresh_udp_port_mapping and what follows its result
RefreshSucceeds ==
  /\ worker.pc = "refresh"
  /\ worker' = [worker EXCEPT !.pc = "check", !.at = "interval"]
  /\ UNCHANGED <<mapping, router>>

RefreshFails ==
  /\ worker.pc = "refresh"
  /\ LET again == worker.tries + 1 < RefreshAttempts
     IN  worker' = [worker EXCEPT !.tries = @ + 1,
                                  !.pc = IF again THEN "check" ELSE "close",
                                  !.at = "retry",
                                  !.failed = ~again /\ ~mapping.stop]
  /\ UNCHANGED <<mapping, router>>

Close ==
  /\ worker.pc = "close"
  /\ worker' = [worker EXCEPT !.pc = "unpublish"]
  /\ router' \in Closed
  /\ UNCHANGED mapping

\* The end of the thread: the state, and the setup status after a failure.
Unpublish ==
  /\ worker.pc = "unpublish"
  /\ worker' = [worker EXCEPT !.pc = "ended"]
  /\ mapping' = [mapping EXCEPT
       !.state = IF worker.failed THEN "failed" ELSE "idle",
       !.setup = IF worker.failed THEN "mapping_failed" ELSE @]
  /\ UNCHANGED router

WorkerNext ==
  \/ WorkerChecks \/ WorkerSleeps \/ WaitTimesOut \/ Open \/ Opened \/ Publish \/ Tell
  \/ RefreshSucceeds \/ RefreshFails \/ Close \/ Unpublish

----------------------------------------------------------------------------

\* The thread never ends without having tried to remove the mapping it opened
\* (README.md: "after your host session ends, the mapping is removed").
NoMappingLeft == ~WorkerRuns => router # "mapped"

\* An invite, which needs the state READY, is offered for a port that is open,
\* but for the moment between a failed refresh or a stop and the new state.
ReadyIsMapped ==
  mapping.state = "ready" =>
    worker.usable /\ (router = "mapped" \/ worker.pc = "unpublish")
=============================================================================
