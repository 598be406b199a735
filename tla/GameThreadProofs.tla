-------------------------- MODULE GameThreadProofs --------------------------
(***************************************************************************)
(* The safety of the game's thread and its background threads, for every   *)
(* number of attempts.  The programs are described by the pairs of steps   *)
(* that follow one another and the steps they end with; to every step      *)
(* belongs what holds when it is next.                                     *)
(***************************************************************************)
EXTENDS GameThread, TLAPS

Setups == {"setup_client", "setup_host_lan", "setup_host_online"}

\* What may follow what in a program.
Pairs ==
  {<<"search_lan", "join_scanner">>, <<"stop_search", "join_scanner">>,
   <<"stop_search", "status_idle">>, <<"status_idle", "join_scanner">>,
   <<"join_scanner", "search_direct">>, <<"join_scanner", "spawn_scanner">>,
   <<"search_direct", "spawn_scanner">>, <<"join_scanner", "forget">>,
   <<"forget", "stop_threads">>, <<"stop_threads", "join_scanner">>,
   <<"join_scanner", "join_responder">>, <<"join_responder", "stop_worker">>,
   <<"stop_worker", "notify_worker">>, <<"notify_worker", "join_worker">>,
   <<"join_worker", "mapping_idle">>, <<"mapping_idle", "close">>, <<"close", "idle">>}
  \cup {<<"close", step>> : step \in Setups}

\* What a program may end with.
Ends == Setups \cup {"spawn_scanner", "forget", "close", "idle", "spawn_worker"}

Linked(p) ==
  /\ p \in Seq(Steps)
  /\ \A i \in 1 .. Len(p) : i + 1 \in 1 .. Len(p) => <<p[i], p[i + 1]>> \in Pairs

Good(p) ==
  /\ Linked(p)
  /\ \A i \in 1 .. Len(p) : i = Len(p) => p[i] \in Ends

Has(p, step) == \E i \in 1 .. Len(p) : p[i] = step

\* The scanner was joined before these.
Joined == Steps \ {"search_lan", "stop_search", "status_idle", "join_scanner", "stop_threads"}

\* What holds when a step is the next one.
Ahead(step) ==
  /\ step \in Joined => ~ScannerRuns
  /\ step \in {"stop_worker", "notify_worker", "join_worker", "mapping_idle", "close"}
       => responder = "none"
  /\ step \in {"mapping_idle", "close", "spawn_worker"} => worker.pc = "none"
  /\ step = "close" => mapping.state = "idle" /\ mapping.setup = "idle"
  /\ step \in Setups => role = "none"
  /\ step = "spawn_worker" => role = "host"

HeadInv == todo # <<>> => Ahead(Head(todo))

\* What the worker's place says about the router and the published state.
Waits == {"check", "drowsy", "blocked"}

WorkerInv ==
  /\ worker.pc \in {"none", "ended", "open", "unpublish"} => router # "mapped"
  /\ worker.pc \in Waits /\ worker.at = "settle" => router # "mapped"
  /\ worker.pc \in Waits /\ worker.at # "settle" => router = "mapped" /\ worker.usable
  /\ worker.pc \in {"refresh", "close"} => router = "mapped" /\ worker.usable
  /\ worker.pc = "refresh" => worker.at # "settle" /\ worker.tries < RefreshAttempts
  /\ worker.pc \in Waits /\ worker.at = "retry" => worker.tries < RefreshAttempts
  /\ worker.pc = "open" => ~worker.usable
  /\ worker.pc \in Waits /\ worker.at = "settle" => ~worker.usable
  /\ worker.pc = "opened" /\ worker.usable => router = "mapped"
  /\ worker.pc \in {"publish", "tell"} => (worker.usable <=> router = "mapped")
  /\ mapping.state = "ready" =>
       /\ worker.usable
       /\ \/ worker.pc \in {"tell", "refresh", "close", "unpublish"}
          \/ worker.pc \in Waits /\ worker.at # "settle"

\* Without a host nothing of a host is left.
RoleInv ==
  /\ role # "host" =>
       /\ worker.pc = "none"
       /\ responder = "none"
       /\ mapping.state = "idle"
       /\ mapping.setup \in {"idle", "start_failed"}
  /\ role # "none" => ~ScannerRuns

\* What the programs that are under way have to do with the screen.
MenuInv ==
  /\ Has(todo, "spawn_scanner") => role = "none" /\ menu \in {"searching", "direct"}
  /\ \A step \in Setups : Has(todo, step) => menu # "title"
  /\ Has(todo, "status_idle") \/ Has(todo, "idle") => menu = "title"
  /\ menu = "title" => role = "none" \/ Has(todo, "close")
  /\ menu = "title" =>
       (search.found = "none" /\ ~ScannerRuns) \/ Has(todo, "forget") \/ Has(todo, "close")
  /\ menu = "direct" => role = "none" \/ status \in {"connecting", "connected_lobby", "failed"}

IInv ==
  /\ GameTypeOK
  /\ Good(todo)
  /\ HeadInv
  /\ WorkerInv
  /\ NoPhantomSearch
  /\ RoleInv
  /\ MenuInv
----------------------------------------------------------------------------
(* Programs                                                                *)

LEMMA TailOfGood ==
  ASSUME NEW p, Good(p), p # <<>>
  PROVE  /\ Good(Tail(p))
         /\ Head(p) \in Steps
         /\ Has(p, Head(p))
         /\ \A x : Has(Tail(p), x) => Has(p, x)
         /\ \A x : Has(p, x) => Has(Tail(p), x) \/ x = Head(p)
         /\ Tail(p) # <<>> => <<Head(p), Head(Tail(p))>> \in Pairs
         /\ Tail(p) = <<>> => Head(p) \in Ends
<1>0. /\ \A i \in 1 .. Len(p) : i + 1 \in 1 .. Len(p) => <<p[i], p[i + 1]>> \in Pairs
      /\ \A i \in 1 .. Len(p) : i = Len(p) => p[i] \in Ends
  BY DEF Good, Linked
<1>1. /\ p \in Seq(Steps) /\ Len(p) \in Nat \ {0} /\ Tail(p) \in Seq(Steps)
      /\ Len(Tail(p)) = Len(p) - 1 /\ Head(p) = p[1]
      /\ \A i \in 1 .. Len(p) - 1 : Tail(p)[i] = p[i + 1]
  BY DEF Good, Linked
<1>2. Good(Tail(p))
  <2>1. ASSUME NEW i \in 1 .. Len(Tail(p)), i + 1 \in 1 .. Len(Tail(p))
        PROVE  <<Tail(p)[i], Tail(p)[i + 1]>> \in Pairs
    <3>1. i + 1 \in 1 .. Len(p) /\ (i + 1) + 1 \in 1 .. Len(p)
      BY <1>1, <2>1
    <3>2. Tail(p)[i] = p[i + 1] /\ Tail(p)[i + 1] = p[(i + 1) + 1]
      BY <1>1, <2>1
    <3>3. <<p[i + 1], p[(i + 1) + 1]>> \in Pairs
      BY <1>0, <3>1
    <3> QED
      BY <3>2, <3>3
  <2>2. ASSUME NEW i \in 1 .. Len(Tail(p)), i = Len(Tail(p)) PROVE Tail(p)[i] \in Ends
    <3>1. Tail(p)[i] = p[i + 1] /\ i + 1 \in 1 .. Len(p) /\ i + 1 = Len(p)
      BY <1>1, <2>2
    <3> QED
      BY <1>0, <3>1
  <2>3. Linked(Tail(p))
    BY <1>1, <2>1 DEF Linked
  <2> QED
    BY <2>2, <2>3 DEF Good
<1>3. Head(p) \in Steps /\ Has(p, Head(p))
  BY <1>1 DEF Has
<1>4. \A x : Has(Tail(p), x) => Has(p, x)
  BY <1>1 DEF Has
<1>5. ASSUME NEW x, Has(p, x), x # Head(p) PROVE Has(Tail(p), x)
  <2>1. PICK i \in 1 .. Len(p) : p[i] = x
    BY <1>5 DEF Has
  <2>2. i - 1 \in 1 .. Len(Tail(p)) /\ Tail(p)[i - 1] = x
    BY <1>1, <1>5, <2>1
  <2> QED
    BY <2>2 DEF Has
<1>6. Tail(p) # <<>> => <<Head(p), Head(Tail(p))>> \in Pairs
  <2> SUFFICES ASSUME Tail(p) # <<>> PROVE <<p[1], p[2]>> \in Pairs
    BY <1>1
  <2>1. 1 \in 1 .. Len(p) /\ 1 + 1 \in 1 .. Len(p)
    BY <1>1
  <2> QED
    BY <1>0, <2>1
<1>7. ASSUME Tail(p) = <<>> PROVE Head(p) \in Ends
  <2>0. \A q : q = <<>> => Len(q) = 0
    OBVIOUS
  <2>1. Len(p) - 1 = 0
    BY <1>1, <1>7, <2>0
  <2>2. \A n \in Nat : n - 1 = 0 => n = 1 /\ 1 \in 1 .. n
    OBVIOUS
  <2>3. Len(p) \in Nat
    BY <1>1
  <2>4. Len(p) = 1 /\ 1 \in 1 .. Len(p)
    BY <2>1, <2>2, <2>3
  <2> QED
    BY <1>0, <1>1, <2>4
<1>8. \A x : Has(p, x) => Has(Tail(p), x) \/ x = Head(p)
  BY <1>5
<1> QED
  BY <1>2, <1>3, <1>4, <1>6, <1>7, <1>8, Zenon

LEMMA ConcatOfLinked ==
  ASSUME NEW p, NEW q, Linked(p), Linked(q), p # <<>>, q # <<>>,
         <<p[Len(p)], q[1]>> \in Pairs
  PROVE  /\ Linked(p \o q)
         /\ p \o q # <<>>
         /\ (p \o q)[1] = p[1]
         /\ (p \o q)[Len(p \o q)] = q[Len(q)]
         /\ \A x : Has(p \o q, x) <=> Has(p, x) \/ Has(q, x)
<1> DEFINE r == p \o q
<1>0. /\ \A i \in 1 .. Len(p) : i + 1 \in 1 .. Len(p) => <<p[i], p[i + 1]>> \in Pairs
      /\ \A i \in 1 .. Len(q) : i + 1 \in 1 .. Len(q) => <<q[i], q[i + 1]>> \in Pairs
  BY DEF Linked
<1>1. /\ p \in Seq(Steps) /\ q \in Seq(Steps) /\ Len(p) \in Nat \ {0} /\ Len(q) \in Nat \ {0}
      /\ r \in Seq(Steps) /\ Len(r) = Len(p) + Len(q)
      /\ \A i \in 1 .. Len(p) : r[i] = p[i]
      /\ \A i \in 1 .. Len(r) : i > Len(p) => r[i] = q[i - Len(p)]
  BY DEF Linked
<1> HIDE DEF r
<1>2. ASSUME NEW i \in 1 .. Len(r), i + 1 \in 1 .. Len(r) PROVE <<r[i], r[i + 1]>> \in Pairs
  <2>1. CASE i < Len(p)
    <3>1. i \in 1 .. Len(p) /\ i + 1 \in 1 .. Len(p)
      BY <1>1, <2>1
    <3>2. r[i] = p[i] /\ r[i + 1] = p[i + 1]
      BY <1>1, <3>1
    <3> QED
      BY <1>0, <3>1, <3>2
  <2>2. CASE i = Len(p)
    <3>1. r[i] = p[Len(p)] /\ r[i + 1] = q[(i + 1) - Len(p)] /\ (i + 1) - Len(p) = 1
      BY <1>1, <1>2, <2>2
    <3> QED
      BY <3>1
  <2>3. CASE i > Len(p)
    <3>1. i - Len(p) \in 1 .. Len(q) /\ (i - Len(p)) + 1 \in 1 .. Len(q)
      BY <1>1, <1>2, <2>3
    <3>2. <<q[i - Len(p)], q[(i - Len(p)) + 1]>> \in Pairs
      BY <1>0, <3>1
    <3>3. r[i] = q[i - Len(p)] /\ r[i + 1] = q[(i + 1) - Len(p)]
      BY <1>1, <1>2, <2>3
    <3>4. (i + 1) - Len(p) = (i - Len(p)) + 1
      BY <1>1
    <3> QED
      BY <3>2, <3>3, <3>4
  <2> QED
    BY <1>1, <2>1, <2>2, <2>3
<1>3. r[Len(r)] = q[Len(q)] /\ r[1] = p[1] /\ r # <<>>
  BY <1>1
<1>5. Linked(r)
  BY <1>1, <1>2 DEF Linked
<1>6. ASSUME NEW x PROVE Has(r, x) <=> Has(p, x) \/ Has(q, x)
  <2>1. ASSUME Has(r, x) PROVE Has(p, x) \/ Has(q, x)
    <3>1. PICK i \in 1 .. Len(r) : r[i] = x
      BY <2>1 DEF Has
    <3>2. CASE i \in 1 .. Len(p)
      BY <1>1, <3>1, <3>2 DEF Has
    <3>3. CASE i > Len(p)
      <4>1. i - Len(p) \in 1 .. Len(q) /\ q[i - Len(p)] = x
        BY <1>1, <3>1, <3>3
      <4> QED
        BY <4>1 DEF Has
    <3> QED
      BY <1>1, <3>2, <3>3
  <2>2. Has(p, x) => Has(r, x)
    BY <1>1 DEF Has
  <2>3. ASSUME Has(q, x) PROVE Has(r, x)
    <3>1. PICK i \in 1 .. Len(q) : q[i] = x
      BY <2>3 DEF Has
    <3>2. /\ i + Len(p) \in 1 .. Len(r) /\ i + Len(p) > Len(p)
          /\ (i + Len(p)) - Len(p) = i
      BY <1>1
    <3>3. r[i + Len(p)] = x
      BY <1>1, <3>1, <3>2
    <3> QED
      BY <3>2, <3>3 DEF Has
  <2> QED
    BY <2>1, <2>2, <2>3
<1> QED
  BY <1>3, <1>5, <1>6 DEF r

LEMMA EndOfGood == ASSUME NEW p, Linked(p), p # <<>>, p[Len(p)] \in Ends PROVE Good(p)
BY DEF Good

LEMMA StepIsGood ==
  ASSUME NEW step \in Ends
  PROVE  /\ Linked(<<step>>) /\ Good(<<step>>) /\ <<step>> # <<>>
         /\ <<step>>[1] = step /\ <<step>>[Len(<<step>>)] = step
         /\ \A x : Has(<<step>>, x) <=> x = step
BY DEF Linked, Good, Has, Ends, Setups, Steps

\* The programs that are put together from others.
LEMMA DisconnectIsGood ==
  /\ Linked(Disconnect) /\ Good(Disconnect) /\ Disconnect # <<>>
  /\ Disconnect[1] = "stop_threads" /\ Disconnect[Len(Disconnect)] = "close"
  /\ \A x : Has(Disconnect, x) <=>
       x \in {"stop_threads", "join_scanner", "join_responder", "stop_worker", "notify_worker",
              "join_worker", "mapping_idle", "close"}
<1> DEFINE first == <<"stop_threads", "join_scanner", "join_responder">>
           last == <<"mapping_idle", "close">>
<1>1. /\ Linked(first) /\ first # <<>> /\ first[1] = "stop_threads"
      /\ first[Len(first)] = "join_responder"
      /\ \A x : Has(first, x) <=> x \in {"stop_threads", "join_scanner", "join_responder"}
  BY DEF Linked, Has, Steps, Pairs
<1>2. /\ Linked(StopWorker) /\ StopWorker # <<>> /\ StopWorker[1] = "stop_worker"
      /\ StopWorker[Len(StopWorker)] = "join_worker"
      /\ \A x : Has(StopWorker, x) <=> x \in {"stop_worker", "notify_worker", "join_worker"}
  BY DEF StopWorker, Linked, Has, Steps, Pairs
<1>3. /\ Linked(last) /\ last # <<>> /\ last[1] = "mapping_idle" /\ last[Len(last)] = "close"
      /\ \A x : Has(last, x) <=> x \in {"mapping_idle", "close"}
  BY DEF Linked, Has, Steps, Pairs
<1>4. Disconnect = (first \o StopWorker) \o last
  BY DEF Disconnect
<1> HIDE DEF first, last
<1>5. /\ <<"join_responder", "stop_worker">> \in Pairs
      /\ <<"join_worker", "mapping_idle">> \in Pairs
      /\ "close" \in Ends
  BY DEF Pairs, Ends
<1>6. /\ Linked(first \o StopWorker) /\ first \o StopWorker # <<>>
      /\ (first \o StopWorker)[1] = "stop_threads"
      /\ (first \o StopWorker)[Len(first \o StopWorker)] = "join_worker"
      /\ \A x : Has(first \o StopWorker, x) <=> Has(first, x) \/ Has(StopWorker, x)
  BY <1>1, <1>2, <1>5, ConcatOfLinked
<1>7. /\ Linked(Disconnect) /\ Disconnect # <<>>
      /\ Disconnect[1] = "stop_threads" /\ Disconnect[Len(Disconnect)] = "close"
      /\ \A x : Has(Disconnect, x) <=> Has(first \o StopWorker, x) \/ Has(last, x)
  <2> DEFINE ahead == first \o StopWorker
  <2>1. /\ Linked(ahead) /\ ahead # <<>> /\ ahead[1] = "stop_threads"
        /\ ahead[Len(ahead)] = "join_worker" /\ Disconnect = ahead \o last
    BY <1>4, <1>6
  <2> HIDE DEF ahead
  <2>2. <<ahead[Len(ahead)], last[1]>> \in Pairs
    BY <1>3, <1>5, <2>1
  <2>3. /\ Linked(ahead \o last) /\ ahead \o last # <<>> /\ (ahead \o last)[1] = ahead[1]
        /\ (ahead \o last)[Len(ahead \o last)] = last[Len(last)]
        /\ \A x : Has(ahead \o last, x) <=> Has(ahead, x) \/ Has(last, x)
    BY <1>3, <2>1, <2>2, ConcatOfLinked
  <2> QED
    BY <1>3, <2>1, <2>3 DEF ahead
<1> QED
  BY <1>1, <1>2, <1>3, <1>5, <1>6, <1>7, EndOfGood

LEMMA StopSearchIsGood ==
  /\ Linked(StopSearch) /\ Good(StopSearch) /\ StopSearch # <<>>
  /\ StopSearch[1] = "stop_search" /\ StopSearch[Len(StopSearch)] = "forget"
  /\ \A x : Has(StopSearch, x) <=> x \in {"stop_search", "status_idle", "join_scanner", "forget"}
BY DEF StopSearch, Linked, Good, Has, Steps, Pairs, Ends

LEMMA StartSearchIsGood ==
  /\ Good(StartSearch) /\ StartSearch # <<>> /\ StartSearch[1] = "search_lan"
  /\ \A x : Has(StartSearch, x) <=> x \in {"search_lan", "join_scanner", "spawn_scanner"}
BY DEF StartSearch, Linked, Good, Has, Steps, Pairs, Ends

LEMMA StartDirectSearchIsGood ==
  /\ Good(StartDirectSearch) /\ StartDirectSearch # <<>> /\ StartDirectSearch[1] = "stop_search"
  /\ \A x : Has(StartDirectSearch, x) <=>
       x \in {"stop_search", "join_scanner", "search_direct", "spawn_scanner"}
BY DEF StartDirectSearch, Linked, Good, Has, Steps, Pairs, Ends

\* A disconnect that is followed by one more step.
LEMMA DisconnectThenIsGood ==
  ASSUME NEW step \in Setups \cup {"idle"}
  PROVE  LET p == Disconnect \o <<step>> IN
         /\ Good(p) /\ p # <<>> /\ p[1] = "stop_threads"
         /\ \A x : Has(p, x) <=> Has(Disconnect, x) \/ x = step
<1>1. step \in Ends
  BY DEF Ends
<1>2. <<"close", step>> \in Pairs
  BY Zenon DEF Pairs
<1> QED
  BY <1>1, <1>2, DisconnectIsGood, StepIsGood, ConcatOfLinked, EndOfGood

LEMMA StopSearchThenIsGood ==
  LET p == StopSearch \o Disconnect IN
  /\ Linked(p) /\ Good(p) /\ p # <<>> /\ p[1] = "stop_search" /\ p[Len(p)] = "close"
  /\ \A x : Has(p, x) <=> Has(StopSearch, x) \/ Has(Disconnect, x)
<1>1. <<StopSearch[Len(StopSearch)], Disconnect[1]>> \in Pairs /\ "close" \in Ends
  BY DisconnectIsGood, StopSearchIsGood DEF Pairs, Ends
<1>2. /\ Linked(StopSearch \o Disconnect)
      /\ StopSearch \o Disconnect # <<>>
      /\ (StopSearch \o Disconnect)[1] = StopSearch[1]
      /\ (StopSearch \o Disconnect)[Len(StopSearch \o Disconnect)] = Disconnect[Len(Disconnect)]
      /\ \A x : Has(StopSearch \o Disconnect, x) <=> Has(StopSearch, x) \/ Has(Disconnect, x)
  BY <1>1, DisconnectIsGood, StopSearchIsGood, ConcatOfLinked
<1> QED
  BY <1>1, <1>2, DisconnectIsGood, StopSearchIsGood, EndOfGood

LEMMA CancelIsGood ==
  LET p == StopSearch \o Disconnect \o <<"idle">> IN
  /\ Good(p) /\ p # <<>> /\ p[1] = "stop_search"
  /\ \A x : Has(p, x) <=> Has(StopSearch, x) \/ Has(Disconnect, x) \/ x = "idle"
<1> DEFINE p == StopSearch \o Disconnect
           q == <<"idle">>
<1>1. <<"close", "idle">> \in Pairs /\ "idle" \in Ends
  BY DEF Pairs, Ends
<1>2. /\ Linked(p) /\ p # <<>> /\ p[1] = "stop_search" /\ p[Len(p)] = "close"
      /\ \A x : Has(p, x) <=> Has(StopSearch, x) \/ Has(Disconnect, x)
  BY StopSearchThenIsGood
<1>3. /\ Linked(q) /\ q # <<>> /\ q[1] = "idle" /\ q[Len(q)] = "idle"
      /\ \A x : Has(q, x) <=> x = "idle"
  BY <1>1, StepIsGood
<1> HIDE DEF p, q
<1>4. /\ Linked(p \o q) /\ p \o q # <<>> /\ (p \o q)[1] = p[1]
      /\ (p \o q)[Len(p \o q)] = q[Len(q)]
      /\ \A x : Has(p \o q, x) <=> Has(p, x) \/ Has(q, x)
  BY <1>1, <1>2, <1>3, ConcatOfLinked
<1>5. Good(p \o q)
  BY <1>1, <1>3, <1>4, EndOfGood
<1> QED
  BY <1>2, <1>3, <1>4, <1>5 DEF p, q

LEMMA NothingIsGood == Good(<<>>) /\ \A x : ~Has(<<>>, x)
BY DEF Good, Linked, Has

----------------------------------------------------------------------------
(* The background threads                                                  *)

\* What the game's thread has of its own.
LEMMA ProgramStays ==
  ASSUME IInv, UNCHANGED gameVars
  PROVE  /\ Good(todo') /\ todo' \in Seq(Steps)
         /\ \A x : Has(todo', x) <=> Has(todo, x)
         /\ todo' = todo /\ menu' = menu /\ role' = role
BY DEF IInv, gameVars, Good, Linked

LEMMA HeadIsStep == ASSUME IInv, todo # <<>> PROVE Head(todo) \in Steps
BY TailOfGood DEF IInv

\* What the worker's record keeps when only its place changes.
LEMMA WorkerMoves ==
  ASSUME MappingTypeOK, NEW pc \in WorkerPc, worker' = [worker EXCEPT !.pc = pc],
         mapping' = mapping, router' \in {"clear", "mapped", "orphaned"}
  PROVE  /\ MappingTypeOK' /\ worker'.pc = pc /\ worker'.at = worker.at
         /\ worker'.method = worker.method /\ (worker'.usable <=> worker.usable)
         /\ worker'.tries = worker.tries /\ (worker'.failed <=> worker.failed)
<1>1. MappingTypeOK'
  BY DEF MappingTypeOK
<1>2. /\ worker'.pc = pc /\ worker'.at = worker.at /\ worker'.method = worker.method
      /\ worker'.tries = worker.tries
  BY DEF MappingTypeOK
<1>3. (worker'.usable <=> worker.usable) /\ (worker'.failed <=> worker.failed)
  BY DEF MappingTypeOK
<1> QED
  BY <1>1, <1>2, <1>3

\* Where a wait of the worker ends.
LEMMA WaitEnds ==
  ASSUME MappingTypeOK, WorkerInv, worker.pc \in Waits, NEW stopped \in BOOLEAN,
         worker' = AfterWait(stopped), UNCHANGED <<mapping, router>>
  PROVE  MappingTypeOK' /\ WorkerInv'
<1> USE DEF Waits, WorkerPc
<1>0. /\ worker.at \in {"settle", "interval", "retry"} /\ worker.failed \in BOOLEAN
      /\ worker.tries \in 0 .. RefreshAttempts /\ 0 \in 0 .. RefreshAttempts
      /\ router' \in {"clear", "mapped", "orphaned"} /\ mapping' = mapping
  BY RefreshIsTried DEF MappingTypeOK
<1>1. CASE worker.at = "settle" /\ stopped
  <2>1. worker' = [worker EXCEPT !.pc = "ended"]
    BY <1>1 DEF AfterWait
  <2>2. MappingTypeOK' /\ worker'.pc = "ended"
    BY <1>0, <2>1, WorkerMoves
  <2> QED
    BY <1>1, <2>2 DEF WorkerInv
<1>2. CASE worker.at = "settle" /\ ~stopped
  <2>1. worker' = [worker EXCEPT !.pc = "open"]
    BY <1>2 DEF AfterWait
  <2>2. MappingTypeOK' /\ worker'.pc = "open" /\ (worker'.usable <=> worker.usable)
    BY <1>0, <2>1, WorkerMoves
  <2> QED
    BY <1>2, <2>2 DEF WorkerInv
<1>3. CASE worker.at # "settle" /\ stopped
  <2>1. worker' = [worker EXCEPT !.pc = "close", !.failed = FALSE]
    BY <1>3 DEF AfterWait
  <2>2. MappingTypeOK'
    BY <2>1 DEF MappingTypeOK
  <2>3. worker'.pc = "close" /\ (worker'.usable <=> worker.usable)
    BY <2>1 DEF MappingTypeOK
  <2> QED
    BY <1>3, <2>2, <2>3 DEF WorkerInv
<1>4. CASE worker.at = "interval" /\ ~stopped /\ worker.method # "natpmp"
  <2>1. worker' = [worker EXCEPT !.pc = "check"]
    BY <1>4 DEF AfterWait
  <2>2. /\ MappingTypeOK' /\ worker'.pc = "check" /\ worker'.at = "interval"
        /\ (worker'.usable <=> worker.usable)
    BY <1>0, <1>4, <2>1, WorkerMoves
  <2> QED
    BY <1>4, <2>2 DEF WorkerInv
<1>5. CASE worker.at = "interval" /\ ~stopped /\ worker.method = "natpmp"
  <2>1. worker' = [worker EXCEPT !.pc = "refresh", !.tries = 0]
    BY <1>5 DEF AfterWait
  <2>2. 0 < RefreshAttempts
    BY RefreshIsTried
  <2>3. MappingTypeOK'
    BY <1>0, <2>1 DEF MappingTypeOK
  <2>4. /\ worker'.pc = "refresh" /\ worker'.at = "interval" /\ worker'.tries = 0
        /\ (worker'.usable <=> worker.usable)
    BY <1>5, <2>1 DEF MappingTypeOK
  <2> QED
    BY <1>5, <2>2, <2>3, <2>4 DEF WorkerInv
<1>6. CASE worker.at = "retry" /\ ~stopped
  <2>1. worker' = [worker EXCEPT !.pc = "refresh"]
    BY <1>6 DEF AfterWait
  <2>2. /\ MappingTypeOK' /\ worker'.pc = "refresh" /\ worker'.at = "retry"
        /\ worker'.tries = worker.tries /\ (worker'.usable <=> worker.usable)
    BY <1>0, <1>6, <2>1, WorkerMoves
  <2> QED
    BY <1>6, <2>2 DEF WorkerInv
<1> QED
  BY <1>0, <1>1, <1>2, <1>3, <1>4, <1>5, <1>6

LEMMA WorkerTyped ==
  ASSUME MappingTypeOK, WorkerInv, WorkerNext
  PROVE  MappingTypeOK' /\ WorkerInv'
<1> USE DEF Waits, WorkerPc
<1>1. CASE WorkerChecks
  <2>1. CASE mapping.stop
    BY <1>1, <2>1, WaitEnds DEF WorkerChecks
  <2>2. CASE ~mapping.stop
    BY <1>1, <2>2 DEF WorkerChecks, MappingTypeOK, WorkerInv
  <2> QED
    BY <2>1, <2>2
<1>2. CASE WorkerSleeps
  BY <1>2 DEF WorkerSleeps, MappingTypeOK, WorkerInv
<1>3. CASE WaitTimesOut
  <2>1. mapping.stop \in BOOLEAN
    BY DEF MappingTypeOK
  <2> QED
    BY <1>3, <2>1, WaitEnds DEF WaitTimesOut
<1>4. CASE Open
  <2>1. ASSUME NEW method \in {"upnp", "natpmp"}, NEW usable \in BOOLEAN,
               worker' = [worker EXCEPT !.pc = "opened", !.method = method, !.usable = usable],
               router' = "mapped", worker.pc = "open", mapping' = mapping
        PROVE  MappingTypeOK' /\ WorkerInv'
    <3>1. MappingTypeOK'
      BY <2>1 DEF MappingTypeOK
    <3>2. worker'.pc = "opened"
      BY <2>1 DEF MappingTypeOK
    <3> QED
      BY <2>1, <3>1, <3>2 DEF WorkerInv
  <2>2. ASSUME worker' = [worker EXCEPT !.pc = "opened"], router' = router, worker.pc = "open",
               mapping' = mapping, ~worker.usable
        PROVE  MappingTypeOK' /\ WorkerInv'
    BY <2>2 DEF MappingTypeOK, WorkerInv
  <2> QED
    BY <1>4, <2>1, <2>2 DEF Open, WorkerInv
<1>5. CASE Opened
  BY <1>5 DEF Opened, Closed, MappingTypeOK, WorkerInv
<1>6. CASE Publish
  BY <1>6 DEF Publish, MappingTypeOK, WorkerInv
<1>7. CASE Tell
  BY <1>7 DEF Tell, MappingTypeOK, WorkerInv
<1>8. CASE RefreshSucceeds
  <2>1. /\ worker.pc = "refresh" /\ UNCHANGED <<mapping, router>>
        /\ worker' = [worker EXCEPT !.pc = "check", !.at = "interval"]
    BY <1>8 DEF RefreshSucceeds
  <2>2. MappingTypeOK'
    BY <2>1 DEF MappingTypeOK
  <2>3. worker'.pc = "check" /\ worker'.at = "interval" /\ (worker'.usable <=> worker.usable)
    BY <2>1 DEF MappingTypeOK
  <2> QED
    BY <2>1, <2>2, <2>3 DEF WorkerInv
<1>9. CASE RefreshFails
  <2> DEFINE again == worker.tries + 1 < RefreshAttempts
             pc == IF again THEN "check" ELSE "close"
             failed == ~again /\ ~mapping.stop
  <2>1. /\ worker.pc = "refresh" /\ UNCHANGED <<mapping, router>>
        /\ worker' = [worker EXCEPT !.tries = @ + 1, !.pc = pc, !.at = "retry", !.failed = failed]
    BY <1>9 DEF RefreshFails
  <2>2. /\ pc \in {"check", "close"} /\ failed \in BOOLEAN
        /\ pc = "check" => worker.tries + 1 < RefreshAttempts
    OBVIOUS
  <2>3. worker.tries + 1 \in 0 .. RefreshAttempts
    BY <2>1, RefreshIsTried DEF MappingTypeOK, WorkerInv
  <2> HIDE DEF pc, failed, again
  <2>4. MappingTypeOK'
    BY <2>1, <2>2, <2>3 DEF MappingTypeOK
  <2>5. /\ worker'.pc = pc /\ worker'.at = "retry" /\ worker'.tries = worker.tries + 1
        /\ (worker'.usable <=> worker.usable)
    BY <2>1, <2>2 DEF MappingTypeOK
  <2> QED
    BY <2>1, <2>2, <2>4, <2>5 DEF WorkerInv
<1>10. CASE Close
  BY <1>10 DEF Close, Closed, MappingTypeOK, WorkerInv
<1>11. CASE Unpublish
  BY <1>11 DEF Unpublish, MappingTypeOK, WorkerInv
<1> QED
  BY <1>1, <1>2, <1>3, <1>4, <1>5, <1>6, <1>7, <1>8, <1>9, <1>10, <1>11 DEF WorkerNext

\* A worker that runs belongs to a host, and is not joined yet.
LEMMA WorkerKeeps == ASSUME IInv, Worker PROVE IInv'
<1>1. worker.pc # "none"
  BY DEF Worker, WorkerNext, WorkerChecks, WorkerSleeps, WaitTimesOut, Open, Opened, Publish, Tell,
         RefreshSucceeds, RefreshFails, Close, Unpublish
<1>2. role = "host"
  BY <1>1 DEF IInv, RoleInv
<1>3. UNCHANGED gameVars /\ UNCHANGED discoveryVars
  BY DEF Worker
<1>4. MappingTypeOK' /\ WorkerInv'
  BY WorkerTyped DEF IInv, GameTypeOK, Worker
<1>5. HeadInv'
  BY <1>1, <1>3 DEF IInv, HeadInv, Ahead, Joined, Setups, ScannerRuns, gameVars, discoveryVars
<1>6. GameTypeOK' /\ Good(todo')
  BY <1>3, <1>4, ProgramStays DEF IInv, GameTypeOK, SearchTypeOK, gameVars, discoveryVars
<1>7. RoleInv' /\ NoPhantomSearch'
  BY <1>2, <1>3 DEF IInv, RoleInv, NoPhantomSearch, ScannerRuns, gameVars, discoveryVars
<1>8. MenuInv'
  BY <1>3, ProgramStays DEF IInv, MenuInv, ScannerRuns, gameVars, discoveryVars
<1> QED
  BY <1>4, <1>5, <1>6, <1>7, <1>8 DEF IInv

LEMMA ScannerTyped ==
  ASSUME SearchTypeOK, NoPhantomSearch, ScannerNext
  PROVE  /\ SearchTypeOK' /\ NoPhantomSearch' /\ ScannerRuns
         /\ UNCHANGED <<responder, active>>
<1> USE DEF SearchTypeOK, NoPhantomSearch, ScannerRuns
<1>1. CASE Begin
  BY <1>1 DEF Begin
<1>2. CASE ReadTarget
  <2>2. CASE scanner' = [scanner EXCEPT !.pc = "seeking", !.directed = search.directed]
             /\ UNCHANGED status
    <3>1. scanner.pc = "reading" /\ UNCHANGED <<search, responder, active>>
      BY <1>2 DEF ReadTarget
    <3>2. search.directed \in BOOLEAN
      OBVIOUS
    <3>3. SearchTypeOK' /\ scanner'.pc = "seeking"
      BY <2>2, <3>1, <3>2
    <3> QED
      BY <2>2, <3>1, <3>3
  <2>3. CASE scanner' = [scanner EXCEPT !.pc = "ended"] /\ status' = "failed"
    BY <1>2, <2>3 DEF ReadTarget
  <2> QED
    BY <1>2, <2>2, <2>3 DEF ReadTarget
<1>3. CASE Attempt
  <2>1. scanner.left # 0 => scanner.left - 1 \in 0 .. Attempts
    BY SearchIsTried
  <2>2. CASE scanner' = [scanner EXCEPT !.pc = "giving_up"]
    BY <1>3, <2>2 DEF Attempt
  <2>3. CASE scanner.left # 0 /\ scanner' = [scanner EXCEPT !.pc = "receiving", !.left = @ - 1]
    <3>1. scanner.pc = "seeking" /\ UNCHANGED <<search, status, responder, active>>
      BY <1>3 DEF Attempt
    <3>2. SearchTypeOK' /\ scanner'.pc = "receiving"
      BY <2>1, <2>3, <3>1
    <3> QED
      BY <3>1, <3>2
  <2> QED
    BY <1>3, <2>2, <2>3 DEF Attempt
<1>4. CASE NoAnswer
  BY <1>4 DEF NoAnswer
<1>5. CASE Answered
  BY <1>5 DEF Answered
<1>6. CASE PublishFound
  BY <1>6 DEF PublishFound
<1>7. CASE GiveUp
  BY <1>7 DEF GiveUp
<1>8. CASE Fail
  BY <1>8 DEF Fail
<1> QED
  BY <1>1, <1>2, <1>3, <1>4, <1>5, <1>6, <1>7, <1>8 DEF ScannerNext

\* A scanner that runs has no session beside it, and is not joined yet.
LEMMA ScannerKeeps == ASSUME IInv, Scanner PROVE IInv'
<1>1. /\ SearchTypeOK' /\ NoPhantomSearch' /\ ScannerRuns /\ UNCHANGED <<responder, active>>
      /\ UNCHANGED gameVars /\ UNCHANGED mappingVars
  BY ScannerTyped DEF IInv, GameTypeOK, Scanner
<1>2. role = "none"
  BY <1>1 DEF IInv, RoleInv
<1>3. HeadInv'
  BY <1>1, HeadIsStep DEF IInv, HeadInv, Ahead, Joined, Steps, Setups, gameVars, mappingVars
<1>4. GameTypeOK' /\ Good(todo')
  BY <1>1, ProgramStays DEF IInv, GameTypeOK, MappingTypeOK, gameVars, mappingVars
<1>5. WorkerInv' /\ RoleInv'
  BY <1>1, <1>2 DEF IInv, WorkerInv, RoleInv, gameVars, mappingVars
<1>6. MenuInv'
  BY <1>1, <1>2, ProgramStays DEF IInv, MenuInv, gameVars
<1> QED
  BY <1>1, <1>3, <1>4, <1>5, <1>6 DEF IInv

\* A responder that runs belongs to a host, and is not joined yet.
LEMMA ResponderKeeps == ASSUME IInv, Responder PROVE IInv'
<1>1. /\ responder # "none" /\ SearchTypeOK' /\ UNCHANGED <<scanner, search, status, active>>
      /\ UNCHANGED gameVars /\ UNCHANGED mappingVars
  BY DEF IInv, GameTypeOK, SearchTypeOK, Responder, ResponderNext, Bind, Listen, Receive, Answer
<1>2. role = "host"
  BY <1>1 DEF IInv, RoleInv
<1>3. HeadInv'
  BY <1>1, HeadIsStep DEF IInv, HeadInv, Ahead, Joined, Steps, Setups, ScannerRuns, gameVars, mappingVars
<1>4. GameTypeOK' /\ Good(todo')
  BY <1>1, ProgramStays DEF IInv, GameTypeOK, MappingTypeOK, gameVars, mappingVars
<1>5. WorkerInv' /\ RoleInv' /\ NoPhantomSearch'
  BY <1>1, <1>2 DEF IInv, WorkerInv, RoleInv, NoPhantomSearch, ScannerRuns, gameVars, mappingVars
<1>6. MenuInv'
  BY <1>1, ProgramStays DEF IInv, MenuInv, ScannerRuns, gameVars
<1> QED
  BY <1>1, <1>3, <1>4, <1>5, <1>6 DEF IInv

----------------------------------------------------------------------------
(* The steps of the game's thread                                          *)

\* What a step leaves to do, and what holds for a next step that the one
\* before may be followed by.
LEMMA StepTaken ==
  ASSUME IInv, NEW step, At(step)
  PROVE  /\ Ahead(step) /\ step \in Steps /\ Has(todo, step)
         /\ Good(todo') /\ todo' \in Seq(Steps)
         /\ \A x : Has(todo', x) => Has(todo, x)
         /\ \A x : Has(todo, x) => Has(todo', x) \/ x = step
         /\ todo' # <<>> => <<step, Head(todo')>> \in Pairs
         /\ todo' = <<>> => step \in Ends
<1>1. todo # <<>> /\ Head(todo) = step /\ todo' = Tail(todo)
  BY DEF At
<1>2. Good(todo) /\ Ahead(step)
  BY <1>1 DEF IInv, HeadInv
<1> QED
  BY <1>1, <1>2, TailOfGood DEF Good, Linked

LEMMA SearchLanKeeps == ASSUME IInv, SearchLan PROVE IInv'
<1>1. At("search_lan")
  BY DEF SearchLan
<1>2. /\ Ahead("search_lan") /\ Has(todo, "search_lan")
      /\ Good(todo') /\ todo' \in Seq(Steps)
      /\ \A x : Has(todo', x) => Has(todo, x)
      /\ \A x : Has(todo, x) => Has(todo', x) \/ x = "search_lan"
      /\ todo' # <<>> => <<"search_lan", Head(todo')>> \in Pairs
  BY <1>1, StepTaken
<1>3. GameTypeOK'
  BY <1>2 DEF SearchLan, IInv, GameTypeOK, MappingTypeOK, SearchTypeOK, mappingVars, discoveryVars
<1>4. HeadInv'
  BY <1>2 DEF SearchLan, IInv, HeadInv, RoleInv, MenuInv, Ahead, Pairs, Joined, Steps, Setups, ScannerRuns, WorkerRuns,
              mappingVars, discoveryVars
<1>5. WorkerInv'
  BY <1>2 DEF SearchLan, IInv, WorkerInv, Ahead, Waits, WorkerRuns, mappingVars, discoveryVars
<1>6. NoPhantomSearch' /\ RoleInv'
  BY <1>2 DEF SearchLan, IInv, NoPhantomSearch, RoleInv, MenuInv, Ahead, Joined, Steps, Setups, ScannerRuns, WorkerRuns,
              NoScanner, NoWorker, mappingVars, discoveryVars
<1>7. MenuInv'
  BY <1>2 DEF SearchLan, IInv, MenuInv, RoleInv, Ahead, Joined, Steps, Setups, ScannerRuns, NoScanner, mappingVars, discoveryVars
<1> QED
  BY <1>2, <1>3, <1>4, <1>5, <1>6, <1>7 DEF IInv

LEMMA SearchDirectKeeps == ASSUME IInv, SearchDirect PROVE IInv'
<1>1. At("search_direct")
  BY DEF SearchDirect
<1>2. /\ Ahead("search_direct") /\ Has(todo, "search_direct")
      /\ Good(todo') /\ todo' \in Seq(Steps)
      /\ \A x : Has(todo', x) => Has(todo, x)
      /\ \A x : Has(todo, x) => Has(todo', x) \/ x = "search_direct"
      /\ todo' # <<>> => <<"search_direct", Head(todo')>> \in Pairs
  BY <1>1, StepTaken
<1>3. GameTypeOK'
  BY <1>2 DEF SearchDirect, IInv, GameTypeOK, MappingTypeOK, SearchTypeOK, mappingVars, discoveryVars
<1>4. HeadInv'
  BY <1>2 DEF SearchDirect, IInv, HeadInv, RoleInv, MenuInv, Ahead, Pairs, Joined, Steps, Setups, ScannerRuns, WorkerRuns,
              mappingVars, discoveryVars
<1>5. WorkerInv'
  BY <1>2 DEF SearchDirect, IInv, WorkerInv, Ahead, Waits, WorkerRuns, mappingVars, discoveryVars
<1>6. NoPhantomSearch' /\ RoleInv'
  BY <1>2 DEF SearchDirect, IInv, NoPhantomSearch, RoleInv, MenuInv, Ahead, Joined, Steps, Setups, ScannerRuns, WorkerRuns,
              NoScanner, NoWorker, mappingVars, discoveryVars
<1>7. MenuInv'
  BY <1>2 DEF SearchDirect, IInv, MenuInv, RoleInv, Ahead, Joined, Steps, Setups, ScannerRuns, NoScanner, mappingVars, discoveryVars
<1> QED
  BY <1>2, <1>3, <1>4, <1>5, <1>6, <1>7 DEF IInv

LEMMA SpawnScannerKeeps == ASSUME IInv, SpawnScanner PROVE IInv'
<1>1. At("spawn_scanner")
  BY DEF SpawnScanner
<1>2. /\ Ahead("spawn_scanner") /\ Has(todo, "spawn_scanner")
      /\ Good(todo') /\ todo' \in Seq(Steps)
      /\ \A x : Has(todo', x) => Has(todo, x)
      /\ \A x : Has(todo, x) => Has(todo', x) \/ x = "spawn_scanner"
      /\ todo' # <<>> => <<"spawn_scanner", Head(todo')>> \in Pairs
  BY <1>1, StepTaken
<1>3. GameTypeOK'
  <2>1. MappingTypeOK'
    BY RefreshIsTried DEF SpawnScanner, IInv, GameTypeOK, MappingTypeOK, NoWorker, WorkerPc, mappingVars
  <2>2. SearchTypeOK'
    <3>1. Attempts \in 0 .. Attempts
      BY SearchIsTried
    <3>2. scanner' = [pc |-> "born", directed |-> FALSE, left |-> Attempts]
      BY DEF SpawnScanner, NoScanner
    <3>3. UNCHANGED <<search, status, responder, active>> /\ SearchTypeOK
      BY DEF SpawnScanner, IInv, GameTypeOK
    <3> QED
      BY <3>1, <3>2, <3>3 DEF SearchTypeOK
  <2> QED
    BY <1>2, <2>1, <2>2 DEF SpawnScanner, IInv, GameTypeOK
<1>4. HeadInv'
  BY <1>2 DEF SpawnScanner, IInv, HeadInv, RoleInv, MenuInv, Ahead, Pairs, Joined, Steps, Setups, ScannerRuns, WorkerRuns,
              mappingVars, discoveryVars
<1>5. WorkerInv'
  BY <1>2 DEF SpawnScanner, IInv, WorkerInv, Ahead, Waits, WorkerRuns, mappingVars, discoveryVars
<1>6. NoPhantomSearch' /\ RoleInv'
  BY <1>2 DEF SpawnScanner, IInv, NoPhantomSearch, RoleInv, MenuInv, Ahead, Joined, Steps, Setups, ScannerRuns, WorkerRuns,
              NoScanner, NoWorker, mappingVars, discoveryVars
<1>7. MenuInv'
  BY <1>2 DEF SpawnScanner, IInv, MenuInv, RoleInv, Ahead, Joined, Steps, Setups, ScannerRuns, NoScanner, mappingVars, discoveryVars
<1> QED
  BY <1>2, <1>3, <1>4, <1>5, <1>6, <1>7 DEF IInv

LEMMA StatusIdleKeeps == ASSUME IInv, StatusIdle PROVE IInv'
<1>0. PICK step \in {"status_idle", "idle"} : At(step)
  BY DEF StatusIdle
<1>1. At(step)
  BY <1>0
<1>2. /\ Ahead(step) /\ Has(todo, step)
      /\ Good(todo') /\ todo' \in Seq(Steps)
      /\ \A x : Has(todo', x) => Has(todo, x)
      /\ \A x : Has(todo, x) => Has(todo', x) \/ x = step
      /\ todo' # <<>> => <<step, Head(todo')>> \in Pairs
  BY <1>1, StepTaken
<1>3. GameTypeOK'
  BY <1>2 DEF StatusIdle, IInv, GameTypeOK, MappingTypeOK, SearchTypeOK, mappingVars, discoveryVars
<1>4. HeadInv'
  BY <1>2 DEF StatusIdle, IInv, HeadInv, RoleInv, MenuInv, Ahead, Pairs, Joined, Steps, Setups, ScannerRuns, WorkerRuns,
              mappingVars, discoveryVars
<1>5. WorkerInv'
  BY <1>2 DEF StatusIdle, IInv, WorkerInv, Ahead, Waits, WorkerRuns, mappingVars, discoveryVars
<1>6. NoPhantomSearch' /\ RoleInv'
  BY <1>2 DEF StatusIdle, IInv, NoPhantomSearch, RoleInv, MenuInv, Ahead, Joined, Steps, Setups, ScannerRuns, WorkerRuns,
              NoScanner, NoWorker, mappingVars, discoveryVars
<1>7. MenuInv'
  BY <1>2 DEF StatusIdle, IInv, MenuInv, RoleInv, Ahead, Joined, Steps, Setups, ScannerRuns, NoScanner, mappingVars, discoveryVars
<1> QED
  BY <1>2, <1>3, <1>4, <1>5, <1>6, <1>7 DEF IInv

LEMMA JoinScannerKeeps == ASSUME IInv, JoinScanner PROVE IInv'
<1>1. At("join_scanner")
  BY DEF JoinScanner
<1>2. /\ Ahead("join_scanner") /\ Has(todo, "join_scanner")
      /\ Good(todo') /\ todo' \in Seq(Steps)
      /\ \A x : Has(todo', x) => Has(todo, x)
      /\ \A x : Has(todo, x) => Has(todo', x) \/ x = "join_scanner"
      /\ todo' # <<>> => <<"join_scanner", Head(todo')>> \in Pairs
  BY <1>1, StepTaken
<1>3. GameTypeOK'
  <2>1. MappingTypeOK'
    BY RefreshIsTried DEF JoinScanner, IInv, GameTypeOK, MappingTypeOK, NoWorker, WorkerPc, mappingVars
  <2>2. SearchTypeOK'
    BY SearchIsTried DEF JoinScanner, IInv, GameTypeOK, SearchTypeOK, NoScanner, discoveryVars
  <2> QED
    BY <1>2, <2>1, <2>2 DEF JoinScanner, IInv, GameTypeOK
<1>4. HeadInv'
  BY <1>2 DEF JoinScanner, IInv, HeadInv, RoleInv, MenuInv, Ahead, Pairs, Joined, Steps, Setups, ScannerRuns, WorkerRuns,
              NoScanner, NoWorker, mappingVars, discoveryVars
<1>5. WorkerInv'
  BY <1>2 DEF JoinScanner, IInv, WorkerInv, Ahead, Waits, WorkerRuns, mappingVars, discoveryVars
<1>6. NoPhantomSearch' /\ RoleInv'
  BY <1>2 DEF JoinScanner, IInv, NoPhantomSearch, RoleInv, MenuInv, Ahead, Joined, Steps, Setups, ScannerRuns, WorkerRuns,
              NoScanner, NoWorker, mappingVars, discoveryVars
<1>7. MenuInv'
  BY <1>2 DEF JoinScanner, IInv, MenuInv, RoleInv, Ahead, Joined, Steps, Setups, ScannerRuns, NoScanner, mappingVars, discoveryVars
<1> QED
  BY <1>2, <1>3, <1>4, <1>5, <1>6, <1>7 DEF IInv

LEMMA ForgetKeeps == ASSUME IInv, Forget PROVE IInv'
<1>1. At("forget")
  BY DEF Forget
<1>2. /\ Ahead("forget") /\ Has(todo, "forget")
      /\ Good(todo') /\ todo' \in Seq(Steps)
      /\ \A x : Has(todo', x) => Has(todo, x)
      /\ \A x : Has(todo, x) => Has(todo', x) \/ x = "forget"
      /\ todo' # <<>> => <<"forget", Head(todo')>> \in Pairs
  BY <1>1, StepTaken
<1>3. GameTypeOK'
  <2>1. MappingTypeOK'
    BY RefreshIsTried DEF Forget, IInv, GameTypeOK, MappingTypeOK, NoWorker, WorkerPc, mappingVars
  <2>2. SearchTypeOK'
    <3>1. SearchTypeOK /\ UNCHANGED <<scanner, status, responder, active>>
          /\ search' = [search EXCEPT !.found = "none", !.directed = FALSE]
      BY DEF Forget, IInv, GameTypeOK
    <3> QED
      BY <3>1 DEF SearchTypeOK
  <2> QED
    BY <1>2, <2>1, <2>2 DEF Forget, IInv, GameTypeOK
<1>4. HeadInv'
  BY <1>2 DEF Forget, IInv, HeadInv, RoleInv, MenuInv, Ahead, Pairs, Joined, Steps, Setups, ScannerRuns, WorkerRuns,
              mappingVars, discoveryVars
<1>5. WorkerInv'
  BY <1>2 DEF Forget, IInv, WorkerInv, Ahead, Waits, WorkerRuns, mappingVars, discoveryVars
<1>6. NoPhantomSearch' /\ RoleInv'
  BY <1>2 DEF Forget, IInv, NoPhantomSearch, RoleInv, MenuInv, Ahead, Joined, Steps, Setups, ScannerRuns, WorkerRuns,
              NoScanner, NoWorker, mappingVars, discoveryVars
<1>7. MenuInv'
  BY <1>2 DEF Forget, IInv, MenuInv, RoleInv, Ahead, Joined, Steps, Setups, ScannerRuns, NoScanner, mappingVars, discoveryVars
<1> QED
  BY <1>2, <1>3, <1>4, <1>5, <1>6, <1>7 DEF IInv

LEMMA JoinResponderKeeps == ASSUME IInv, JoinResponder PROVE IInv'
<1>1. At("join_responder")
  BY DEF JoinResponder
<1>2. /\ Ahead("join_responder") /\ Has(todo, "join_responder")
      /\ Good(todo') /\ todo' \in Seq(Steps)
      /\ \A x : Has(todo', x) => Has(todo, x)
      /\ \A x : Has(todo, x) => Has(todo', x) \/ x = "join_responder"
      /\ todo' # <<>> => <<"join_responder", Head(todo')>> \in Pairs
  BY <1>1, StepTaken
<1>3. GameTypeOK'
  BY <1>2 DEF JoinResponder, IInv, GameTypeOK, MappingTypeOK, SearchTypeOK, mappingVars, discoveryVars
<1>4. HeadInv'
  BY <1>2 DEF JoinResponder, IInv, HeadInv, RoleInv, MenuInv, Ahead, Pairs, Joined, Steps, Setups, ScannerRuns, WorkerRuns,
              mappingVars, discoveryVars
<1>5. WorkerInv'
  BY <1>2 DEF JoinResponder, IInv, WorkerInv, Ahead, Waits, WorkerRuns, mappingVars, discoveryVars
<1>6. NoPhantomSearch' /\ RoleInv'
  BY <1>2 DEF JoinResponder, IInv, NoPhantomSearch, RoleInv, MenuInv, Ahead, Joined, Steps, Setups, ScannerRuns, WorkerRuns,
              NoScanner, NoWorker, mappingVars, discoveryVars
<1>7. MenuInv'
  BY <1>2 DEF JoinResponder, IInv, MenuInv, RoleInv, Ahead, Joined, Steps, Setups, ScannerRuns, NoScanner, mappingVars, discoveryVars
<1> QED
  BY <1>2, <1>3, <1>4, <1>5, <1>6, <1>7 DEF IInv

LEMMA TellWorkerKeeps == ASSUME IInv, TellWorker PROVE IInv'
<1>1. At("stop_worker")
  BY DEF TellWorker
<1>2. /\ Ahead("stop_worker") /\ Has(todo, "stop_worker")
      /\ Good(todo') /\ todo' \in Seq(Steps)
      /\ \A x : Has(todo', x) => Has(todo, x)
      /\ \A x : Has(todo, x) => Has(todo', x) \/ x = "stop_worker"
      /\ todo' # <<>> => <<"stop_worker", Head(todo')>> \in Pairs
  BY <1>1, StepTaken
<1>3. GameTypeOK'
  <2>1. MappingTypeOK'
    <3>1. MappingTypeOK /\ UNCHANGED <<worker, router>> /\ mapping' = [mapping EXCEPT !.stop = TRUE]
      BY DEF TellWorker, IInv, GameTypeOK
    <3> QED
      BY <3>1 DEF MappingTypeOK
  <2>2. SearchTypeOK'
    BY SearchIsTried DEF TellWorker, IInv, GameTypeOK, SearchTypeOK, NoScanner, discoveryVars
  <2> QED
    BY <1>2, <2>1, <2>2 DEF TellWorker, IInv, GameTypeOK
<1>4. HeadInv'
  BY <1>2 DEF TellWorker, IInv, HeadInv, RoleInv, MenuInv, Ahead, Pairs, Joined, Steps, Setups, ScannerRuns, WorkerRuns,
              mappingVars, discoveryVars
<1>5. WorkerInv'
  BY <1>2 DEF TellWorker, IInv, WorkerInv, Ahead, Waits, WorkerRuns, mappingVars, discoveryVars
<1>6. NoPhantomSearch' /\ RoleInv'
  BY <1>2 DEF TellWorker, IInv, NoPhantomSearch, RoleInv, MenuInv, Ahead, Joined, Steps, Setups, ScannerRuns, WorkerRuns,
              NoScanner, NoWorker, mappingVars, discoveryVars
<1>7. MenuInv'
  BY <1>2 DEF TellWorker, IInv, MenuInv, RoleInv, Ahead, Joined, Steps, Setups, ScannerRuns, NoScanner, mappingVars, discoveryVars
<1> QED
  BY <1>2, <1>3, <1>4, <1>5, <1>6, <1>7 DEF IInv

LEMMA NotifyWorkerKeeps == ASSUME IInv, NotifyWorker PROVE IInv'
<1>1. At("notify_worker")
  BY DEF NotifyWorker
<1>2. /\ Ahead("notify_worker") /\ Has(todo, "notify_worker")
      /\ Good(todo') /\ todo' \in Seq(Steps)
      /\ \A x : Has(todo', x) => Has(todo, x)
      /\ \A x : Has(todo, x) => Has(todo', x) \/ x = "notify_worker"
      /\ todo' # <<>> => <<"notify_worker", Head(todo')>> \in Pairs
  BY <1>1, StepTaken
<1>3. GameTypeOK'
  <2>1. MappingTypeOK'
    BY RefreshIsTried DEF NotifyWorker, IInv, GameTypeOK, MappingTypeOK, NoWorker, WorkerPc, mappingVars
  <2>2. SearchTypeOK'
    BY SearchIsTried DEF NotifyWorker, IInv, GameTypeOK, SearchTypeOK, NoScanner, discoveryVars
  <2> QED
    BY <1>2, <2>1, <2>2 DEF NotifyWorker, IInv, GameTypeOK
<1>4. HeadInv'
  BY <1>2 DEF NotifyWorker, IInv, HeadInv, RoleInv, MenuInv, Ahead, Pairs, Joined, Steps, Setups, ScannerRuns, WorkerRuns,
              mappingVars, discoveryVars
<1>5. WorkerInv'
  BY <1>2 DEF NotifyWorker, IInv, WorkerInv, Ahead, Waits, WorkerRuns, mappingVars, discoveryVars
<1>6. NoPhantomSearch' /\ RoleInv'
  BY <1>2 DEF NotifyWorker, IInv, NoPhantomSearch, RoleInv, MenuInv, Ahead, Joined, Steps, Setups, ScannerRuns, WorkerRuns,
              NoScanner, NoWorker, mappingVars, discoveryVars
<1>7. MenuInv'
  BY <1>2 DEF NotifyWorker, IInv, MenuInv, RoleInv, Ahead, Joined, Steps, Setups, ScannerRuns, NoScanner, mappingVars, discoveryVars
<1> QED
  BY <1>2, <1>3, <1>4, <1>5, <1>6, <1>7 DEF IInv

LEMMA JoinWorkerKeeps == ASSUME IInv, JoinWorker PROVE IInv'
<1>1. At("join_worker")
  BY DEF JoinWorker
<1>2. /\ Ahead("join_worker") /\ Has(todo, "join_worker")
      /\ Good(todo') /\ todo' \in Seq(Steps)
      /\ \A x : Has(todo', x) => Has(todo, x)
      /\ \A x : Has(todo, x) => Has(todo', x) \/ x = "join_worker"
      /\ todo' # <<>> => <<"join_worker", Head(todo')>> \in Pairs
  BY <1>1, StepTaken
<1>3. GameTypeOK'
  <2>1. MappingTypeOK'
    BY RefreshIsTried DEF JoinWorker, IInv, GameTypeOK, MappingTypeOK, NoWorker, WorkerPc, mappingVars
  <2>2. SearchTypeOK'
    BY SearchIsTried DEF JoinWorker, IInv, GameTypeOK, SearchTypeOK, NoScanner, discoveryVars
  <2> QED
    BY <1>2, <2>1, <2>2 DEF JoinWorker, IInv, GameTypeOK
<1>4. HeadInv'
  BY <1>2 DEF JoinWorker, IInv, HeadInv, RoleInv, MenuInv, Ahead, Pairs, Joined, Steps, Setups, ScannerRuns, WorkerRuns,
              NoScanner, NoWorker, mappingVars, discoveryVars
<1>5. WorkerInv'
  BY <1>2 DEF JoinWorker, IInv, WorkerInv, Ahead, Waits, WorkerRuns, NoWorker, mappingVars, discoveryVars
<1>6. NoPhantomSearch' /\ RoleInv'
  BY <1>2 DEF JoinWorker, IInv, NoPhantomSearch, RoleInv, MenuInv, Ahead, Joined, Steps, Setups, ScannerRuns, WorkerRuns,
              NoScanner, NoWorker, mappingVars, discoveryVars
<1>7. MenuInv'
  BY <1>2 DEF JoinWorker, IInv, MenuInv, RoleInv, Ahead, Joined, Steps, Setups, ScannerRuns, NoScanner, mappingVars, discoveryVars
<1> QED
  BY <1>2, <1>3, <1>4, <1>5, <1>6, <1>7 DEF IInv

LEMMA MappingIdleKeeps == ASSUME IInv, MappingIdle PROVE IInv'
<1>1. At("mapping_idle")
  BY DEF MappingIdle
<1>2. /\ Ahead("mapping_idle") /\ Has(todo, "mapping_idle")
      /\ Good(todo') /\ todo' \in Seq(Steps)
      /\ \A x : Has(todo', x) => Has(todo, x)
      /\ \A x : Has(todo, x) => Has(todo', x) \/ x = "mapping_idle"
      /\ todo' # <<>> => <<"mapping_idle", Head(todo')>> \in Pairs
  BY <1>1, StepTaken
<1>3. GameTypeOK'
  <2>1. MappingTypeOK'
    <3>1. MappingTypeOK /\ UNCHANGED <<worker, router>>
          /\ mapping' = [mapping EXCEPT !.state = "idle", !.setup = "idle"]
      BY DEF MappingIdle, IInv, GameTypeOK
    <3> QED
      BY <3>1 DEF MappingTypeOK
  <2>2. SearchTypeOK'
    BY SearchIsTried DEF MappingIdle, IInv, GameTypeOK, SearchTypeOK, NoScanner, discoveryVars
  <2> QED
    BY <1>2, <2>1, <2>2 DEF MappingIdle, IInv, GameTypeOK
<1>4. HeadInv'
  BY <1>2 DEF MappingIdle, IInv, HeadInv, RoleInv, MenuInv, Ahead, Pairs, Joined, Steps, Setups, ScannerRuns, WorkerRuns,
              mappingVars, discoveryVars
<1>5. WorkerInv'
  BY <1>2 DEF MappingIdle, IInv, WorkerInv, Ahead, Waits, WorkerRuns, mappingVars, discoveryVars
<1>6. NoPhantomSearch' /\ RoleInv'
  BY <1>2 DEF MappingIdle, IInv, NoPhantomSearch, RoleInv, MenuInv, Ahead, Joined, Steps, Setups, ScannerRuns, WorkerRuns,
              NoScanner, NoWorker, mappingVars, discoveryVars
<1>7. MenuInv'
  BY <1>2 DEF MappingIdle, IInv, MenuInv, RoleInv, Ahead, Joined, Steps, Setups, ScannerRuns, NoScanner, mappingVars, discoveryVars
<1> QED
  BY <1>2, <1>3, <1>4, <1>5, <1>6, <1>7 DEF IInv

LEMMA CloseTransportKeeps == ASSUME IInv, CloseTransport PROVE IInv'
<1>1. At("close")
  BY DEF CloseTransport
<1>2. /\ Ahead("close") /\ Has(todo, "close")
      /\ Good(todo') /\ todo' \in Seq(Steps)
      /\ \A x : Has(todo', x) => Has(todo, x)
      /\ \A x : Has(todo, x) => Has(todo', x) \/ x = "close"
      /\ todo' # <<>> => <<"close", Head(todo')>> \in Pairs
  BY <1>1, StepTaken
<1>3. GameTypeOK'
  <2>1. MappingTypeOK'
    BY RefreshIsTried DEF CloseTransport, IInv, GameTypeOK, MappingTypeOK, NoWorker, WorkerPc, mappingVars
  <2>2. SearchTypeOK'
    BY SearchIsTried DEF CloseTransport, IInv, GameTypeOK, SearchTypeOK, NoScanner, discoveryVars
  <2> QED
    BY <1>2, <2>1, <2>2 DEF CloseTransport, IInv, GameTypeOK
<1>4. HeadInv'
  BY <1>2 DEF CloseTransport, IInv, HeadInv, RoleInv, MenuInv, Ahead, Pairs, Joined, Steps, Setups, ScannerRuns, WorkerRuns,
              mappingVars, discoveryVars
<1>5. WorkerInv'
  BY <1>2 DEF CloseTransport, IInv, WorkerInv, Ahead, Waits, WorkerRuns, mappingVars, discoveryVars
<1>6. NoPhantomSearch' /\ RoleInv'
  BY <1>2 DEF CloseTransport, IInv, NoPhantomSearch, RoleInv, MenuInv, Ahead, Joined, Steps, Setups, ScannerRuns, WorkerRuns,
              NoScanner, NoWorker, mappingVars, discoveryVars
<1>7. MenuInv'
  BY <1>2 DEF CloseTransport, IInv, MenuInv, RoleInv, Ahead, Joined, Steps, Setups, ScannerRuns, NoScanner, mappingVars, discoveryVars
<1> QED
  BY <1>2, <1>3, <1>4, <1>5, <1>6, <1>7 DEF IInv

LEMMA SetupClientKeeps == ASSUME IInv, SetupClient PROVE IInv'
<1>1. At("setup_client")
  BY DEF SetupClient
<1>2. /\ Ahead("setup_client") /\ Has(todo, "setup_client")
      /\ Good(todo') /\ todo' \in Seq(Steps)
      /\ \A x : Has(todo', x) => Has(todo, x)
      /\ \A x : Has(todo, x) => Has(todo', x) \/ x = "setup_client"
      /\ todo' # <<>> => <<"setup_client", Head(todo')>> \in Pairs
  BY <1>1, StepTaken
<1>3. GameTypeOK'
  BY <1>2 DEF SetupClient, IInv, GameTypeOK, MappingTypeOK, SearchTypeOK, mappingVars, discoveryVars
<1>4. HeadInv'
  BY <1>2 DEF SetupClient, IInv, HeadInv, RoleInv, MenuInv, Ahead, Pairs, Joined, Steps, Setups, ScannerRuns, WorkerRuns,
              mappingVars, discoveryVars
<1>5. WorkerInv'
  BY <1>2 DEF SetupClient, IInv, WorkerInv, Ahead, Waits, WorkerRuns, mappingVars, discoveryVars
<1>6. NoPhantomSearch' /\ RoleInv'
  BY <1>2 DEF SetupClient, IInv, NoPhantomSearch, RoleInv, MenuInv, Ahead, Joined, Steps, Setups, ScannerRuns, WorkerRuns,
              NoScanner, NoWorker, mappingVars, discoveryVars
<1>7. MenuInv'
  <2>1. todo' = <<>>
    BY <1>2 DEF Pairs, Setups
  <2>2. \A x : ~Has(todo', x)
    BY <2>1, NothingIsGood
  <2> QED
    BY <1>2, <2>2 DEF SetupClient, IInv, MenuInv, RoleInv, Ahead, Joined, Steps, Setups, ScannerRuns, NoScanner, mappingVars, discoveryVars
<1> QED
  BY <1>2, <1>3, <1>4, <1>5, <1>6, <1>7 DEF IInv

LEMMA SetupHostFailsKeeps == ASSUME IInv, SetupHostFails PROVE IInv'
<1>0. PICK step \in {"setup_host_lan", "setup_host_online"} : At(step)
  BY DEF SetupHostFails
<1>1. At(step)
  BY <1>0
<1>2. /\ Ahead(step) /\ Has(todo, step)
      /\ Good(todo') /\ todo' \in Seq(Steps)
      /\ \A x : Has(todo', x) => Has(todo, x)
      /\ \A x : Has(todo, x) => Has(todo', x) \/ x = step
      /\ todo' # <<>> => <<step, Head(todo')>> \in Pairs
  BY <1>1, StepTaken
<1>3. GameTypeOK'
  <2>1. MappingTypeOK'
    BY RefreshIsTried DEF SetupHostFails, IInv, GameTypeOK, MappingTypeOK, NoWorker, WorkerPc, mappingVars
  <2>2. SearchTypeOK'
    BY SearchIsTried DEF SetupHostFails, IInv, GameTypeOK, SearchTypeOK, NoScanner, discoveryVars
  <2> QED
    BY <1>2, <2>1, <2>2 DEF SetupHostFails, IInv, GameTypeOK
<1>4. HeadInv'
  BY <1>2 DEF SetupHostFails, IInv, HeadInv, RoleInv, MenuInv, Ahead, Pairs, Joined, Steps, Setups, ScannerRuns, WorkerRuns,
              mappingVars, discoveryVars
<1>5. WorkerInv'
  BY <1>2 DEF SetupHostFails, IInv, WorkerInv, Ahead, Waits, WorkerRuns, mappingVars, discoveryVars
<1>6. NoPhantomSearch' /\ RoleInv'
  BY <1>2 DEF SetupHostFails, IInv, NoPhantomSearch, RoleInv, MenuInv, Ahead, Joined, Steps, Setups, ScannerRuns, WorkerRuns,
              NoScanner, NoWorker, mappingVars, discoveryVars
<1>7. MenuInv'
  BY <1>2 DEF SetupHostFails, IInv, MenuInv, RoleInv, Ahead, Joined, Steps, Setups, ScannerRuns, NoScanner, mappingVars, discoveryVars
<1> QED
  BY <1>2, <1>3, <1>4, <1>5, <1>6, <1>7 DEF IInv

LEMMA SetupLanHostKeeps == ASSUME IInv, SetupLanHost PROVE IInv'
<1>1. At("setup_host_lan")
  BY DEF SetupLanHost
<1>2. /\ Ahead("setup_host_lan") /\ Has(todo, "setup_host_lan")
      /\ Good(todo') /\ todo' \in Seq(Steps)
      /\ \A x : Has(todo', x) => Has(todo, x)
      /\ \A x : Has(todo, x) => Has(todo', x) \/ x = "setup_host_lan"
      /\ todo' # <<>> => <<"setup_host_lan", Head(todo')>> \in Pairs
  BY <1>1, StepTaken
<1>3. GameTypeOK'
  BY <1>2 DEF SetupLanHost, IInv, GameTypeOK, MappingTypeOK, SearchTypeOK, mappingVars, discoveryVars
<1>4. HeadInv'
  BY <1>2 DEF SetupLanHost, IInv, HeadInv, RoleInv, MenuInv, Ahead, Pairs, Joined, Steps, Setups, ScannerRuns, WorkerRuns,
              mappingVars, discoveryVars
<1>5. WorkerInv'
  BY <1>2 DEF SetupLanHost, IInv, WorkerInv, Ahead, Waits, WorkerRuns, mappingVars, discoveryVars
<1>6. NoPhantomSearch' /\ RoleInv'
  BY <1>2 DEF SetupLanHost, IInv, NoPhantomSearch, RoleInv, MenuInv, Ahead, Joined, Steps, Setups, ScannerRuns, WorkerRuns,
              NoScanner, NoWorker, mappingVars, discoveryVars
<1>7. MenuInv'
  <2>1. todo' = <<>>
    BY <1>2 DEF Pairs, Setups
  <2>2. \A x : ~Has(todo', x)
    BY <2>1, NothingIsGood
  <2> QED
    BY <1>2, <2>2 DEF SetupLanHost, IInv, MenuInv, RoleInv, Ahead, Joined, Steps, Setups, ScannerRuns, NoScanner, mappingVars, discoveryVars
<1> QED
  BY <1>2, <1>3, <1>4, <1>5, <1>6, <1>7 DEF IInv

LEMMA SpawnWorkerKeeps == ASSUME IInv, SpawnWorker PROVE IInv'
<1>1. At("spawn_worker")
  BY DEF SpawnWorker
<1>2. /\ Ahead("spawn_worker") /\ Has(todo, "spawn_worker")
      /\ Good(todo') /\ todo' \in Seq(Steps)
      /\ \A x : Has(todo', x) => Has(todo, x)
      /\ \A x : Has(todo, x) => Has(todo', x) \/ x = "spawn_worker"
      /\ todo' # <<>> => <<"spawn_worker", Head(todo')>> \in Pairs
  BY <1>1, StepTaken
<1>3. GameTypeOK'
  <2>1. MappingTypeOK'
    <3>1. 0 \in 0 .. RefreshAttempts
      BY RefreshIsTried
    <3>2. worker' = [pc |-> "check", at |-> "settle", method |-> "none", usable |-> FALSE,
                     tries |-> 0, failed |-> FALSE]
      BY DEF SpawnWorker, NoWorker
    <3>3. /\ mapping' = [stop |-> FALSE, state |-> "pending", setup |-> "configuring"]
          /\ router' = router /\ MappingTypeOK
      BY DEF SpawnWorker, IInv, GameTypeOK
    <3> QED
      BY <3>1, <3>2, <3>3 DEF MappingTypeOK, WorkerPc
  <2>2. SearchTypeOK'
    BY SearchIsTried DEF SpawnWorker, IInv, GameTypeOK, SearchTypeOK, NoScanner, discoveryVars
  <2> QED
    BY <1>2, <2>1, <2>2 DEF SpawnWorker, IInv, GameTypeOK
<1>4. HeadInv'
  BY <1>2 DEF SpawnWorker, IInv, HeadInv, RoleInv, MenuInv, Ahead, Pairs, Joined, Steps, Setups, ScannerRuns, WorkerRuns,
              mappingVars, discoveryVars
<1>5. WorkerInv'
  BY <1>2 DEF SpawnWorker, IInv, WorkerInv, Ahead, Waits, WorkerRuns, NoWorker, mappingVars, discoveryVars
<1>6. NoPhantomSearch' /\ RoleInv'
  BY <1>2 DEF SpawnWorker, IInv, NoPhantomSearch, RoleInv, MenuInv, Ahead, Joined, Steps, Setups, ScannerRuns, WorkerRuns,
              NoScanner, NoWorker, mappingVars, discoveryVars
<1>7. MenuInv'
  BY <1>2 DEF SpawnWorker, IInv, MenuInv, RoleInv, Ahead, Joined, Steps, Setups, ScannerRuns, NoScanner, mappingVars, discoveryVars
<1> QED
  BY <1>2, <1>3, <1>4, <1>5, <1>6, <1>7 DEF IInv

LEMMA StopFlagsKeeps == ASSUME IInv, StopFlags PROVE IInv'
<1>0. PICK step \in {"stop_search", "stop_threads"} : At(step)
  BY DEF StopFlags
<1>1. At(step)
  BY <1>0
<1>2. /\ Ahead(step) /\ Has(todo, step)
      /\ Good(todo') /\ todo' \in Seq(Steps)
      /\ \A x : Has(todo', x) => Has(todo, x)
      /\ \A x : Has(todo, x) => Has(todo', x) \/ x = step
      /\ todo' # <<>> => <<step, Head(todo')>> \in Pairs
  BY <1>1, StepTaken
<1>3. GameTypeOK'
  <2>1. MappingTypeOK'
    BY RefreshIsTried DEF StopFlags, IInv, GameTypeOK, MappingTypeOK, NoWorker, WorkerPc, mappingVars
  <2>2. SearchTypeOK'
    BY SearchIsTried DEF StopFlags, IInv, GameTypeOK, SearchTypeOK, NoScanner, discoveryVars
  <2> QED
    BY <1>2, <2>1, <2>2 DEF StopFlags, IInv, GameTypeOK
<1>4. HeadInv'
  BY <1>2 DEF StopFlags, IInv, HeadInv, RoleInv, MenuInv, Ahead, Pairs, Joined, Steps, Setups, ScannerRuns, WorkerRuns,
              mappingVars, discoveryVars
<1>5. WorkerInv'
  BY <1>2 DEF StopFlags, IInv, WorkerInv, Ahead, Waits, WorkerRuns, mappingVars, discoveryVars
<1>6. NoPhantomSearch' /\ RoleInv'
  BY <1>2 DEF StopFlags, IInv, NoPhantomSearch, RoleInv, MenuInv, Ahead, Joined, Steps, Setups, ScannerRuns, WorkerRuns,
              NoScanner, NoWorker, mappingVars, discoveryVars
<1>7. MenuInv'
  BY <1>2 DEF StopFlags, IInv, MenuInv, RoleInv, Ahead, Joined, Steps, Setups, ScannerRuns, NoScanner, mappingVars, discoveryVars
<1> QED
  BY <1>2, <1>3, <1>4, <1>5, <1>6, <1>7 DEF IInv

\* Hosting online: no worker is left from before, so that one is started at
\* once or not at all.
LEMMA SetupOnlineHostKeeps == ASSUME IInv, SetupOnlineHost PROVE IInv'
<1>1. PICK automatic \in BOOLEAN :
        /\ todo' = (IF automatic THEN StartWorker ELSE <<>>) \o Tail(todo)
        /\ mapping' = [mapping EXCEPT !.setup = IF automatic THEN "starting" ELSE "disabled"]
  BY DEF SetupOnlineHost
<1>2. todo # <<>> /\ Head(todo) = "setup_host_online"
  BY DEF SetupOnlineHost
<1>3. /\ Ahead("setup_host_online") /\ Has(todo, "setup_host_online")
      /\ Tail(todo) # <<>> => <<"setup_host_online", Head(Tail(todo))>> \in Pairs
  BY <1>2, TailOfGood DEF IInv, HeadInv
<1>4. Tail(todo) = <<>>
  BY <1>3 DEF Pairs, Setups
<1>5. role = "none" /\ worker.pc = "none" /\ responder = "none" /\ ~ScannerRuns
  BY <1>3 DEF IInv, RoleInv, Ahead, Setups, Joined, Steps
<1>6. StartWorker \o <<>> = <<"spawn_worker">> /\ <<>> \o <<>> = <<>>
  BY <1>5 DEF StartWorker
<1>7. todo' = <<"spawn_worker">> \/ todo' = <<>>
  BY <1>1, <1>4, <1>6
<1>8. /\ Good(todo') /\ todo' \in Seq(Steps)
      /\ \A x : Has(todo', x) => x = "spawn_worker"
      /\ todo' # <<>> => Head(todo') = "spawn_worker"
  <2>1. "spawn_worker" \in Ends
    BY DEF Ends
  <2>2. CASE todo' = <<"spawn_worker">>
    <3>1. Good(<<"spawn_worker">>) /\ Linked(<<"spawn_worker">>)
      BY <2>1, StepIsGood
    <3>2. \A x : Has(<<"spawn_worker">>, x) <=> x = "spawn_worker"
      BY <2>1, StepIsGood
    <3> QED
      BY <2>2, <3>1, <3>2 DEF Linked
  <2>3. CASE todo' = <<>>
    BY <2>3, NothingIsGood DEF Good, Linked
  <2> QED
    BY <1>7, <2>2, <2>3
<1>9. GameTypeOK'
  <2>1. /\ GameTypeOK /\ UNCHANGED <<worker, router, scanner, search, menu>>
        /\ role' = "host" /\ status' = "connected_lobby" /\ active' = TRUE /\ responder' = "born"
    BY DEF SetupOnlineHost, IInv
  <2>2. mapping'.setup \in {"starting", "disabled"} /\ MappingTypeOK'
    <3>1. CASE mapping' = [mapping EXCEPT !.setup = "starting"]
      BY <2>1, <3>1 DEF GameTypeOK, MappingTypeOK
    <3>2. CASE mapping' = [mapping EXCEPT !.setup = "disabled"]
      BY <2>1, <3>2 DEF GameTypeOK, MappingTypeOK
    <3> QED
      BY <1>1, <3>1, <3>2
  <2> QED
    BY <1>8, <2>1, <2>2 DEF GameTypeOK, SearchTypeOK
<1>10. HeadInv'
  BY <1>5, <1>8 DEF SetupOnlineHost, HeadInv, Ahead, Joined, Steps, Setups, ScannerRuns
<1>11. WorkerInv'
  BY <1>1, <1>5 DEF SetupOnlineHost, IInv, WorkerInv, MappingTypeOK, GameTypeOK
<1>12. NoPhantomSearch' /\ RoleInv'
  BY <1>5 DEF SetupOnlineHost, NoPhantomSearch, RoleInv, ScannerRuns
<1>13. MenuInv'
  BY <1>3, <1>5, <1>8 DEF SetupOnlineHost, IInv, MenuInv, Setups, ScannerRuns
<1> QED
  BY <1>8, <1>9, <1>10, <1>11, <1>12, <1>13 DEF IInv

----------------------------------------------------------------------------
(* The menus                                                               *)

\* Between two programs, in the title menu, there is no session and no search.
LEMMA TitleIsQuiet ==
  ASSUME IInv, todo = <<>>
  PROVE  /\ menu = "title" => role = "none" /\ search.found = "none" /\ ~ScannerRuns
         /\ \A x : ~Has(todo, x)
BY NothingIsGood DEF IInv, MenuInv

\* A program that only starts, and changes the screen, keeps the invariant when
\* its steps suit the screen.
LEMMA StartKeeps ==
  ASSUME IInv, todo = <<>>, NEW p, Good(p), todo' = p,
         p # <<>> => p[1] \in {"search_lan", "stop_search", "stop_threads"},
         UNCHANGED mappingVars, UNCHANGED <<scanner, responder, active, role>>,
         SearchTypeOK', NoPhantomSearch',
         menu' \in {"title", "searching", "direct", "lobby"}, MenuInv'
  PROVE  IInv'
<1>1. Good(todo') /\ todo' \in Seq(Steps)
  BY DEF Good, Linked
<1>2. GameTypeOK'
  BY <1>1 DEF IInv, GameTypeOK, MappingTypeOK, mappingVars
<1>3. HeadInv'
  <2>1. p # <<>> => Head(p) = p[1]
    BY <1>1
  <2> QED
    BY <2>1 DEF HeadInv, Ahead, Joined, Steps, Setups
<1>4. WorkerInv' /\ RoleInv'
  BY DEF IInv, WorkerInv, RoleInv, ScannerRuns, mappingVars
<1> QED
  BY <1>1, <1>2, <1>3, <1>4 DEF IInv

LEMMA DiscoveryStays ==
  ASSUME IInv, UNCHANGED discoveryVars PROVE SearchTypeOK' /\ NoPhantomSearch'
BY DEF IInv, GameTypeOK, SearchTypeOK, NoPhantomSearch, ScannerRuns, discoveryVars

LEMMA OpenSearchKeeps == ASSUME IInv, OpenSearch PROVE IInv'
<1> DEFINE p == IF status = "searching" THEN <<>> ELSE StartSearch
<1>1. /\ todo = <<>> /\ todo' = p /\ menu = "title" /\ menu' = "searching"
      /\ UNCHANGED mappingVars /\ UNCHANGED discoveryVars /\ role' = role
  BY DEF OpenSearch, Starts
<1>2. /\ Good(p) /\ (p # <<>> => p[1] = "search_lan")
      /\ \A x : Has(p, x) => x \in {"search_lan", "join_scanner", "spawn_scanner"}
  BY StartSearchIsGood, NothingIsGood
<1>3. role = "none"
  BY <1>1, TitleIsQuiet
<1>4. MenuInv'
  BY <1>1, <1>2, <1>3 DEF MenuInv, Setups
<1> HIDE DEF p
<1> QED
  BY <1>1, <1>2, <1>4, StartKeeps, DiscoveryStays DEF discoveryVars

LEMMA CancelSearchKeeps == ASSUME IInv, CancelSearch PROVE IInv'
<1> DEFINE p == StopSearch \o Disconnect \o <<"idle">>
<1>1. /\ todo = <<>> /\ todo' = p /\ menu' = "title"
      /\ UNCHANGED mappingVars /\ UNCHANGED discoveryVars /\ role' = role
  BY DEF CancelSearch, Starts
<1>2. /\ Good(p) /\ p[1] = "stop_search"
      /\ \A x : Has(p, x) <=> Has(StopSearch, x) \/ Has(Disconnect, x) \/ x = "idle"
  BY CancelIsGood
<1> HIDE DEF p
<1>3. MenuInv'
  BY <1>1, <1>2, StopSearchIsGood, DisconnectIsGood DEF MenuInv, Setups
<1> QED
  BY <1>1, <1>2, <1>3, StartKeeps, DiscoveryStays DEF discoveryVars

LEMMA OpenDirectKeeps == ASSUME IInv, OpenDirect PROVE IInv'
<1>1. /\ todo = <<>> /\ menu = "title" /\ menu' = "direct"
      /\ todo' = StartDirectSearch \/ todo' = Disconnect \o <<"setup_client">>
      /\ UNCHANGED mappingVars /\ UNCHANGED discoveryVars /\ role' = role
  BY DEF OpenDirect, Starts
<1>2. role = "none"
  BY <1>1, TitleIsQuiet
<1>3. CASE todo' = StartDirectSearch
  <2>1. MenuInv'
    BY <1>1, <1>2, <1>3, StartDirectSearchIsGood DEF MenuInv, Setups
  <2> QED
    BY <1>1, <1>3, <2>1, StartDirectSearchIsGood, StartKeeps, DiscoveryStays DEF discoveryVars
<1>4. CASE todo' = Disconnect \o <<"setup_client">>
  <2> DEFINE p == Disconnect \o <<"setup_client">>
  <2>1. /\ Good(p) /\ p[1] = "stop_threads"
        /\ \A x : Has(p, x) <=> Has(Disconnect, x) \/ x = "setup_client"
    BY DisconnectThenIsGood DEF Setups
  <2>2. todo' = p
    BY <1>4
  <2> HIDE DEF p
  <2>3. MenuInv'
    BY <1>1, <1>2, <2>1, <2>2, DisconnectIsGood DEF MenuInv, Setups
  <2> QED
    BY <1>1, <2>1, <2>2, <2>3, StartKeeps, DiscoveryStays DEF discoveryVars
<1> QED
  BY <1>1, <1>3, <1>4

LEMMA CancelDirectKeeps == ASSUME IInv, CancelDirect PROVE IInv'
<1>1. /\ todo = <<>> /\ menu = "direct" /\ menu' = "title"
      /\ UNCHANGED mappingVars /\ UNCHANGED discoveryVars /\ role' = role
  BY DEF CancelDirect, Starts
<1>2. CASE status \in {"connecting", "connected_lobby", "failed"}
  <2> DEFINE p == StopSearch \o Disconnect
  <2>1. todo' = p
    BY <1>2 DEF CancelDirect, Starts
  <2>2. /\ Good(p) /\ p[1] = "stop_search"
        /\ \A x : Has(p, x) <=> Has(StopSearch, x) \/ Has(Disconnect, x)
    BY StopSearchThenIsGood
  <2> HIDE DEF p
  <2>3. MenuInv'
    BY <1>1, <2>1, <2>2, StopSearchIsGood, DisconnectIsGood DEF MenuInv, Setups
  <2> QED
    BY <1>1, <2>1, <2>2, <2>3, StartKeeps, DiscoveryStays DEF discoveryVars
<1>3. CASE status \notin {"connecting", "connected_lobby", "failed"}
  <2>1. todo' = StopSearch
    BY <1>3 DEF CancelDirect, Starts
  <2>2. role = "none"
    BY <1>1, <1>3 DEF IInv, MenuInv
  <2>3. MenuInv'
    BY <1>1, <2>1, <2>2, StopSearchIsGood DEF MenuInv, Setups
  <2> QED
    BY <1>1, <2>1, <2>3, StopSearchIsGood, StartKeeps, DiscoveryStays DEF discoveryVars
<1> QED
  BY <1>2, <1>3

\* A result that is taken up closes what there is before it connects; in the
\* title menu no result is left.
LEMMA ConnectFoundKeeps == ASSUME IInv, ConnectFound PROVE IInv'
<1>1. /\ todo = <<>> /\ menu' = menu /\ status = "found"
      /\ UNCHANGED mappingVars /\ UNCHANGED <<scanner, responder, active, role>>
  BY DEF ConnectFound, Starts
<1>2. menu' \in {"title", "searching", "direct", "lobby"}
  BY <1>1 DEF IInv, GameTypeOK
<1>3. menu = "direct" => role = "none"
  BY <1>1 DEF IInv, MenuInv
<1>4. CASE search.found = "none"
  <2>1. todo' = <<>> /\ status' = "failed" /\ search' = search
    BY <1>4 DEF ConnectFound, Starts
  <2>2. SearchTypeOK' /\ NoPhantomSearch'
    BY <1>1, <2>1 DEF IInv, GameTypeOK, SearchTypeOK, NoPhantomSearch
  <2>3. MenuInv'
    BY <1>1, <2>1, NothingIsGood DEF IInv, MenuInv, ScannerRuns
  <2> QED
    BY <1>1, <1>2, <2>1, <2>2, <2>3, NothingIsGood, StartKeeps
<1>5. CASE search.found # "none"
  <2> DEFINE p == Disconnect \o <<"setup_client">>
  <2>1. todo' = p /\ status' = status /\ search' = [search EXCEPT !.found = "none"]
    BY <1>5 DEF ConnectFound, Starts
  <2>2. /\ Good(p) /\ p[1] = "stop_threads"
        /\ \A x : Has(p, x) <=> Has(Disconnect, x) \/ x = "setup_client"
    BY DisconnectThenIsGood DEF Setups
  <2>3. menu # "title"
    BY <1>1, <1>5, TitleIsQuiet
  <2> HIDE DEF p
  <2>4. SearchTypeOK' /\ NoPhantomSearch'
    BY <1>1, <2>1 DEF IInv, GameTypeOK, SearchTypeOK, NoPhantomSearch
  <2>5. MenuInv'
    BY <1>1, <1>3, <2>1, <2>2, <2>3, DisconnectIsGood DEF MenuInv, Setups
  <2> QED
    BY <1>1, <1>2, <2>1, <2>2, <2>4, <2>5, StartKeeps
<1> QED
  BY <1>4, <1>5

LEMMA ClientAnsweredKeeps == ASSUME IInv, ClientAnswered PROVE IInv'
<1>1. /\ todo = <<>> /\ todo' = todo /\ role = "client" /\ role' = role
      /\ UNCHANGED mappingVars /\ UNCHANGED <<scanner, search, responder, active>>
      /\ status' \in {"failed", "connected_lobby"}
      /\ menu' = menu \/ menu' = "lobby"
  BY DEF ClientAnswered
<1>2. menu' \in {"title", "searching", "direct", "lobby"} /\ menu # "title"
  BY <1>1, TitleIsQuiet DEF IInv, GameTypeOK
<1>3. SearchTypeOK' /\ NoPhantomSearch'
  BY <1>1 DEF IInv, GameTypeOK, SearchTypeOK, NoPhantomSearch
<1>4. MenuInv'
  BY <1>1, <1>2, NothingIsGood DEF MenuInv
<1> QED
  BY <1>1, <1>2, <1>3, <1>4, NothingIsGood, StartKeeps

LEMMA HostGameKeeps == ASSUME IInv, HostGame PROVE IInv'
<1>1. PICK kind \in {"setup_host_lan", "setup_host_online"} :
        todo' = (IF role = "none" THEN <<>> ELSE Disconnect) \o <<kind>>
  BY DEF HostGame, Starts
<1>2. /\ todo = <<>> /\ menu = "title" /\ menu' = "lobby"
      /\ UNCHANGED mappingVars /\ UNCHANGED discoveryVars /\ role' = role
  BY DEF HostGame, Starts
<1>3. role = "none" /\ ~ScannerRuns
  BY <1>2, TitleIsQuiet
<1>4. todo' = <<kind>>
  BY <1>1, <1>3
<1>5. kind \in Ends
  BY DEF Ends, Setups
<1>6. /\ Linked(<<kind>>) /\ Good(<<kind>>) /\ \A x : Has(<<kind>>, x) <=> x = kind
  BY <1>5, StepIsGood
<1>7. /\ Good(todo') /\ todo' \in Seq(Steps) /\ Head(todo') = kind
      /\ \A x : Has(todo', x) <=> x = kind
  BY <1>4, <1>6 DEF Linked
<1>8. GameTypeOK'
  BY <1>2, <1>7, DiscoveryStays DEF IInv, GameTypeOK, MappingTypeOK, mappingVars
<1>9. HeadInv'
  BY <1>2, <1>3, <1>7 DEF HeadInv, Ahead, ScannerRuns, discoveryVars
<1>10. WorkerInv' /\ RoleInv' /\ NoPhantomSearch'
  BY <1>2, DiscoveryStays DEF IInv, WorkerInv, RoleInv, ScannerRuns, mappingVars, discoveryVars
<1>11. MenuInv'
  BY <1>2, <1>7 DEF MenuInv, Setups
<1> QED
  BY <1>7, <1>8, <1>9, <1>10, <1>11 DEF IInv

LEMMA LeaveLobbyKeeps == ASSUME IInv, LeaveLobby PROVE IInv'
<1> DEFINE p == Disconnect \o <<"idle">>
<1>1. /\ todo = <<>> /\ todo' = p /\ menu' = "title"
      /\ UNCHANGED mappingVars /\ UNCHANGED discoveryVars /\ role' = role
  BY DEF LeaveLobby, Starts
<1>2. /\ Good(p) /\ p[1] = "stop_threads"
      /\ \A x : Has(p, x) <=> Has(Disconnect, x) \/ x = "idle"
  BY DisconnectThenIsGood
<1> HIDE DEF p
<1>3. MenuInv'
  BY <1>1, <1>2, DisconnectIsGood DEF MenuInv, Setups
<1> QED
  BY <1>1, <1>2, <1>3, StartKeeps, DiscoveryStays DEF discoveryVars

----------------------------------------------------------------------------
(* The theorems                                                            *)

LEMMA InvariantHoldsFirst == Init => IInv
<1> SUFFICES ASSUME Init PROVE IInv
  OBVIOUS
<1>1. MappingTypeOK
  <2>1. 0 \in 0 .. RefreshAttempts
    BY RefreshIsTried
  <2> QED
    BY <2>1 DEF Init, MappingInit, NoWorker, MappingTypeOK, WorkerPc
<1>2. SearchTypeOK
  <2>1. Attempts \in 0 .. Attempts
    BY SearchIsTried
  <2> QED
    BY <2>1 DEF Init, DiscoveryInit, NoScanner, SearchTypeOK
<1>3. Good(todo) /\ todo \in Seq(Steps) /\ (\A x : ~Has(todo, x))
  BY NothingIsGood DEF Init, Good, Linked
<1>4. GameTypeOK
  BY <1>1, <1>2, <1>3 DEF Init, GameTypeOK
<1>5. WorkerInv /\ RoleInv /\ HeadInv /\ NoPhantomSearch
  BY DEF Init, MappingInit, DiscoveryInit, NoWorker, NoScanner, WorkerInv, Waits, RoleInv, HeadInv,
         NoPhantomSearch, ScannerRuns
<1>6. MenuInv
  BY <1>3 DEF Init, DiscoveryInit, NoScanner, MenuInv, ScannerRuns
<1> QED
  BY <1>3, <1>4, <1>5, <1>6 DEF IInv

LEMMA InvariantIsKept == IInv /\ [Next]_vars => IInv'
<1> SUFFICES ASSUME IInv, [Next]_vars PROVE IInv'
  OBVIOUS
<1>1. CASE Step
  BY <1>1, SearchLanKeeps, SearchDirectKeeps, SpawnScannerKeeps, StopFlagsKeeps, StatusIdleKeeps,
     JoinScannerKeeps, ForgetKeeps, JoinResponderKeeps, TellWorkerKeeps, NotifyWorkerKeeps,
     JoinWorkerKeeps, MappingIdleKeeps, CloseTransportKeeps, SetupClientKeeps, SetupHostFailsKeeps,
     SetupLanHostKeeps, SetupOnlineHostKeeps, SpawnWorkerKeeps DEF Step
<1>2. CASE Menus
  BY <1>2, OpenSearchKeeps, CancelSearchKeeps, OpenDirectKeeps, CancelDirectKeeps,
     ConnectFoundKeeps, ClientAnsweredKeeps, HostGameKeeps, LeaveLobbyKeeps DEF Menus
<1>3. CASE UNCHANGED vars
  <2>1. Good(todo') /\ (\A x : Has(todo', x) <=> Has(todo, x))
    BY <1>3 DEF IInv, vars
  <2> QED
    BY <1>3, <2>1 DEF vars, IInv, GameTypeOK, MappingTypeOK, SearchTypeOK, HeadInv, Ahead, WorkerInv,
         NoPhantomSearch, RoleInv, MenuInv, ScannerRuns
<1> QED
  BY <1>1, <1>2, <1>3, WorkerKeeps, ScannerKeeps, ResponderKeeps DEF Next

\* The inductive invariant: what each step of a program finds, where the worker
\* is with the router, and what may be left of a session on each screen.
THEOREM GameInvariant == Spec => []IInv
BY InvariantHoldsFirst, InvariantIsKept, PTL DEF Spec

\* The programs consist of known steps, and every shared variable has its type.
THEOREM GameTypeCorrect == Spec => []GameTypeOK
<1>1. IInv => GameTypeOK
  BY DEF IInv
<1> QED
  BY <1>1, GameInvariant, PTL

\* The worker ends only after it has tried to remove what it mapped.
THEOREM MappingIsRemoved == Spec => []NoMappingLeft
<1>1. IInv => NoMappingLeft
  BY DEF IInv, WorkerInv, NoMappingLeft, WorkerRuns
<1> QED
  BY <1>1, GameInvariant, PTL

\* The state READY is published for a port that is open.
THEOREM ReadyIsTrue == Spec => []ReadyIsMapped
<1>1. IInv => ReadyIsMapped
  BY DEF IInv, WorkerInv, ReadyIsMapped
<1> QED
  BY <1>1, GameInvariant, PTL

\* A status SEARCHING has a scanner that will change it.
THEOREM SearchIsReal == Spec => []NoPhantomSearch
<1>1. IInv => NoPhantomSearch
  BY DEF IInv
<1> QED
  BY <1>1, GameInvariant, PTL

\* Between two programs no thread of a session that was left runs on.
THEOREM ThreadsAreJoined == Spec => []NothingRunsOn
<1>1. IInv => NothingRunsOn
  BY DEF IInv, RoleInv, NothingRunsOn
<1> QED
  BY <1>1, GameInvariant, PTL

\* No scanner runs beside a transport, and the responder only answers while the
\* host's transport exists: disconnect joins both before it closes.
THEOREM ThreadsSuit == Spec => []ThreadsSuitTheRole
<1>1. IInv => ThreadsSuitTheRole
  BY DEF IInv, RoleInv, ThreadsSuitTheRole, ScannerRuns
<1> QED
  BY <1>1, GameInvariant, PTL

\* In the title menu the result of a cancelled search is gone.
THEOREM CancelForgets == Spec => []CancelledIsForgotten
<1>1. IInv => CancelledIsForgotten
  BY NothingIsGood DEF IInv, MenuInv, CancelledIsForgotten
<1> QED
  BY <1>1, GameInvariant, PTL
=============================================================================
