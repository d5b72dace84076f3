----------------------------- MODULE Dashboard -----------------------------
(***************************************************************************)
(* The live dashboard: the state that the demo engine publishes            *)
(* (core/demo/state.py), the connection manager that sends it to every     *)
(* socket (api/services/ws_manager.py), the socket's handler               *)
(* (api/main.py) and the page that shows it (dashboard/hooks).             *)
(*                                                                         *)
(* A message is either the whole state, which the page puts in the place   *)
(* of what it had, or one signal, which it adds.  Sends go out one socket  *)
(* at a time while the manager's lock is held; connecting needs the lock   *)
(* too, and the lock is handed on in the order of the requests.            *)
(***************************************************************************)
EXTENDS Integers, Sequences, FiniteSetsExt

CONSTANTS
    Sockets,        \* sockets the pages open, each once
    MaxUpdates      \* bound: updates of the state, signals and kills

ASSUME DashboardAssumption == MaxUpdates \in Nat

VARIABLES
    dbState,        \* what the engine's dashboard state holds
    dbPlace,        \* the sockets: "new", "waiting", "on", "broken" or "closed"
    dbConns,        \* _connections
    dbQueue,        \* who waits for the lock, first come first
    dbCast,         \* the broadcast that holds the lock
    dbShown,        \* what each page shows
    dbKilled,       \* the kill switch spoke since the last whole state (history)
    dbSkipped       \* an update was sent to nobody while older ones were waiting,
                    \* and no whole state was sent since (history)

dbVars == <<dbState, dbPlace, dbConns, dbQueue, dbCast, dbShown, dbKilled, dbSkipped>>

Foreign == [version |-> -1, signals |-> {}]   \* the state of the other service
Blank == [version |-> -2, signals |-> {}]     \* a page without data
NoCast == [todo |-> {}, dead |-> {}, free |-> TRUE]
CastOf(message, conns) == [message |-> message, todo |-> conns, dead |-> {}, free |-> FALSE]

Whole(view) == [kind |-> "state", view |-> view]
OneSignal(id) == [kind |-> "signal", id |-> id]

DashboardInit ==
    /\ dbState = [version |-> 0, signals |-> {}]
    /\ dbPlace = [s \in Sockets |-> "new"] /\ dbShown = [s \in Sockets |-> Blank]
    /\ dbConns = {} /\ dbQueue = <<>> /\ dbCast = NoCast
    /\ dbKilled = FALSE /\ dbSkipped = FALSE

LockIsFree == dbCast.free /\ dbQueue = <<>>
Updates == dbState.version + Cardinality(dbState.signals)

-----------------------------------------------------------------------------

\* The socket joins the list and is sent the snapshot in one go.
Joined(socket) ==
    IF dbPlace[socket] = "broken"
    THEN UNCHANGED <<dbConns, dbPlace, dbShown>>
    ELSE /\ dbConns' = dbConns \cup {socket}
         /\ dbPlace' = [dbPlace EXCEPT ![socket] = "on"]
         /\ dbShown' = [dbShown EXCEPT ![socket] = dbState]

Connect ==
    \E socket \in Sockets :
        /\ dbPlace[socket] = "new"
        /\ IF LockIsFree
           THEN Joined(socket) /\ UNCHANGED dbQueue
           ELSE /\ dbQueue' = Append(dbQueue, [socket |-> socket])
                /\ dbPlace' = [dbPlace EXCEPT ![socket] = "waiting"]
                /\ UNCHANGED <<dbConns, dbShown>>
        /\ UNCHANGED <<dbState, dbCast, dbKilled, dbSkipped>>

\* broadcast_json: nothing is sent if nobody is connected.
Broadcast(message) ==
    /\ IF dbConns = {} THEN UNCHANGED <<dbCast, dbQueue>>
       ELSE IF LockIsFree THEN dbCast' = CastOf(message, dbConns) /\ UNCHANGED dbQueue
       ELSE dbQueue' = Append(dbQueue, [message |-> message]) /\ UNCHANGED dbCast
    /\ dbSkipped' = IF dbConns = {} THEN dbSkipped \/ dbQueue # <<>>
                    ELSE dbSkipped /\ message.kind # "state"
    /\ UNCHANGED <<dbPlace, dbConns, dbShown>>

UpdateState ==
    /\ Updates < MaxUpdates
    /\ dbState' = [dbState EXCEPT !.version = @ + 1]
    /\ dbKilled' = FALSE
    /\ Broadcast(Whole(dbState'))

AddSignal ==
    /\ Updates < MaxUpdates
    /\ LET id == Cardinality(dbState.signals)
       IN  dbState' = [dbState EXCEPT !.signals = @ \cup {id}] /\ Broadcast(OneSignal(id))
    /\ UNCHANGED dbKilled

\* The kill switch: StateService pushes a whole state of its own, which knows
\* nothing of the engine's.
KillSwitch ==
    /\ ~dbKilled
    /\ dbKilled' = TRUE
    /\ Broadcast(Whole(Foreign))
    /\ UNCHANGED dbState

\* The page's reducer.
Applied(shown, message) ==
    IF message.kind = "state" THEN message.view
    ELSE [shown EXCEPT !.signals = @ \cup {message.id}]

\* Mutation: the first socket that raises ends the broadcast.
AfterFailureStop(cast, socket) == [cast EXCEPT !.todo = {}, !.dead = @ \cup {socket}]

AfterFailure(cast, socket) == [cast EXCEPT !.todo = @ \ {socket}, !.dead = @ \cup {socket}]

\* The next send of the broadcast returns, or raises at a broken socket.
SendNext ==
    /\ \E socket \in dbCast.todo :
          IF dbPlace[socket] = "on"
          THEN /\ dbCast' = [dbCast EXCEPT !.todo = @ \ {socket}]
               /\ dbShown' = [dbShown EXCEPT ![socket] = Applied(@, dbCast.message)]
          ELSE /\ dbCast' = AfterFailure(dbCast, socket)
               /\ UNCHANGED dbShown
    /\ UNCHANGED <<dbState, dbPlace, dbConns, dbQueue, dbKilled, dbSkipped>>

CastEnds ==
    /\ ~dbCast.free /\ dbCast.todo = {}
    /\ dbConns' = dbConns \ dbCast.dead
    /\ dbCast' = NoCast
    /\ UNCHANGED <<dbState, dbPlace, dbQueue, dbShown, dbKilled, dbSkipped>>

\* The lock is handed to the one that waits longest.
LockHandedOn ==
    /\ dbCast.free /\ dbQueue # <<>>
    /\ dbQueue' = Tail(dbQueue)
    /\ LET next == Head(dbQueue)
       IN  IF "socket" \in DOMAIN next
           THEN Joined(next.socket) /\ UNCHANGED dbCast
           ELSE dbCast' = CastOf(next.message, dbConns) /\ UNCHANGED <<dbConns, dbPlace, dbShown>>
    /\ UNCHANGED <<dbState, dbKilled, dbSkipped>>

Break ==
    /\ \E socket \in Sockets :
          dbPlace[socket] \in {"waiting", "on"} /\ dbPlace' = [dbPlace EXCEPT ![socket] = "broken"]
    /\ UNCHANGED <<dbState, dbConns, dbQueue, dbCast, dbShown, dbKilled, dbSkipped>>

\* disconnect, which takes no lock: in the middle of a broadcast too.
Disconnect ==
    /\ \E socket \in Sockets :
          /\ dbPlace[socket] = "broken"
          /\ \A i \in DOMAIN dbQueue : "socket" \in DOMAIN dbQueue[i] => dbQueue[i].socket # socket
          /\ dbConns' = dbConns \ {socket}
          /\ dbPlace' = [dbPlace EXCEPT ![socket] = "closed"]
    /\ UNCHANGED <<dbState, dbQueue, dbCast, dbShown, dbKilled, dbSkipped>>

DashboardNext ==
    \/ Connect \/ UpdateState \/ AddSignal \/ KillSwitch
    \/ SendNext \/ CastEnds \/ LockHandedOn \/ Break \/ Disconnect

DashboardSpec == DashboardInit /\ [][DashboardNext]_dbVars

-----------------------------------------------------------------------------

\* No page misses an update, however its connection, the broadcasts and other
\* pages' ends interleave: once nothing is being sent, every page that is
\* connected shows the engine's whole state, or the state that the kill switch
\* put there, and that only until the engine publishes its own again.  The one
\* exception is an update that found the list of sockets empty while older
\* broadcasts and a new socket were waiting for the lock: it is dropped, and the
\* older ones then overwrite the new socket's snapshot.
PagesCatchUp ==
    LockIsFree /\ ~dbSkipped =>
        \A socket \in Sockets :
            dbPlace[socket] = "on" =>
                /\ socket \in dbConns
                /\ \/ dbShown[socket] = dbState
                   \/ dbKilled /\ dbShown[socket].version = Foreign.version

\* What a step preserves.  Who waits, waits once, and only who is on or was is
\* sent anything; of what waits, the last whole state and the signals behind it
\* make up what is to be shown, and so does what a page shows with the signals
\* it will get, if no whole state will come.
Views == [version : Int, signals : SUBSET Nat]
Messages == [kind : {"state"}, view : Views] \cup [kind : {"signal"}, id : Nat]
Casts == [message : Messages, todo : SUBSET Sockets, dead : SUBSET Sockets, free : {FALSE}]
Requests == [socket : Sockets] \cup [message : Messages]

IsSocket(request) == "socket" \in DOMAIN request
IsWhole(request) == ~IsSocket(request) /\ request.message.kind = "state"
IsSignal(request) == ~IsSocket(request) /\ request.message.kind = "signal"

NoWholeAfter(queue, n) == \A i \in DOMAIN queue : i > n => ~IsWhole(queue[i])
SignalsAfter(queue, n) == {queue[i].message.id : i \in {k \in DOMAIN queue : k > n /\ IsSignal(queue[k])}}

With(view, ids) == [view EXCEPT !.signals = @ \cup ids]
ToBeShown(view) == view = dbState \/ (dbKilled /\ view.version = Foreign.version)

DashboardTyped ==
    /\ dbState \in [version : Nat, signals : SUBSET Nat] /\ IsFiniteSet(dbState.signals)
    /\ dbPlace \in [Sockets -> {"new", "waiting", "on", "broken", "closed"}]
    /\ dbShown \in [Sockets -> Views]
    /\ dbQueue \in Seq(Requests)
    /\ dbCast \in {NoCast} \cup Casts
    /\ dbConns \subseteq Sockets
    /\ {dbKilled, dbSkipped} \subseteq BOOLEAN

SocketsApart ==
    /\ \A i \in DOMAIN dbQueue : IsSocket(dbQueue[i]) =>
          /\ dbPlace[dbQueue[i].socket] \in {"waiting", "broken"}
          /\ \A j \in DOMAIN dbQueue :
                IsSocket(dbQueue[j]) /\ dbQueue[j].socket = dbQueue[i].socket => i = j
    /\ \A s \in dbConns \cup dbCast.todo : dbPlace[s] \in {"on", "broken", "closed"}
    /\ \A s \in dbCast.dead : dbPlace[s] \in {"broken", "closed"}
    /\ \A s \in Sockets : dbPlace[s] = "on" => s \in dbConns

SignalsKnown ==
    /\ SignalsAfter(dbQueue, 0) \subseteq dbState.signals
    /\ ~dbCast.free /\ dbCast.message.kind = "signal" => dbCast.message.id \in dbState.signals

LastWholeCounts ==
    \A i \in DOMAIN dbQueue :
        IsWhole(dbQueue[i]) /\ NoWholeAfter(dbQueue, i) =>
            ToBeShown(With(dbQueue[i].message.view, SignalsAfter(dbQueue, i)))

PageWillShow(socket) ==
    ToBeShown(With(IF socket \in dbCast.todo THEN Applied(dbShown[socket], dbCast.message)
                   ELSE dbShown[socket], SignalsAfter(dbQueue, 0)))

PagesWillShow ==
    NoWholeAfter(dbQueue, 0) => \A s \in Sockets : dbPlace[s] = "on" => PageWillShow(s)

DashboardInv ==
    /\ DashboardTyped /\ SocketsApart /\ SignalsKnown
    /\ ~dbSkipped => LastWholeCounts /\ PagesWillShow
=============================================================================
