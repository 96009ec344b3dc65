----------------------------- MODULE Connection -----------------------------
(***************************************************************************)
(* The connection tab of the GUI: clicks start threads that connect and    *)
(* disconnect over one shared object, CONN, without a lock, and the main   *)
(* thread runs the callbacks they schedule (connection_view.py,            *)
(* connection_controller.py, connection_state.py).                         *)
(*                                                                         *)
(* One action per statement that touches CONN or schedules a callback.  A  *)
(* transport has the number of the thread that opened it; nothing but      *)
(* ConnectionState.close closes one (what is merely dropped is closed by   *)
(* the interpreter).  Latency and device name are stored and shown beside  *)
(* the target and left out; so are the two scans, which leave CONN alone.  *)
(***************************************************************************)
EXTENDS Integers, Sequences, FiniteSets

CONSTANTS
  MaxClicks,   \* bound: clicks that start a thread
  MaxRunning,  \* bound: threads that run at a time
  MaxPending,  \* bound: callbacks that wait at a time
  Choices      \* bound: the modes that the user may choose at each click

VARIABLES
  conn,        \* CONN: _socket, _serial, connected, mode, target
  closed,      \* transports of CONN that were closed
  pc, task,    \* of each thread and of the main thread
  queue,       \* callbacks scheduled by _ui, not yet run
  buttons,     \* which buttons are enabled
  panel,       \* what the status panel shows
  overlapped   \* history: did an operation begin while another was running?

connVars == <<conn, closed, pc, task, queue, buttons, panel, overlapped>>

Threads == 1 .. MaxClicks
Main == 0                  \* the main thread
None == 0                  \* no transport, no target
Modes == {"wifi", "serial"}

ASSUME ClicksAssumption ==
  /\ MaxClicks \in Nat
  /\ Choices \in [Threads -> SUBSET Modes]

Closing == {"closeSocket", "closeSerial", "clearSocket", "clearSerial", "clearFlag"}
Storing == {"storeHandle", "storeFlag", "storeMode", "storeTarget"}
Working == Closing \cup Storing \cup {"announce", "open", "outcome", "postConnected",
                                    "postDisconnected", "postRefresh"}

Callbacks == {"connecting", "connected", "disconnected", "refresh"}

Panel(status, mode, target) == [status |-> status, mode |-> mode, target |-> target]

ConnInit ==
  /\ conn = [_socket |-> None, _serial |-> None, connected |-> FALSE,
             mode |-> "", target |-> None]
  /\ closed = {}
  /\ pc = [a \in {Main} \cup Threads |-> "idle"]
  /\ task = [a \in {Main} \cup Threads |-> "none"]
  /\ queue = <<>>
  /\ buttons = [connect |-> TRUE, disconnect |-> FALSE]
  /\ panel = Panel(FALSE, "", None)
  /\ overlapped = FALSE

\* The transports that CONN holds.
Handles == {conn._socket, conn._serial} \ {None}

Running == {t \in Threads : pc[t] \in Working}

\* Clicks start threads one after another.
Fresh(t) == task[t] = "none" /\ \A s \in 1 .. t - 1 : task[s] # "none"

\* A thread that may be started, within the bounds.
MayStart(t) == Fresh(t) /\ Cardinality(Running) < MaxRunning

GoesTo(a, next) == pc' = [pc EXCEPT ![a] = next]

----------------------------------------------------------------------------
(* The user, and the main thread *)

\* A click on Connect, or on the close button of the window, first runs
\* CONN.close on the main thread.
ClickAndClose(what) ==
  /\ pc[Main] = "idle"
  /\ what = "quit" \/ (buttons.connect /\ \E t \in Threads : MayStart(t) /\ what \in Choices[t])
  /\ task' = [task EXCEPT ![Main] = what]
  /\ GoesTo(Main, "closeSocket")
  /\ overlapped' = (overlapped \/ Running # {})
  /\ UNCHANGED <<conn, closed, queue, buttons, panel>>

\* _connect then starts its thread.
StartConnect ==
  /\ pc[Main] = "start"
  /\ \E t \in Threads :
       /\ Fresh(t)
       /\ task' = [task EXCEPT ![t] = task[Main]]
       /\ pc' = [pc EXCEPT ![Main] = "idle", ![t] = "announce"]
  /\ UNCHANGED <<conn, closed, queue, buttons, panel, overlapped>>

\* A click on Disconnect closes in a thread of its own.
ClickDisconnect ==
  /\ pc[Main] = "idle" /\ buttons.disconnect
  /\ \E t \in Threads :
       /\ MayStart(t)
       /\ task' = [task EXCEPT ![t] = "disconnect"]
       /\ GoesTo(t, "closeSocket")
  /\ overlapped' = (overlapped \/ Running # {})
  /\ UNCHANGED <<conn, closed, queue, buttons, panel>>

\* The main thread runs the callbacks in the order they were scheduled in.
TakesCallback(callback) ==
  /\ pc[Main] = "idle"
  /\ queue # <<>> /\ Head(queue) = callback
  /\ queue' = Tail(queue)

\* Slip: Connect stays enabled while connected.
ButtonsAfter_BothOn(callback) ==
  IF callback = "connecting" THEN [buttons EXCEPT !.connect = FALSE]
  ELSE [connect |-> TRUE, disconnect |-> callback = "connected"]

ButtonsAfter(callback) ==
  IF callback = "connecting" THEN [buttons EXCEPT !.connect = FALSE]
  ELSE [connect |-> callback = "disconnected", disconnect |-> callback = "connected"]

UpdateButtons ==
  /\ \E callback \in Callbacks \ {"refresh"} :
       TakesCallback(callback) /\ buttons' = ButtonsAfter(callback)
  /\ UNCHANGED <<conn, closed, pc, task, panel, overlapped>>

\* _refresh_status_panel reads one attribute of CONN after another.
RefreshStatus ==
  /\ TakesCallback("refresh")
  /\ IF conn.connected
     THEN panel' = [panel EXCEPT !.status = TRUE] /\ GoesTo(Main, "showMode")
     ELSE panel' = Panel(FALSE, "", None) /\ UNCHANGED pc
  /\ UNCHANGED <<conn, closed, task, buttons, overlapped>>

RefreshDetails ==
  /\ \/ /\ pc[Main] = "showMode" /\ GoesTo(Main, "showTarget")
        /\ panel' = [panel EXCEPT !.mode = conn.mode]
     \/ /\ pc[Main] = "showTarget" /\ GoesTo(Main, "idle")
        /\ panel' = [panel EXCEPT !.target = conn.target]
  /\ UNCHANGED <<conn, closed, task, queue, buttons, overlapped>>

----------------------------------------------------------------------------
(* The threads *)

\* Slip: a disconnect thread goes on as the main thread does.
AfterClose_AsMain(a) == IF task[Main] = "quit" THEN "gone" ELSE "start"

\* Where ConnectionState.close returns to.
AfterClose(a) ==
  IF a # Main THEN "postDisconnected"
  ELSE IF task[Main] = "quit" THEN "gone" ELSE "start"

\* Slip: the references are kept.
Clears_FlagOnly(a) ==
  /\ \/ pc[a] = "clearSocket" /\ GoesTo(a, "clearSerial") /\ UNCHANGED conn
     \/ pc[a] = "clearSerial" /\ GoesTo(a, "clearFlag") /\ UNCHANGED conn
     \/ pc[a] = "clearFlag" /\ GoesTo(a, AfterClose(a))
        /\ conn' = [conn EXCEPT !.connected = FALSE]
  /\ UNCHANGED closed

\* Slip: the flag is kept.
Clears_KeepsFlag(a) ==
  /\ \/ pc[a] = "clearSocket" /\ GoesTo(a, "clearSerial")
        /\ conn' = [conn EXCEPT !._socket = None]
     \/ pc[a] = "clearSerial" /\ GoesTo(a, AfterClose(a))
        /\ conn' = [conn EXCEPT !._serial = None]
  /\ closed' = closed \cap Handles'

Clears(a) ==
  /\ \/ pc[a] = "clearSocket" /\ GoesTo(a, "clearSerial")
        /\ conn' = [conn EXCEPT !._socket = None]
     \/ pc[a] = "clearSerial" /\ GoesTo(a, "clearFlag")
        /\ conn' = [conn EXCEPT !._serial = None]
     \/ pc[a] = "clearFlag" /\ GoesTo(a, AfterClose(a))
        /\ conn' = [conn EXCEPT !.connected = FALSE]
  /\ closed' = closed \cap Handles'

\* ConnectionState.close, of the main thread or of a disconnect thread.  An
\* attribute that another thread cleared in between raises an exception, which
\* is swallowed.
Close(a) ==
  /\ \/ /\ pc[a] = "closeSocket" /\ GoesTo(a, "closeSerial")
        /\ closed' = closed \cup ({conn._socket} \ {None})
        /\ UNCHANGED conn
     \/ /\ pc[a] = "closeSerial" /\ GoesTo(a, "clearSocket")
        /\ closed' = closed \cup ({conn._serial} \ {None})
        /\ UNCHANGED conn
     \/ Clears(a)
  /\ UNCHANGED <<task, queue, buttons, panel, overlapped>>

\* connect_wifi and connect_serial open a transport and shake hands.  A failure
\* of either returns, with what was opened dropped.
Open(t) ==
  /\ pc[t] = "open"
  /\ GoesTo(t, "storeHandle") \/ GoesTo(t, "outcome")
  /\ UNCHANGED <<conn, closed, task, queue, buttons, panel, overlapped>>

StoreHandle(t) ==
  conn' = IF task[t] = "wifi" THEN [conn EXCEPT !._socket = t]
                              ELSE [conn EXCEPT !._serial = t]

\* The attributes are stored one by one.
Store(t) ==
  /\ \/ pc[t] = "storeHandle" /\ GoesTo(t, "storeFlag") /\ StoreHandle(t)
     \/ pc[t] = "storeFlag" /\ GoesTo(t, "storeMode")
        /\ conn' = [conn EXCEPT !.connected = TRUE]
     \/ pc[t] = "storeMode" /\ GoesTo(t, "storeTarget")
        /\ conn' = [conn EXCEPT !.mode = task[t]]
     \/ pc[t] = "storeTarget" /\ GoesTo(t, "outcome")
        /\ conn' = [conn EXCEPT !.target = t]
  /\ closed' = closed \cap Handles'
  /\ UNCHANGED <<task, queue, buttons, panel, overlapped>>

\* Slip: nothing is reported of a failure.
Outcome_SuccessOnly(t) ==
  /\ pc[t] = "outcome"
  /\ GoesTo(t, IF conn.connected THEN "postConnected" ELSE "postRefresh")
  /\ UNCHANGED <<conn, closed, task, queue, buttons, panel, overlapped>>

\* The finally clause of _connect looks at CONN, whoever wrote it.
Outcome(t) ==
  /\ pc[t] = "outcome"
  /\ GoesTo(t, IF conn.connected THEN "postConnected" ELSE "postDisconnected")
  /\ UNCHANGED <<conn, closed, task, queue, buttons, panel, overlapped>>

\* Slip: the panel is refreshed after a disconnect only.
Posts_OneRefresh ==
  [announce         |-> [callback |-> "connecting",   next |-> "open"],
   postConnected    |-> [callback |-> "connected",    next |-> "done"],
   postDisconnected |-> [callback |-> "disconnected", next |-> "postRefresh"],
   postRefresh      |-> [callback |-> "refresh",      next |-> "done"]]

\* The callbacks a thread schedules, and where it goes on.
Posts ==
  [announce         |-> [callback |-> "connecting",   next |-> "open"],
   postConnected    |-> [callback |-> "connected",    next |-> "postRefresh"],
   postDisconnected |-> [callback |-> "disconnected", next |-> "postRefresh"],
   postRefresh      |-> [callback |-> "refresh",      next |-> "done"]]

Post(t) ==
  /\ pc[t] \in DOMAIN Posts
  /\ Len(queue) < MaxPending
  /\ queue' = Append(queue, Posts[pc[t]].callback)
  /\ GoesTo(t, Posts[pc[t]].next)
  /\ UNCHANGED <<conn, closed, task, buttons, panel, overlapped>>

ThreadStep(t) == Close(t) \/ Open(t) \/ Store(t) \/ Outcome(t) \/ Post(t)

\* What the main thread does without the user.
MainStep == StartConnect \/ UpdateButtons \/ RefreshStatus \/ RefreshDetails \/ Close(Main)

\* The threads are daemons: they end with the window.
ConnNext ==
  /\ pc[Main] # "gone"
  /\ \/ \E what \in Modes \cup {"quit"} : ClickAndClose(what)
     \/ ClickDisconnect
     \/ MainStep
     \/ \E t \in Threads : ThreadStep(t)

ConnSpec == ConnInit /\ [][ConnNext]_connVars

\* Threads get their turn, and every call they wait in has a time-out; the main
\* loop runs.
ConnFairSpec ==
  /\ ConnSpec
  /\ WF_connVars(pc[Main] # "gone" /\ MainStep)
  /\ \A t \in Threads : WF_connVars(pc[Main] # "gone" /\ ThreadStep(t))

----------------------------------------------------------------------------
(* Properties *)

\* No operation on CONN is under way.
AtRest == Running = {} /\ pc[Main] \in {"idle", "showMode", "showTarget"}

\* Nothing is under way at all.
Quiet == Running = {} /\ pc[Main] = "idle" /\ queue = <<>>

ConnTypeOK ==
  /\ conn \in [_socket : {None} \cup Threads, _serial : {None} \cup Threads,
               connected : BOOLEAN, mode : Modes \cup {""},
               target : {None} \cup Threads]
  /\ closed \subseteq Threads
  /\ pc[Main] \in Closing \cup {"idle", "start", "showMode", "showTarget", "gone"}
  /\ task[Main] \in Modes \cup {"quit", "none"}
  /\ \A t \in Threads :
       /\ pc[t] \in Working \cup {"idle", "done"}
       /\ task[t] \in Modes \cup {"disconnect", "none"}
       /\ (pc[t] = "idle") = (task[t] = "none")
  /\ queue \in Seq(Callbacks)
  /\ buttons \in [connect : BOOLEAN, disconnect : BOOLEAN]
  /\ panel \in [status : BOOLEAN, mode : Modes \cup {""}, target : {None} \cup Threads]
  /\ overlapped \in BOOLEAN

\* However connects and disconnects overlap, CONN keeps no transport that it
\* has closed: whoever closed it clears the attribute afterwards
\* (ConnectionState.close).
HandlesAreOpen == AtRest => Handles \cap closed = {}

\* As long as no operation began while another was running, CONN is connected
\* exactly when it holds a transport, and then it holds one, open, of the mode
\* and the target it names (connect_wifi, connect_serial, disconnect).
OrderlyConnection ==
  AtRest /\ ~overlapped =>
    /\ conn.connected <=> Handles # {}
    /\ conn.connected => /\ Handles = {conn.target} /\ conn.target \notin closed
                         /\ conn.mode = task[conn.target]

\* Once everything has come to rest the panel shows what CONN says, although it
\* is read attribute by attribute while threads write
\* (_refresh_status_panel).
PanelSettles ==
  Quiet => panel = IF conn.connected THEN Panel(TRUE, conn.mode, conn.target)
                                     ELSE Panel(FALSE, "", None)

\* Once everything has come to rest exactly one of the two buttons is enabled,
\* so that the user can always go on, whatever the callbacks of overlapping
\* threads left; and if none overlapped, it is the right one (_connect,
\* _disconnect).
ButtonsSettle ==
  Quiet => /\ buttons.connect # buttons.disconnect
           /\ ~overlapped => (buttons.disconnect <=> conn.connected)

\* A window with both buttons disabled gets one back, if it is not closed.
WindowRecovers ==
  (~buttons.connect /\ ~buttons.disconnect)
    ~> (buttons.connect \/ buttons.disconnect \/ pc[Main] = "gone")
=============================================================================
