-------------------------- MODULE ConnectionProofs --------------------------
(***************************************************************************)
(* Theorems about the connection tab, for any number of clicks, of threads *)
(* at a time and of waiting callbacks.                                     *)
(***************************************************************************)
EXTENDS Connection, SequenceTheorems, TLAPS

Actors == {Main} \cup Threads

Steps == Working \cup {"idle", "done", "start", "showMode", "showTarget", "gone"}

Tasks == Modes \cup {"disconnect", "quit", "none"}

\* What an actor is at follows from what it was started for.
TasksFit ==
  /\ pc[Main] \in Closing => task[Main] \in Modes \cup {"quit"}
  /\ pc[Main] = "start" => task[Main] \in Modes
  /\ \A t \in Threads :
       pc[t] \in Storing \cup {"announce", "open"} => task[t] \in Modes

Conns == [_socket : {None} \cup Threads, _serial : {None} \cup Threads,
          connected : BOOLEAN, mode : Modes \cup {""}, target : {None} \cup Threads]

Panels == [status : BOOLEAN, mode : Modes \cup {""}, target : {None} \cup Threads]

Buttons == [connect : BOOLEAN, disconnect : BOOLEAN]

\* The two parts of the type invariant: what is shared, and where everyone is.
SharedOK ==
  /\ conn \in Conns /\ closed \subseteq Threads /\ queue \in Seq(Callbacks)
  /\ buttons \in Buttons /\ panel \in Panels /\ overlapped \in BOOLEAN

PlacesOK ==
  /\ pc[Main] \in Closing \cup {"idle", "start", "showMode", "showTarget", "gone"}
  /\ task[Main] \in Modes \cup {"quit", "none"}
  /\ \A t \in Threads :
       /\ pc[t] \in Working \cup {"idle", "done"}
       /\ task[t] \in Modes \cup {"disconnect", "none"}
       /\ (pc[t] = "idle") = (task[t] = "none")

TypeInv ==
  /\ SharedOK /\ PlacesOK
  /\ pc \in [Actors -> Steps] /\ task \in [Actors -> Tasks]
  /\ TasksFit

\* A transport is held in the attribute of its kind, and not before its thread
\* stores it.
HandlesFit ==
  /\ conn._socket # None => task[conn._socket] = "wifi"
  /\ conn._serial # None => task[conn._serial] = "serial"
  /\ \A t \in Threads : pc[t] \in {"announce", "open", "storeHandle"} => t \notin Handles

\* Whoever closed a transport that CONN still holds is about to clear it.
ClosedCleared ==
  /\ closed \subseteq Handles
  /\ conn._socket \in closed => \E a \in Actors : pc[a] \in {"closeSerial", "clearSocket"}
  /\ conn._serial \in closed => \E a \in Actors : pc[a] \in {"clearSocket", "clearSerial"}

HandlesInv == HandlesFit /\ ClosedCleared

\* Something is under way that ends in a refresh, or in the end of the window.
RefreshDue ==
  \/ Running # {}
  \/ pc[Main] \in Closing \cup {"start", "gone"}
  \/ \E i \in 1 .. Len(queue) : queue[i] = "refresh"

PanelInv ==
  \/ RefreshDue
  \/ /\ pc[Main] = "idle"
     /\ panel = IF conn.connected THEN Panel(TRUE, conn.mode, conn.target)
                                  ELSE Panel(FALSE, "", None)
  \/ pc[Main] = "showMode" /\ conn.connected /\ panel.status
  \/ pc[Main] = "showTarget" /\ conn.connected /\ panel.status /\ panel.mode = conn.mode

\* Callbacks that give one button back, and threads that will schedule one.
Ends == {"connected", "disconnected"}
EndDue == \E t \in Running : pc[t] # "postRefresh"
EndAfter(i) == EndDue \/ \E j \in 1 .. Len(queue) : i < j /\ queue[j] \in Ends

ButtonsInv ==
  /\ ~(buttons.connect /\ buttons.disconnect)
  /\ ~buttons.connect /\ ~buttons.disconnect => EndAfter(0)
  /\ \A i \in 1 .. Len(queue) : queue[i] = "connecting" => EndAfter(i)

\* CONN holds no transport and is not connected.
Empty == conn._socket = None /\ conn._serial = None /\ ~conn.connected

\* CONN holds the transport of thread t, and nothing else.
HoldsOnly(t) ==
  /\ t \in Threads /\ task[t] \in Modes
  /\ conn._socket = IF task[t] = "wifi" THEN t ELSE None
  /\ conn._serial = IF task[t] = "wifi" THEN None ELSE t

Settled ==
  \/ Empty
  \/ /\ conn.connected /\ HoldsOnly(conn.target)
     /\ conn.mode = task[conn.target]

\* Where an operation is that no other overlaps.
OrderlyAt(a) ==
  /\ pc[a] = "closeSocket" => Settled
  /\ pc[a] = "clearSerial" => conn._socket = None
  /\ pc[a] = "clearFlag" => conn._socket = None /\ conn._serial = None
  /\ pc[a] \in {"start", "announce", "open", "storeHandle"} => Empty
  /\ pc[a] \in {"storeFlag", "storeMode", "storeTarget"} => HoldsOnly(a)
  /\ pc[a] \in {"storeMode", "storeTarget"} => conn.connected
  /\ pc[a] = "storeTarget" => conn.mode = task[a]
  /\ pc[a] \in {"outcome", "postConnected", "postDisconnected", "postRefresh"} => Settled
  /\ pc[a] = "postConnected" => conn.connected
  /\ pc[a] = "postDisconnected" => ~conn.connected

Alone ==
  /\ \A s, t \in Running : s = t
  /\ pc[Main] \in Closing \cup {"start"} => Running = {}

OrderlyInv ==
  ~overlapped =>
    /\ Alone
    /\ \A a \in Actors : OrderlyAt(a)
    /\ AtRest => Settled

\* Callback i is the last for the buttons that waits.
LastEnd(i) ==
  queue[i] \in Ends /\ \A j \in i + 1 .. Len(queue) : queue[j] \notin Ends

\* The last callback for the buttons that waits, or else the buttons, say
\* whether CONN is connected.
Told ==
  IF \E i \in 1 .. Len(queue) : queue[i] \in Ends
  THEN \A i \in 1 .. Len(queue) : LastEnd(i) => (queue[i] = "connected" <=> conn.connected)
  ELSE buttons.disconnect <=> conn.connected

\* And they do, if no operation is about to schedule another.
Announced ==
  ~overlapped /\ ~EndDue /\ pc[Main] \notin Closing \cup {"start", "gone"} => Told

----------------------------------------------------------------------------
(* Names and sequences *)

LEMMA Names ==
  /\ Main \notin Threads /\ None \notin Threads
  /\ Main \in Actors /\ Threads \subseteq Actors
  /\ \A a \in Actors : a # Main => a \in Threads
BY ClicksAssumption DEF Main, None, Threads, Actors

LEMMA Taken ==
  ASSUME NEW q \in Seq(Callbacks), q # <<>>
  PROVE  /\ Len(q) \in Nat /\ Len(q) > 0
         /\ Head(q) = q[1] /\ q[1] \in Callbacks
         /\ Tail(q) \in Seq(Callbacks)
         /\ Len(Tail(q)) = Len(q) - 1
         /\ \A i \in 1 .. Len(q) - 1 : Tail(q)[i] = q[i + 1]
<1> HIDE DEF Callbacks
<1>1. Len(q) \in Nat /\ Len(q) > 0
  OBVIOUS
<1>2. Head(q) = q[1] /\ q[1] \in Callbacks
  BY <1>1
<1>3. /\ Tail(q) \in Seq(Callbacks) /\ Len(Tail(q)) = Len(q) - 1
      /\ \A i \in 1 .. Len(q) - 1 : Tail(q)[i] = q[i + 1]
  BY <1>1
<1>4. QED
  BY <1>1, <1>2, <1>3

LEMMA Scheduled ==
  ASSUME NEW q \in Seq(Callbacks), NEW callback \in Callbacks
  PROVE  /\ Len(q) \in Nat
         /\ Append(q, callback) \in Seq(Callbacks)
         /\ Len(Append(q, callback)) = Len(q) + 1
         /\ \A i \in 1 .. Len(q) : Append(q, callback)[i] = q[i]
         /\ Append(q, callback)[Len(q) + 1] = callback
<1> HIDE DEF Callbacks
<1> QED
  OBVIOUS

\* What a step of one actor does to the places of all.
LEMMA Moves ==
  ASSUME TypeInv, NEW a \in Actors, NEW next \in Steps, GoesTo(a, next)
  PROVE  /\ pc' \in [Actors -> Steps]
         /\ pc'[a] = next
         /\ \A b \in Actors : b # a => pc'[b] = pc[b]
<1> HIDE DEF Actors, Steps
<1> QED
  BY DEF TypeInv, GoesTo

----------------------------------------------------------------------------
(* Types *)

LEMMA InitTypes == ConnInit => TypeInv
<1> SUFFICES ASSUME ConnInit PROVE TypeInv
  OBVIOUS
<1>1. /\ pc \in [Actors -> Steps] /\ task \in [Actors -> Tasks]
      /\ \A a \in Actors : pc[a] = "idle" /\ task[a] = "none"
  BY DEF ConnInit, Actors, Steps, Tasks
<1>2. conn \in Conns /\ panel \in Panels /\ buttons \in Buttons
  BY DEF ConnInit, Conns, Panel, Panels, Buttons
<1>3. queue \in Seq(Callbacks) /\ closed \subseteq Threads /\ overlapped \in BOOLEAN
  <2>1. <<>> \in Seq(Callbacks)
    BY EmptySeq
  <2>2. QED
    BY <2>1 DEF ConnInit
<1>4. SharedOK /\ PlacesOK
  <2>1. SharedOK
    BY <1>2, <1>3 DEF SharedOK
  <2>2. PlacesOK
    BY <1>1, Names DEF PlacesOK
  <2>3. QED
    BY <2>1, <2>2
<1>5. TasksFit
  BY <1>1, Names DEF TasksFit, Closing, Storing
<1>6. QED
  BY <1>1, <1>4, <1>5 DEF TypeInv

LEMMA ClickTypes ==
  ASSUME TypeInv, NEW what \in Modes \cup {"quit"}, ClickAndClose(what)
  PROVE  TypeInv'
<1>1. /\ pc' \in [Actors -> Steps] /\ pc'[Main] = "closeSocket"
      /\ \A t \in Threads : pc'[t] = pc[t]
  BY Names, Moves DEF ClickAndClose, Steps, Working, Closing
<1>2. /\ task' \in [Actors -> Tasks] /\ task'[Main] = what
      /\ \A t \in Threads : task'[t] = task[t]
  BY Names DEF ClickAndClose, TypeInv, Tasks
<1>3. SharedOK' /\ PlacesOK'
  <2>1. SharedOK'
    BY DEF ClickAndClose, TypeInv, SharedOK
  <2>2. PlacesOK'
    BY <1>1, <1>2 DEF TypeInv, PlacesOK, Closing
  <2>3. QED
    BY <2>1, <2>2
<1>4. TasksFit'
  BY <1>1, <1>2 DEF TypeInv, TasksFit, Closing
<1>5. QED
  BY <1>1, <1>2, <1>3, <1>4 DEF TypeInv

LEMMA StartTypes ==
  ASSUME TypeInv, StartConnect
  PROVE  TypeInv'
<1>1. PICK t \in Threads : /\ Fresh(t)
                           /\ task' = [task EXCEPT ![t] = task[Main]]
                           /\ pc' = [pc EXCEPT ![Main] = "idle", ![t] = "announce"]
  BY DEF StartConnect
<1>2. /\ pc' \in [Actors -> Steps] /\ pc'[Main] = "idle" /\ pc'[t] = "announce"
      /\ \A s \in Threads \ {t} : pc'[s] = pc[s]
  BY <1>1, Names DEF TypeInv, Steps, Working
<1>3. /\ task' \in [Actors -> Tasks] /\ task'[t] = task[Main] /\ task'[Main] = task[Main]
      /\ \A s \in Threads \ {t} : task'[s] = task[s]
  BY <1>1, Names DEF TypeInv, Tasks
<1>4. task[Main] \in Modes
  BY DEF StartConnect, TypeInv, TasksFit
<1>5. SharedOK' /\ PlacesOK'
  <2>1. SharedOK'
    BY DEF StartConnect, TypeInv, SharedOK
  <2>2. PlacesOK'
    BY <1>2, <1>3, <1>4 DEF TypeInv, PlacesOK, Working, Modes
  <2>3. QED
    BY <2>1, <2>2
<1>6. TasksFit'
  BY <1>2, <1>3, <1>4 DEF TypeInv, TasksFit, Closing
<1>7. QED
  BY <1>2, <1>3, <1>5, <1>6 DEF TypeInv

LEMMA DisconnectTypes ==
  ASSUME TypeInv, ClickDisconnect
  PROVE  TypeInv'
<1>1. PICK t \in Threads : /\ task' = [task EXCEPT ![t] = "disconnect"]
                           /\ GoesTo(t, "closeSocket")
  BY DEF ClickDisconnect
<1>2. /\ pc' \in [Actors -> Steps] /\ pc'[t] = "closeSocket"
      /\ \A a \in Actors \ {t} : pc'[a] = pc[a]
  BY <1>1, Names, Moves DEF Steps, Working, Closing
<1>3. /\ task' \in [Actors -> Tasks] /\ task'[t] = "disconnect"
      /\ \A a \in Actors \ {t} : task'[a] = task[a]
  BY <1>1, Names DEF TypeInv, Tasks
<1>4. SharedOK' /\ PlacesOK'
  <2>1. SharedOK'
    BY DEF ClickDisconnect, TypeInv, SharedOK
  <2>2. PlacesOK'
    BY <1>2, <1>3, Names DEF TypeInv, PlacesOK, Working, Closing
  <2>3. QED
    BY <2>1, <2>2
<1>5. TasksFit'
  BY <1>2, <1>3, Names DEF TypeInv, TasksFit, Closing, Storing
<1>6. QED
  BY <1>2, <1>3, <1>4, <1>5 DEF TypeInv

LEMMA CallbackTypes ==
  ASSUME TypeInv, UpdateButtons \/ RefreshStatus
  PROVE  TypeInv'
<1>1. pc[Main] = "idle" /\ queue # <<>> /\ queue' = Tail(queue) /\ UNCHANGED task
  BY DEF UpdateButtons, RefreshStatus, TakesCallback
<1>2. queue' \in Seq(Callbacks)
  BY <1>1, Taken DEF TypeInv, SharedOK
<1>3. CASE UpdateButtons
  <2>1. buttons' \in Buttons
    <3>1. buttons \in Buttons
      BY DEF TypeInv, SharedOK
    <3>2. PICK callback \in Callbacks : buttons' = ButtonsAfter(callback)
      BY <1>3 DEF UpdateButtons
    <3>3. QED
      BY <3>1, <3>2 DEF ButtonsAfter, Buttons
  <2>2. SharedOK' /\ PlacesOK'
    BY <1>1, <1>2, <1>3, <2>1 DEF UpdateButtons, TypeInv, SharedOK, PlacesOK
  <2>3. QED
    BY <1>3, <2>2 DEF UpdateButtons, TypeInv, TasksFit
<1>4. CASE RefreshStatus
  <2>1. /\ pc' \in [Actors -> Steps] /\ pc'[Main] \in {"idle", "showMode"}
        /\ \A t \in Threads : pc'[t] = pc[t]
    <3>1. CASE conn.connected
      BY <1>4, <3>1, Names, Moves DEF RefreshStatus, Steps
    <3>2. CASE ~conn.connected
      BY <1>1, <1>4, <3>2 DEF RefreshStatus, TypeInv
    <3>3. QED
      BY <3>1, <3>2
  <2>2. panel' \in Panels
    <3>1. panel \in Panels
      BY DEF TypeInv, SharedOK
    <3>2. CASE panel' = [panel EXCEPT !.status = TRUE]
      BY <3>1, <3>2 DEF Panels
    <3>3. CASE panel' = Panel(FALSE, "", None)
      BY <3>3 DEF Panel, Panels
    <3>4. QED
      BY <1>4, <3>2, <3>3 DEF RefreshStatus
  <2>3. SharedOK' /\ PlacesOK'
    <3>1. SharedOK'
      BY <1>2, <1>4, <2>2 DEF RefreshStatus, TypeInv, SharedOK
    <3>2. PlacesOK'
      BY <1>1, <2>1 DEF TypeInv, PlacesOK
    <3>3. QED
      BY <3>1, <3>2
  <2>4. TasksFit'
    BY <1>1, <2>1 DEF TypeInv, TasksFit, Closing
  <2>5. QED
    BY <1>1, <2>1, <2>3, <2>4 DEF TypeInv
<1>5. QED
  BY <1>3, <1>4

LEMMA DetailsTypes ==
  ASSUME TypeInv, RefreshDetails
  PROVE  TypeInv'
<1>1. /\ pc' \in [Actors -> Steps] /\ pc'[Main] \in {"idle", "showTarget"}
      /\ \A t \in Threads : pc'[t] = pc[t]
  BY Names, Moves DEF RefreshDetails, Steps
<1>2. panel' \in Panels
  <2>1. panel \in Panels /\ conn.mode \in Modes \cup {""} /\ conn.target \in {None} \cup Threads
    BY DEF TypeInv, SharedOK, Conns
  <2>2. CASE panel' = [panel EXCEPT !.mode = conn.mode]
    BY <2>1, <2>2 DEF Panels
  <2>3. CASE panel' = [panel EXCEPT !.target = conn.target]
    BY <2>1, <2>3 DEF Panels
  <2>4. QED
    BY <2>2, <2>3 DEF RefreshDetails
<1>3. SharedOK' /\ PlacesOK'
  <2>1. SharedOK'
    BY <1>2 DEF RefreshDetails, TypeInv, SharedOK
  <2>2. PlacesOK'
    BY <1>1 DEF RefreshDetails, TypeInv, PlacesOK
  <2>3. QED
    BY <2>1, <2>2
<1>4. TasksFit'
  BY <1>1 DEF RefreshDetails, TypeInv, TasksFit, Closing
<1>5. QED
  BY <1>1, <1>3, <1>4 DEF RefreshDetails, TypeInv
\* The assignments to CONN.
LEMMA Assignments ==
  ASSUME conn \in Conns
  PROVE  /\ [conn EXCEPT !._socket = None] \in Conns
         /\ [conn EXCEPT !._serial = None] \in Conns
         /\ [conn EXCEPT !.connected = FALSE] \in Conns
         /\ [conn EXCEPT !.connected = TRUE] \in Conns
         /\ \A h \in Threads : /\ [conn EXCEPT !._socket = h] \in Conns
                               /\ [conn EXCEPT !._serial = h] \in Conns
                               /\ [conn EXCEPT !.target = h] \in Conns
         /\ \A m \in Modes : [conn EXCEPT !.mode = m] \in Conns
<1> HIDE DEF Modes, Threads, None
<1>1. /\ [conn EXCEPT !._socket = None] \in Conns
      /\ [conn EXCEPT !._serial = None] \in Conns
  BY DEF Conns
<1>2. /\ [conn EXCEPT !.connected = FALSE] \in Conns
      /\ [conn EXCEPT !.connected = TRUE] \in Conns
  BY DEF Conns
<1>3. \A h \in Threads : /\ [conn EXCEPT !._socket = h] \in Conns
                         /\ [conn EXCEPT !._serial = h] \in Conns
                         /\ [conn EXCEPT !.target = h] \in Conns
  BY DEF Conns
<1>4. \A m \in Modes : [conn EXCEPT !.mode = m] \in Conns
  BY DEF Conns
<1>5. QED
  BY <1>1, <1>2, <1>3, <1>4

\* A step of a thread that is at work, to where its type allows.
LEMMA ThreadTypes ==
  ASSUME TypeInv, SharedOK', UNCHANGED task,
         NEW t \in Threads, pc[t] \in Working,
         NEW next \in Working \cup {"done"}, GoesTo(t, next),
         next \in Storing \cup {"announce", "open"} => task[t] \in Modes
  PROVE  TypeInv'
<1>1. /\ pc' \in [Actors -> Steps] /\ pc'[t] = next
      /\ \A a \in Actors \ {t} : pc'[a] = pc[a]
  BY Names, Moves DEF Steps
<1>2. PlacesOK'
  <2>1. pc'[t] # "idle" /\ pc[t] # "idle"
    BY <1>1 DEF Working, Closing, Storing
  <2>2. QED
    BY <1>1, <2>1, Names DEF TypeInv, PlacesOK
<1>3. TasksFit'
  BY <1>1, Names DEF TypeInv, TasksFit
<1>4. QED
  BY <1>1, <1>2, <1>3 DEF TypeInv

LEMMA CloseTypes ==
  ASSUME TypeInv, NEW a \in Actors, Close(a)
  PROVE  TypeInv'
<1>1. UNCHANGED <<task, queue, buttons, panel, overlapped>> /\ pc[a] \in Closing
  BY DEF Close, Clears, Closing
<1>2. SharedOK'
  <2>1. conn' \in Conns
    BY Assignments DEF Close, Clears, TypeInv, SharedOK
  <2>2. closed' \subseteq Threads
    <3>1. conn._socket \in {None} \cup Threads /\ conn._serial \in {None} \cup Threads
      BY DEF TypeInv, SharedOK, Conns
    <3>2. QED
      BY <3>1 DEF Close, Clears, TypeInv, SharedOK
  <2>3. QED
    BY <1>1, <2>1, <2>2 DEF TypeInv, SharedOK
<1>3. PICK next \in Closing \cup {AfterClose(a)} : GoesTo(a, next)
  BY DEF Close, Clears, Closing
<1>4. CASE a \in Threads
  <2>1. AfterClose(a) = "postDisconnected"
    BY <1>4, Names DEF AfterClose
  <2>2. next \in Working \cup {"done"} /\ next \notin Storing \cup {"announce", "open"}
    BY <1>3, <2>1 DEF Working, Closing, Storing
  <2>3. QED
    BY <1>1, <1>2, <1>3, <1>4, <2>2, ThreadTypes DEF Working
<1>5. CASE a = Main
  <2>1. /\ next \in Closing \cup {"gone", "start"}
        /\ next = "start" => task[Main] \in Modes
    BY <1>1, <1>3, <1>5 DEF AfterClose, TypeInv, TasksFit, Closing
  <2>2. next \in Steps
    BY <2>1 DEF Steps, Working
  <2>3. /\ pc' \in [Actors -> Steps] /\ pc'[Main] = next
        /\ \A t \in Threads : pc'[t] = pc[t]
    BY <1>3, <1>5, <2>2, Names, Moves
  <2>4. PlacesOK'
    BY <1>1, <2>1, <2>3 DEF TypeInv, PlacesOK
  <2>5. TasksFit'
    BY <1>1, <1>5, <2>1, <2>3 DEF TypeInv, TasksFit, Closing
  <2>6. QED
    BY <1>1, <1>2, <2>3, <2>4, <2>5 DEF TypeInv
<1>6. QED
  BY <1>4, <1>5 DEF Actors

LEMMA StoreTypes ==
  ASSUME TypeInv, NEW t \in Threads, Open(t) \/ Store(t) \/ Outcome(t)
  PROVE  TypeInv'
<1>1. /\ UNCHANGED <<task, queue, buttons, panel, overlapped>>
      /\ pc[t] \in Storing \cup {"open", "outcome"}
  BY DEF Open, Store, Outcome, Storing
<1>2. pc[t] # "outcome" => task[t] \in Modes
  BY <1>1 DEF TypeInv, TasksFit, Storing
<1>3. SharedOK'
  <2>1. conn' \in Conns
    <3>1. CASE Open(t) \/ Outcome(t)
      BY <3>1 DEF Open, Outcome, TypeInv, SharedOK
    <3>2. CASE Store(t)
      BY <1>2, <3>2, Assignments DEF Store, StoreHandle, TypeInv, SharedOK
    <3>3. QED
      BY <3>1, <3>2
  <2>2. closed' \subseteq Threads
    BY DEF Open, Store, Outcome, TypeInv, SharedOK
  <2>3. QED
    BY <1>1, <2>1, <2>2 DEF TypeInv, SharedOK
<1>4. PICK next \in Storing \cup {"outcome", "postConnected", "postDisconnected"} :
        /\ GoesTo(t, next)
        /\ next \in Storing => pc[t] # "outcome"
  BY DEF Open, Store, Outcome, Storing
<1>5. next \in Working \cup {"done"} /\ next \notin {"announce", "open"} /\ pc[t] \in Working
  BY <1>1, <1>4 DEF Working, Storing
<1>6. QED
  BY <1>1, <1>2, <1>3, <1>4, <1>5, ThreadTypes

\* What Post does, without the table.
LEMMA Posted ==
  ASSUME NEW t \in Threads, Post(t)
  PROVE  /\ UNCHANGED <<conn, closed, task, buttons, panel, overlapped>>
         /\ \/ /\ pc[t] = "announce" /\ GoesTo(t, "open")
               /\ queue' = Append(queue, "connecting")
            \/ /\ pc[t] = "postConnected" /\ GoesTo(t, "postRefresh")
               /\ queue' = Append(queue, "connected")
            \/ /\ pc[t] = "postDisconnected" /\ GoesTo(t, "postRefresh")
               /\ queue' = Append(queue, "disconnected")
            \/ /\ pc[t] = "postRefresh" /\ GoesTo(t, "done")
               /\ queue' = Append(queue, "refresh")
BY DEF Post, Posts

LEMMA PostTypes ==
  ASSUME TypeInv, NEW t \in Threads, Post(t)
  PROVE  TypeInv'
<1>1. UNCHANGED <<conn, closed, task, buttons, panel, overlapped>>
  BY Posted
<1>2. PICK callback \in Callbacks : queue' = Append(queue, callback)
  BY Posted DEF Callbacks
<1>3. SharedOK'
  BY <1>1, <1>2, Scheduled DEF TypeInv, SharedOK
<1>4. PICK next \in {"open", "postRefresh", "done"} :
        GoesTo(t, next) /\ (next = "open" => pc[t] = "announce")
  BY Posted
<1>5. /\ pc[t] \in Working /\ next \in Working \cup {"done"}
      /\ next \in Storing \cup {"announce", "open"} => task[t] \in Modes
  BY <1>4, Posted DEF Working, Storing, TypeInv, TasksFit
<1>6. QED
  BY <1>1, <1>3, <1>4, <1>5, ThreadTypes

LEMMA NextTypes == TypeInv /\ [ConnNext]_connVars => TypeInv'
<1> SUFFICES ASSUME TypeInv, [ConnNext]_connVars PROVE TypeInv'
  OBVIOUS
<1>1. CASE \E what \in Modes \cup {"quit"} : ClickAndClose(what)
  BY <1>1, ClickTypes
<1>2. CASE ClickDisconnect
  BY <1>2, DisconnectTypes
<1>3. CASE MainStep
  BY <1>3, StartTypes, CallbackTypes, DetailsTypes, CloseTypes, Names DEF MainStep
<1>4. CASE \E t \in Threads : ThreadStep(t)
  BY <1>4, CloseTypes, StoreTypes, PostTypes, Names DEF ThreadStep
<1>5. CASE UNCHANGED connVars
  BY <1>5 DEF connVars, TypeInv, SharedOK, PlacesOK, TasksFit
<1>6. QED
  BY <1>1, <1>2, <1>3, <1>4, <1>5 DEF ConnNext

\* CONN, the threads, the callbacks and the widgets keep their types, and what
\* a thread is at fits what it was started for.
THEOREM ConnTypes == ConnSpec => []TypeInv
BY InitTypes, NextTypes, PTL DEF ConnSpec

LEMMA TypesInParts == TypeInv => ConnTypeOK
<1> SUFFICES ASSUME TypeInv PROVE ConnTypeOK
  OBVIOUS
<1>1. /\ conn \in Conns /\ closed \subseteq Threads /\ queue \in Seq(Callbacks)
      /\ buttons \in Buttons /\ panel \in Panels /\ overlapped \in BOOLEAN
  BY DEF TypeInv, SharedOK
<1>2. PlacesOK
  BY DEF TypeInv
<1>3. QED
  BY <1>1, <1>2, Zenon DEF ConnTypeOK, PlacesOK, Conns, Panels, Buttons

\* CONN, the threads, the callbacks and the widgets keep their types
\* (connection_state.py, connection_controller.py).
THEOREM ConnTypeCorrect == ConnSpec => []ConnTypeOK
BY ConnTypes, TypesInParts, PTL

----------------------------------------------------------------------------
(* Transports *)

LEMMA HandlesAreThreads ==
  ASSUME TypeInv
  PROVE  /\ conn._socket \in {None} \cup Threads /\ conn._serial \in {None} \cup Threads
         /\ Handles \subseteq Threads
BY DEF TypeInv, SharedOK, Conns, Handles

LEMMA InitHandles == ConnInit => HandlesInv
<1> SUFFICES ASSUME ConnInit PROVE HandlesInv
  OBVIOUS
<1>1. conn._socket = None /\ conn._serial = None /\ closed = {}
  BY DEF ConnInit
<1>2. Handles = {}
  BY <1>1 DEF Handles
<1>3. HandlesFit
  BY <1>1, <1>2 DEF HandlesFit
<1>4. ClosedCleared
  BY <1>1 DEF ClosedCleared
<1>5. QED
  BY <1>3, <1>4 DEF HandlesInv

\* A step that leaves CONN alone, starts no thread that has a transport, and
\* moves no one who is about to clear.
LEMMA HandlesKept ==
  ASSUME TypeInv, HandlesInv, UNCHANGED <<conn, closed>>,
         \A t \in Handles : task'[t] = task[t],
         \A t \in Handles : pc'[t] \notin {"announce", "open", "storeHandle"},
         \A a \in Actors : pc[a] \in {"closeSerial", "clearSocket", "clearSerial"} =>
                             pc'[a] = pc[a]
  PROVE  HandlesInv'
<1>1. Handles' = Handles
  BY DEF Handles
<1>2. HandlesFit'
  BY <1>1 DEF HandlesInv, HandlesFit, Handles
<1>3. ClosedCleared'
  BY <1>1 DEF HandlesInv, ClosedCleared
<1>4. QED
  BY <1>2, <1>3 DEF HandlesInv

LEMMA ClickHandles ==
  ASSUME TypeInv, HandlesInv, NEW what \in Modes \cup {"quit"}, ClickAndClose(what)
  PROVE  HandlesInv'
<1>1. /\ pc[Main] = "idle"
      /\ \A t \in Threads : pc'[t] = pc[t] /\ task'[t] = task[t]
  BY Names DEF ClickAndClose, GoesTo, TypeInv
<1>2. UNCHANGED <<conn, closed>>
  BY DEF ClickAndClose
<1>3. QED
  BY <1>1, <1>2, HandlesAreThreads, HandlesKept DEF HandlesInv, HandlesFit, Actors

\* A thread that was not started yet holds nothing.
LEMMA FreshHoldsNothing ==
  ASSUME TypeInv, HandlesInv, NEW t \in Threads, Fresh(t)
  PROVE  t \notin Handles
BY DEF Fresh, HandlesInv, HandlesFit, Handles

LEMMA StartHandles ==
  ASSUME TypeInv, HandlesInv, StartConnect \/ ClickDisconnect
  PROVE  HandlesInv'
<1>1. PICK t \in Threads :
        /\ Fresh(t)
        /\ pc[Main] \in {"start", "idle"} /\ pc[t] = "idle"
        /\ \A s \in Threads \ {t} : pc'[s] = pc[s] /\ task'[s] = task[s]
  <2>1. CASE StartConnect
    BY <2>1, Names DEF StartConnect, Fresh, TypeInv, PlacesOK
  <2>2. CASE ClickDisconnect
    BY <2>2, Names DEF ClickDisconnect, GoesTo, MayStart, Fresh, TypeInv, PlacesOK
  <2>3. QED
    BY <2>1, <2>2
<1>2. UNCHANGED <<conn, closed>>
  BY DEF StartConnect, ClickDisconnect
<1>3. t \notin Handles
  BY <1>1, FreshHoldsNothing
<1>4. QED
  BY <1>1, <1>2, <1>3, HandlesAreThreads, HandlesKept DEF HandlesInv, HandlesFit, Actors

LEMMA MainHandles ==
  ASSUME TypeInv, HandlesInv, UpdateButtons \/ RefreshStatus \/ RefreshDetails
  PROVE  HandlesInv'
<1>1. /\ pc[Main] \in {"idle", "showMode", "showTarget"}
      /\ \A t \in Threads : pc'[t] = pc[t]
      /\ UNCHANGED <<conn, closed, task>>
  BY Names DEF UpdateButtons, RefreshStatus, RefreshDetails, TakesCallback, GoesTo, TypeInv
<1>2. QED
  BY <1>1, HandlesAreThreads, HandlesKept DEF HandlesInv, HandlesFit, Actors

LEMMA ThreadHandles ==
  ASSUME TypeInv, HandlesInv, NEW t \in Threads, Open(t) \/ Outcome(t) \/ Post(t)
  PROVE  HandlesInv'
<1>1. /\ pc[t] \in {"open", "outcome", "announce", "postConnected", "postDisconnected",
                    "postRefresh"}
      /\ UNCHANGED <<conn, closed, task>>
      /\ \A a \in Actors \ {t} : pc'[a] = pc[a]
      /\ pc'[t] \in {"open", "storeHandle"} => pc[t] \in {"announce", "open"}
      /\ pc'[t] # "announce"
  <2>1. CASE Open(t)
    BY <2>1, Names DEF Open, GoesTo, TypeInv
  <2>2. CASE Outcome(t)
    BY <2>2, Names DEF Outcome, GoesTo, TypeInv
  <2>3. CASE Post(t)
    BY <2>3, Names, Posted DEF GoesTo, TypeInv
  <2>4. QED
    BY <2>1, <2>2, <2>3
<1>2. QED
  BY <1>1, HandlesAreThreads, HandlesKept, Names DEF HandlesInv, HandlesFit

LEMMA StoreHandles ==
  ASSUME TypeInv, HandlesInv, NEW t \in Threads, Store(t)
  PROVE  HandlesInv'
<1>1. /\ UNCHANGED task /\ closed' = closed \cap Handles'
      /\ pc[t] \in Storing /\ pc'[t] \in {"storeFlag", "storeMode", "storeTarget", "outcome"}
      /\ \A a \in Actors \ {t} : pc'[a] = pc[a]
  BY Names DEF Store, GoesTo, Storing, TypeInv
<1>2. CASE pc[t] = "storeHandle"
  <2>1. StoreHandle(t) /\ t \notin Handles
    BY <1>2 DEF Store, HandlesInv, HandlesFit
  <2>2. /\ conn \in Conns /\ task[t] \in Modes
        /\ \/ task[t] = "wifi" /\ conn' = [conn EXCEPT !._socket = t]
           \/ task[t] = "serial" /\ conn' = [conn EXCEPT !._serial = t]
    BY <1>2, <2>1 DEF StoreHandle, TypeInv, SharedOK, TasksFit, Storing, Modes
  <2>3. \/ /\ task[t] = "wifi" /\ conn'._socket = t /\ conn'._serial = conn._serial
        \/ /\ task[t] = "serial" /\ conn'._serial = t /\ conn'._socket = conn._socket
    BY <2>2 DEF Conns
  <2>4. Handles' \subseteq Handles \cup {t} /\ t \notin closed
    BY <2>1, <2>3 DEF Handles, HandlesInv, ClosedCleared
  <2>5. HandlesFit'
    BY <1>1, <2>3, <2>4, Names DEF HandlesInv, HandlesFit
  <2>6. ClosedCleared'
    <3>1. closed' \subseteq Handles' /\ closed' \subseteq closed
      BY <1>1
    <3>2. \A a \in Actors : pc[a] \in {"closeSerial", "clearSocket", "clearSerial"} =>
                              pc'[a] = pc[a]
      BY <1>1, <1>2
    <3>3. QED
      BY <2>3, <2>4, <3>1, <3>2 DEF HandlesInv, ClosedCleared
  <2>7. QED
    BY <2>5, <2>6 DEF HandlesInv
<1>3. CASE pc[t] # "storeHandle"
  <2>1. conn'._socket = conn._socket /\ conn'._serial = conn._serial
    BY <1>1, <1>3 DEF Store, TypeInv, SharedOK, Conns
  <2>2. Handles' = Handles /\ closed' = closed
    BY <1>1, <2>1 DEF Handles, HandlesInv, ClosedCleared
  <2>3. HandlesFit'
    BY <1>1, <2>1, <2>2, Names DEF HandlesInv, HandlesFit
  <2>4. ClosedCleared'
    BY <1>1, <2>1, <2>2 DEF HandlesInv, ClosedCleared, Storing
  <2>5. QED
    BY <2>3, <2>4 DEF HandlesInv
<1>4. QED
  BY <1>2, <1>3

LEMMA CloseHandles ==
  ASSUME TypeInv, HandlesInv, NEW a \in Actors, Close(a)
  PROVE  HandlesInv'
<1>1. /\ UNCHANGED task
      /\ \A b \in Actors \ {a} : pc'[b] = pc[b]
      /\ pc'[a] \notin {"announce", "open", "storeHandle"}
  BY DEF Close, Clears, AfterClose, GoesTo, TypeInv
<1>2. HandlesFit /\ ClosedCleared /\ conn \in Conns
  BY DEF HandlesInv, TypeInv, SharedOK
<1>3. conn._socket # None /\ conn._serial # None => conn._socket # conn._serial
  BY <1>2 DEF HandlesFit
<1>4. CASE pc[a] = "closeSocket"
  <2>1. /\ pc'[a] = "closeSerial" /\ conn' = conn
        /\ closed' = closed \cup ({conn._socket} \ {None})
    BY <1>4 DEF Close, Clears, GoesTo, TypeInv
  <2>2. HandlesFit'
    BY <1>1, <1>2, <2>1, HandlesAreThreads, Names DEF HandlesFit, Handles
  <2>3. ClosedCleared'
    BY <1>1, <1>2, <1>3, <1>4, <2>1 DEF ClosedCleared, Handles
  <2>4. QED
    BY <2>2, <2>3 DEF HandlesInv
<1>5. CASE pc[a] = "closeSerial"
  <2>1. /\ pc'[a] = "clearSocket" /\ conn' = conn
        /\ closed' = closed \cup ({conn._serial} \ {None})
    BY <1>5 DEF Close, Clears, GoesTo, TypeInv
  <2>2. HandlesFit'
    BY <1>1, <1>2, <2>1, HandlesAreThreads, Names DEF HandlesFit, Handles
  <2>3. ClosedCleared'
    BY <1>1, <1>2, <1>3, <1>5, <2>1 DEF ClosedCleared, Handles
  <2>4. QED
    BY <2>2, <2>3 DEF HandlesInv
<1>6. CASE pc[a] = "clearSocket"
  <2>1. /\ pc'[a] = "clearSerial" /\ conn' = [conn EXCEPT !._socket = None]
        /\ closed' = closed \cap Handles'
    BY <1>6 DEF Close, Clears, GoesTo, TypeInv
  <2>2. conn'._socket = None /\ conn'._serial = conn._serial
    BY <1>2, <2>1 DEF Conns
  <2>3. Handles' \subseteq Handles
    BY <2>2 DEF Handles
  <2>4. HandlesFit'
    BY <1>1, <1>2, <2>2, <2>3, HandlesAreThreads, Names DEF HandlesFit, Handles
  <2>5. ClosedCleared'
    BY <1>1, <1>2, <2>1, <2>2 DEF ClosedCleared, Handles
  <2>6. QED
    BY <2>4, <2>5 DEF HandlesInv
<1>7. CASE pc[a] = "clearSerial"
  <2>1. /\ pc'[a] = "clearFlag" /\ conn' = [conn EXCEPT !._serial = None]
        /\ closed' = closed \cap Handles'
    BY <1>7 DEF Close, Clears, GoesTo, TypeInv
  <2>2. conn'._serial = None /\ conn'._socket = conn._socket
    BY <1>2, <2>1 DEF Conns
  <2>3. Handles' \subseteq Handles
    BY <2>2 DEF Handles
  <2>4. HandlesFit'
    BY <1>1, <1>2, <2>2, <2>3, HandlesAreThreads, Names DEF HandlesFit, Handles
  <2>5. ClosedCleared'
    BY <1>1, <1>2, <1>7, <2>1, <2>2 DEF ClosedCleared, Handles
  <2>6. QED
    BY <2>4, <2>5 DEF HandlesInv
<1>8. CASE pc[a] = "clearFlag"
  <2>1. conn' = [conn EXCEPT !.connected = FALSE] /\ closed' = closed \cap Handles'
    BY <1>8 DEF Close, Clears
  <2>2. conn'._socket = conn._socket /\ conn'._serial = conn._serial
    BY <1>2, <2>1 DEF Conns
  <2>3. Handles' = Handles /\ closed' = closed
    BY <1>2, <2>1, <2>2 DEF Handles, ClosedCleared
  <2>4. HandlesFit'
    BY <1>1, <1>2, <2>2, <2>3, HandlesAreThreads, Names DEF HandlesFit
  <2>5. ClosedCleared'
    BY <1>1, <1>2, <1>8, <2>2, <2>3 DEF ClosedCleared
  <2>6. QED
    BY <2>4, <2>5 DEF HandlesInv
<1>9. QED
  BY <1>4, <1>5, <1>6, <1>7, <1>8 DEF Close, Clears

LEMMA NextHandles == TypeInv /\ HandlesInv /\ [ConnNext]_connVars => HandlesInv'
<1> SUFFICES ASSUME TypeInv, HandlesInv, [ConnNext]_connVars PROVE HandlesInv'
  OBVIOUS
<1>1. CASE \E what \in Modes \cup {"quit"} : ClickAndClose(what)
  BY <1>1, ClickHandles
<1>2. CASE ClickDisconnect
  BY <1>2, StartHandles
<1>3. CASE MainStep
  BY <1>3, StartHandles, MainHandles, CloseHandles, Names DEF MainStep
<1>4. CASE \E t \in Threads : ThreadStep(t)
  BY <1>4, CloseHandles, ThreadHandles, StoreHandles, Names DEF ThreadStep
<1>5. CASE UNCHANGED connVars
  BY <1>5 DEF connVars, HandlesInv, HandlesFit, ClosedCleared, Handles
<1>6. QED
  BY <1>1, <1>2, <1>3, <1>4, <1>5 DEF ConnNext

LEMMA NothingClosed == TypeInv /\ HandlesInv => HandlesAreOpen
<1> SUFFICES ASSUME TypeInv, HandlesInv, AtRest PROVE Handles \cap closed = {}
  BY DEF HandlesAreOpen
<1>1. \A a \in Actors : pc[a] \notin {"closeSerial", "clearSocket", "clearSerial"}
  BY DEF AtRest, Running, Actors, Working, Closing
<1>2. QED
  BY <1>1 DEF HandlesInv, ClosedCleared, Handles

\* However connects and disconnects overlap, CONN keeps no transport that was
\* closed (ConnectionState.close).
THEOREM NoClosedHandles == ConnSpec => []HandlesAreOpen
<1>1. ConnInit => TypeInv /\ HandlesInv
  BY InitTypes, InitHandles
<1>2. TypeInv /\ HandlesInv /\ [ConnNext]_connVars => (TypeInv /\ HandlesInv)'
  BY NextTypes, NextHandles
<1>3. QED
  BY <1>1, <1>2, NothingClosed, PTL DEF ConnSpec

----------------------------------------------------------------------------
(* The status panel *)

LEMMA InitPanel == ConnInit => PanelInv
<1> SUFFICES ASSUME ConnInit PROVE PanelInv
  OBVIOUS
<1>1. pc[Main] = "idle" /\ ~conn.connected /\ panel = Panel(FALSE, "", None)
  BY Names DEF ConnInit, Actors
<1>2. QED
  BY <1>1 DEF PanelInv

LEMMA ClickPanel ==
  ASSUME TypeInv, NEW what \in Modes \cup {"quit"}, ClickAndClose(what)
  PROVE  PanelInv'
<1>1. pc'[Main] = "closeSocket"
  BY Names DEF ClickAndClose, GoesTo, TypeInv
<1>2. QED
  BY <1>1 DEF PanelInv, RefreshDue, Closing

LEMMA StartPanel ==
  ASSUME TypeInv, StartConnect \/ ClickDisconnect
  PROVE  PanelInv'
<1>1. PICK t \in Threads : pc'[t] \in {"announce", "closeSocket"}
  BY Names DEF StartConnect, ClickDisconnect, GoesTo, TypeInv
<1>2. QED
  BY <1>1 DEF PanelInv, RefreshDue, Running, Working, Closing

LEMMA CallbackPanel ==
  ASSUME TypeInv, PanelInv, UpdateButtons
  PROVE  PanelInv'
<1>1. /\ UNCHANGED <<conn, pc, panel>>
      /\ queue # <<>> /\ queue[1] # "refresh" /\ queue' = Tail(queue)
  BY Taken DEF UpdateButtons, TakesCallback, TypeInv, SharedOK
<1>2. CASE RefreshDue
  <2>1. CASE \E i \in 1 .. Len(queue) : queue[i] = "refresh"
    <3>1. PICK i \in 1 .. Len(queue) : queue[i] = "refresh"
      BY <2>1
    <3>2. Len(queue) \in Nat /\ Len(queue') = Len(queue) - 1
          /\ \A j \in 1 .. Len(queue) - 1 : queue'[j] = queue[j + 1]
      BY <1>1, Taken DEF TypeInv, SharedOK
    <3>3. i - 1 \in 1 .. Len(queue') /\ queue'[i - 1] = "refresh"
      BY <1>1, <3>1, <3>2
    <3>4. QED
      BY <3>3 DEF PanelInv, RefreshDue
  <2>2. QED
    BY <1>1, <1>2, <2>1 DEF PanelInv, RefreshDue, Running
<1>3. CASE ~RefreshDue
  BY <1>1, <1>3 DEF PanelInv, UpdateButtons, TakesCallback
<1>4. QED
  BY <1>2, <1>3

LEMMA RefreshPanel ==
  ASSUME TypeInv, RefreshStatus
  PROVE  PanelInv'
<1>1. UNCHANGED conn /\ pc[Main] = "idle" /\ panel \in Panels
  BY DEF RefreshStatus, TakesCallback, TypeInv, SharedOK
<1>2. CASE conn.connected
  <2>1. pc'[Main] = "showMode"
    BY <1>2, Names DEF RefreshStatus, GoesTo, TypeInv
  <2>2. panel'.status = TRUE
    BY <1>1, <1>2 DEF RefreshStatus, Panels
  <2>3. QED
    BY <1>1, <1>2, <2>1, <2>2 DEF PanelInv
<1>3. CASE ~conn.connected
  BY <1>1, <1>3 DEF RefreshStatus, PanelInv
<1>4. QED
  BY <1>2, <1>3

LEMMA DetailsPanel ==
  ASSUME TypeInv, PanelInv, RefreshDetails
  PROVE  PanelInv'
<1>1. /\ UNCHANGED <<conn, queue>> /\ panel \in Panels
      /\ pc[Main] \in {"showMode", "showTarget"}
      /\ \A t \in Threads : pc'[t] = pc[t]
  BY Names DEF RefreshDetails, GoesTo, TypeInv, SharedOK
<1>2. CASE RefreshDue
  BY <1>1, <1>2 DEF PanelInv, RefreshDue, Running, Closing
<1>3. CASE ~RefreshDue /\ pc[Main] = "showMode"
  <2>1. pc'[Main] = "showTarget" /\ panel' = [panel EXCEPT !.mode = conn.mode]
    BY <1>3, Names DEF RefreshDetails, GoesTo, TypeInv
  <2>2. panel'.status = panel.status /\ panel'.mode = conn.mode
    BY <1>1, <2>1 DEF Panels
  <2>3. QED
    BY <1>1, <1>3, <2>1, <2>2 DEF PanelInv
<1>4. CASE ~RefreshDue /\ pc[Main] = "showTarget"
  <2>1. pc'[Main] = "idle" /\ panel' = [panel EXCEPT !.target = conn.target]
    BY <1>4, Names DEF RefreshDetails, GoesTo, TypeInv
  <2>2. conn.connected /\ panel.status /\ panel.mode = conn.mode
    BY <1>4 DEF PanelInv
  <2>3. panel' = Panel(TRUE, conn.mode, conn.target)
    BY <1>1, <2>1, <2>2 DEF Panels, Panel
  <2>4. QED
    BY <1>1, <2>1, <2>2, <2>3 DEF PanelInv
<1>5. QED
  BY <1>1, <1>2, <1>3, <1>4

LEMMA ClosePanel ==
  ASSUME TypeInv, NEW a \in Actors, Close(a)
  PROVE  PanelInv'
<1>1. CASE a = Main
  <2>1. pc'[Main] \in Closing \cup {"start", "gone"}
    BY <1>1, Names DEF Close, Clears, AfterClose, GoesTo, TypeInv, Closing
  <2>2. QED
    BY <2>1 DEF PanelInv, RefreshDue
<1>2. CASE a # Main
  <2>1. a \in Threads /\ pc'[a] \in Closing \cup {"postDisconnected"}
    BY <1>2, Names DEF Close, Clears, AfterClose, GoesTo, TypeInv, Closing
  <2>2. QED
    BY <2>1 DEF PanelInv, RefreshDue, Running, Working
<1>3. QED
  BY <1>1, <1>2

LEMMA ThreadPanel ==
  ASSUME TypeInv, NEW t \in Threads, Open(t) \/ Store(t) \/ Outcome(t) \/ Post(t)
  PROVE  PanelInv'
<1>1. CASE Open(t) \/ Store(t) \/ Outcome(t)
  <2>1. pc'[t] \in Storing \cup {"outcome", "postConnected", "postDisconnected"}
    BY <1>1, Names DEF Open, Store, Outcome, GoesTo, TypeInv, Storing
  <2>2. QED
    BY <2>1 DEF PanelInv, RefreshDue, Running, Working
<1>2. CASE Post(t) /\ pc[t] # "postRefresh"
  <2>1. pc'[t] \in {"open", "postRefresh"}
    BY <1>2, Names, Posted DEF GoesTo, TypeInv
  <2>2. QED
    BY <2>1 DEF PanelInv, RefreshDue, Running, Working
<1>3. CASE Post(t) /\ pc[t] = "postRefresh"
  <2>1. queue \in Seq(Callbacks) /\ queue' = Append(queue, "refresh")
    BY <1>3, Posted DEF TypeInv, SharedOK
  <2>2. Len(queue) + 1 \in 1 .. Len(queue') /\ queue'[Len(queue) + 1] = "refresh"
    BY <2>1, Scheduled DEF Callbacks
  <2>3. QED
    BY <2>2 DEF PanelInv, RefreshDue
<1>4. QED
  BY <1>1, <1>2, <1>3

LEMMA NextPanel == TypeInv /\ PanelInv /\ [ConnNext]_connVars => PanelInv'
<1> SUFFICES ASSUME TypeInv, PanelInv, [ConnNext]_connVars PROVE PanelInv'
  OBVIOUS
<1>1. CASE \E what \in Modes \cup {"quit"} : ClickAndClose(what)
  BY <1>1, ClickPanel
<1>2. CASE ClickDisconnect
  BY <1>2, StartPanel
<1>3. CASE MainStep
  BY <1>3, StartPanel, CallbackPanel, RefreshPanel, DetailsPanel, ClosePanel, Names
    DEF MainStep
<1>4. CASE \E t \in Threads : ThreadStep(t)
  BY <1>4, ClosePanel, ThreadPanel, Names DEF ThreadStep
<1>5. CASE UNCHANGED connVars
  BY <1>5 DEF connVars, PanelInv, RefreshDue, Running
<1>6. QED
  BY <1>1, <1>2, <1>3, <1>4, <1>5 DEF ConnNext

LEMMA PanelAtRest == TypeInv /\ PanelInv => PanelSettles
<1> SUFFICES ASSUME TypeInv, PanelInv, Quiet
             PROVE  panel = IF conn.connected THEN Panel(TRUE, conn.mode, conn.target)
                                              ELSE Panel(FALSE, "", None)
  BY DEF PanelSettles
<1>1. ~RefreshDue /\ pc[Main] = "idle"
  BY DEF Quiet, RefreshDue, Closing
<1>2. QED
  BY <1>1 DEF PanelInv

\* Once everything has come to rest the panel shows what CONN says, although
\* it is read attribute by attribute while threads write
\* (_refresh_status_panel).
THEOREM PanelIsCurrent == ConnSpec => []PanelSettles
<1>1. ConnInit => TypeInv /\ PanelInv
  BY InitTypes, InitPanel
<1>2. TypeInv /\ PanelInv /\ [ConnNext]_connVars => (TypeInv /\ PanelInv)'
  BY NextTypes, NextPanel
<1>3. QED
  BY <1>1, <1>2, PanelAtRest, PTL DEF ConnSpec

----------------------------------------------------------------------------
(* The buttons *)

LEMMA InitButtons == ConnInit => ButtonsInv
<1> SUFFICES ASSUME ConnInit PROVE ButtonsInv
  OBVIOUS
<1>1. buttons.connect /\ ~buttons.disconnect /\ Len(queue) = 0
  BY DEF ConnInit
<1>2. QED
  BY <1>1 DEF ButtonsInv

\* A step that leaves the buttons and the queue alone, while a thread will end.
LEMMA ButtonsKept ==
  ASSUME ButtonsInv, UNCHANGED <<buttons, queue>>, EndDue => EndDue'
  PROVE  ButtonsInv'
BY DEF ButtonsInv, EndAfter

\* Where the threads are left alone.
LEMMA SameThreads ==
  ASSUME \A t \in Threads : pc'[t] = pc[t]
  PROVE  Running' = Running /\ (EndDue <=> EndDue')
<1>1. Running' = Running
  BY DEF Running
<1>2. \A t \in Running : pc'[t] = pc[t]
  BY DEF Running
<1>3. QED
  BY <1>1, <1>2 DEF EndDue

LEMMA MainButtons ==
  ASSUME TypeInv, ButtonsInv,
         \/ \E what \in Modes \cup {"quit"} : ClickAndClose(what)
         \/ RefreshDetails
         \/ Close(Main)
  PROVE  ButtonsInv'
<1>1. UNCHANGED <<buttons, queue>> /\ \A t \in Threads : pc'[t] = pc[t]
  BY Names DEF ClickAndClose, RefreshDetails, Close, Clears, GoesTo, TypeInv
<1>2. QED
  BY <1>1, SameThreads, ButtonsKept

\* A thread goes on to work that ends with a callback.
LEMMA WorkButtons ==
  ASSUME TypeInv, ButtonsInv,
         \/ StartConnect \/ ClickDisconnect
         \/ \E t \in Threads : Close(t) \/ Open(t) \/ Store(t) \/ Outcome(t)
  PROVE  ButtonsInv' /\ EndDue'
<1>1. UNCHANGED <<buttons, queue>>
  BY DEF StartConnect, ClickDisconnect, Close, Open, Store, Outcome
<1>2. \E t \in Threads : pc'[t] \in Working /\ pc'[t] # "postRefresh"
  <2>1. CASE StartConnect \/ ClickDisconnect
    BY <2>1, Names DEF StartConnect, ClickDisconnect, GoesTo, TypeInv, Working, Closing
  <2>2. CASE \E t \in Threads : Close(t) \/ Open(t) \/ Store(t) \/ Outcome(t)
    <3>1. PICK t \in Threads : Close(t) \/ Open(t) \/ Store(t) \/ Outcome(t)
      BY <2>2
    <3>2. CASE Close(t)
      BY <3>2, Names DEF Close, Clears, AfterClose, GoesTo, TypeInv, Working, Closing
    <3>3. CASE Open(t) \/ Store(t) \/ Outcome(t)
      BY <3>3, Names DEF Open, Store, Outcome, GoesTo, TypeInv, Working, Storing
    <3>4. QED
      BY <3>1, <3>2, <3>3
  <2>3. QED
    BY <2>1, <2>2
<1>3. EndDue'
  BY <1>2 DEF EndDue, Running
<1>4. QED
  BY <1>1, <1>3, ButtonsKept

\* The rest of the callbacks, after the first was taken.
LEMMA Rest ==
  ASSUME TypeInv, queue # <<>>, queue' = Tail(queue)
  PROVE  /\ Len(queue) \in Nat /\ Len(queue) > 0 /\ Len(queue') = Len(queue) - 1
         /\ \A i \in 1 .. Len(queue') :
              queue'[i] = queue[i + 1] /\ i + 1 \in 1 .. Len(queue)
         /\ \A i \in 1 .. Len(queue) :
              i # 1 => i - 1 \in 1 .. Len(queue') /\ queue'[i - 1] = queue[i]
<1>1. /\ Len(queue) \in Nat /\ Len(queue) > 0 /\ Len(queue') = Len(queue) - 1
      /\ \A i \in 1 .. Len(queue) - 1 : queue'[i] = queue[i + 1]
  BY Taken DEF TypeInv, SharedOK
<1> DEFINE length == Len(queue)
<1> DEFINE length2 == Len(queue')
<1>2. \A i \in 1 .. length2 : i + 1 \in 1 .. length
  <2> HIDE DEF length, length2
  <2> QED BY <1>1 DEF length, length2
<1>3. \A i \in 1 .. length : i # 1 => i - 1 \in 1 .. length2 /\ i - 1 \in Int /\ (i - 1) + 1 = i
  BY <1>1
<1>4. QED
  BY <1>1, <1>2, <1>3

LEMMA TakenButtons ==
  ASSUME TypeInv, ButtonsInv, UpdateButtons \/ RefreshStatus
  PROVE  ButtonsInv'
<1>1. /\ queue # <<>> /\ queue' = Tail(queue) /\ queue[1] \in Callbacks
      /\ \A t \in Threads : pc'[t] = pc[t]
      /\ \/ queue[1] = "refresh" /\ UNCHANGED buttons
         \/ queue[1] # "refresh" /\ buttons' = ButtonsAfter(queue[1])
  BY Names, Taken DEF UpdateButtons, RefreshStatus, TakesCallback, TypeInv, SharedOK, GoesTo
<1>2. EndDue <=> EndDue'
  BY <1>1, SameThreads
<1>3. \A i \in 0 .. Len(queue') : EndAfter(i + 1) => EndAfter(i)'
  <2>1. SUFFICES ASSUME NEW i \in 0 .. Len(queue'), EndAfter(i + 1), ~EndDue
                 PROVE  EndAfter(i)'
    BY <1>2 DEF EndAfter
  <2>2. PICK j \in 1 .. Len(queue) : i + 1 < j /\ queue[j] \in Ends
    BY <2>1 DEF EndAfter
  <2>3. i < j - 1 /\ j # 1
    BY <2>2
  <2>4. j - 1 \in 1 .. Len(queue') /\ queue'[j - 1] \in Ends
    BY <1>1, <2>2, <2>3, Rest
  <2>5. QED
    BY <2>3, <2>4 DEF EndAfter
<1>4. \A i \in 1 .. Len(queue') : queue'[i] = "connecting" => EndAfter(i)'
  <2>1. SUFFICES ASSUME NEW i \in 1 .. Len(queue'), queue'[i] = "connecting"
                 PROVE  EndAfter(i)'
    OBVIOUS
  <2>2. i + 1 \in 1 .. Len(queue) /\ queue[i + 1] = "connecting"
    BY <1>1, <2>1, Rest
  <2>3. EndAfter(i + 1)
    BY <2>2 DEF ButtonsInv
  <2>4. QED
    BY <1>3, <2>3
<1>5. buttons \in Buttons /\ 0 \in 0 .. Len(queue') /\ 1 \in 1 .. Len(queue)
  BY <1>1, Rest DEF TypeInv, SharedOK
<1>6. CASE queue[1] = "connecting"
  <2>1. ~buttons'.connect
    BY <1>1, <1>5, <1>6 DEF ButtonsAfter, Buttons
  <2>2. EndAfter(0 + 1)
    BY <1>5, <1>6 DEF ButtonsInv
  <2>3. EndAfter(0)'
    BY <1>3, <1>5, <2>2
  <2>4. QED
    BY <1>4, <2>1, <2>3 DEF ButtonsInv
<1>7. CASE queue[1] \in Ends
  <2>1. buttons' = [connect |-> queue[1] = "disconnected",
                    disconnect |-> queue[1] = "connected"]
    BY <1>1, <1>7 DEF ButtonsAfter, Ends
  <2>2. /\ buttons'.connect = (queue[1] = "disconnected")
        /\ buttons'.disconnect = (queue[1] = "connected")
    BY <2>1
  <2>3. QED
    BY <1>4, <1>7, <2>2 DEF ButtonsInv, Ends
<1>8. CASE queue[1] = "refresh"
  <2>1. ASSUME EndAfter(0) PROVE EndAfter(0 + 1)
    <3>1. CASE EndDue
      BY <3>1 DEF EndAfter
    <3>2. CASE ~EndDue
      <4>1. PICK j \in 1 .. Len(queue) : 0 < j /\ queue[j] \in Ends
        BY <2>1, <3>2 DEF EndAfter
      <4>2. 0 + 1 < j
        BY <1>8, <4>1 DEF Ends
      <4>3. QED
        BY <4>1, <4>2 DEF EndAfter
    <3>3. QED
      BY <3>1, <3>2
  <2>2. EndAfter(0) => EndAfter(0)'
    BY <1>3, <1>5, <2>1
  <2>3. QED
    BY <1>1, <1>4, <1>8, <2>2 DEF ButtonsInv
<1>9. QED
  BY <1>1, <1>6, <1>7, <1>8 DEF Callbacks, Ends

LEMMA PostedButtons ==
  ASSUME TypeInv, ButtonsInv, NEW t \in Threads, Post(t)
  PROVE  ButtonsInv'
<1>1. /\ queue \in Seq(Callbacks) /\ UNCHANGED buttons
      /\ \A s \in Threads \ {t} : pc'[s] = pc[s]
  BY Names, Posted DEF TypeInv, SharedOK, GoesTo
<1>2. CASE pc[t] = "announce"
  <2>1. pc'[t] = "open"
    BY <1>2, Names, Posted DEF GoesTo, TypeInv
  <2>2. EndDue'
    BY <2>1 DEF EndDue, Running, Working
  <2>3. QED
    BY <1>1, <2>2 DEF ButtonsInv, EndAfter
<1>3. CASE pc[t] # "announce"
  <2>1. PICK callback \in Ends \cup {"refresh"} :
          /\ queue' = Append(queue, callback)
          /\ callback = "refresh" => pc[t] = "postRefresh"
    BY <1>3, Posted DEF Ends
  <2>2. /\ Len(queue) \in Nat /\ Len(queue') = Len(queue) + 1
        /\ \A i \in 1 .. Len(queue) : queue'[i] = queue[i]
        /\ queue'[Len(queue) + 1] = callback
    <3>1. callback \in Callbacks
      BY DEF Callbacks, Ends
    <3>2. QED
      BY <1>1, <2>1, <3>1, Scheduled
  <2>3. callback = "refresh" => (EndDue => EndDue')
    BY <1>1, <2>1 DEF EndDue, Running
  <2>4. \A i \in 0 .. Len(queue) : EndAfter(i) => EndAfter(i)'
    <3>1. SUFFICES ASSUME NEW i \in 0 .. Len(queue), EndAfter(i) PROVE EndAfter(i)'
      OBVIOUS
    <3>2. CASE callback \in Ends
      <4>1. Len(queue) + 1 \in 1 .. Len(queue') /\ i < Len(queue) + 1
        BY <2>2
      <4>2. QED
        BY <2>2, <3>2, <4>1 DEF EndAfter
    <3>3. CASE callback = "refresh" /\ EndDue
      BY <2>3, <3>3 DEF EndAfter
    <3>4. CASE ~EndDue
      <4>1. PICK j \in 1 .. Len(queue) : i < j /\ queue[j] \in Ends
        BY <3>1, <3>4 DEF EndAfter
      <4>2. j \in 1 .. Len(queue') /\ queue'[j] \in Ends
        BY <2>2, <4>1
      <4>3. QED
        BY <4>1, <4>2 DEF EndAfter
    <3>5. QED
      BY <3>2, <3>3, <3>4
  <2>5. \A i \in 1 .. Len(queue') : queue'[i] = "connecting" => EndAfter(i)'
    <3>1. SUFFICES ASSUME NEW i \in 1 .. Len(queue'), queue'[i] = "connecting"
                   PROVE  EndAfter(i)'
      OBVIOUS
    <3>2. i \in 1 .. Len(queue) /\ queue[i] = "connecting" /\ i \in 0 .. Len(queue)
      BY <2>2, <3>1 DEF Ends
    <3>3. QED
      BY <2>4, <3>2 DEF ButtonsInv
  <2>6. 0 \in 0 .. Len(queue)
    BY <2>2
  <2>7. QED
    BY <1>1, <2>4, <2>5, <2>6 DEF ButtonsInv
<1>4. QED
  BY <1>2, <1>3

LEMMA NextButtons == TypeInv /\ ButtonsInv /\ [ConnNext]_connVars => ButtonsInv'
<1> SUFFICES ASSUME TypeInv, ButtonsInv, [ConnNext]_connVars PROVE ButtonsInv'
  OBVIOUS
<1>1. CASE \E what \in Modes \cup {"quit"} : ClickAndClose(what)
  BY <1>1, MainButtons
<1>2. CASE ClickDisconnect
  BY <1>2, WorkButtons
<1>3. CASE MainStep
  BY <1>3, MainButtons, WorkButtons, TakenButtons DEF MainStep
<1>4. CASE \E t \in Threads : ThreadStep(t)
  BY <1>4, WorkButtons, PostedButtons DEF ThreadStep
<1>5. CASE UNCHANGED connVars
  BY <1>5, SameThreads, ButtonsKept DEF connVars
<1>6. QED
  BY <1>1, <1>2, <1>3, <1>4, <1>5 DEF ConnNext

----------------------------------------------------------------------------
(* Operations that no other overlaps *)

LEMMA InitOrderly == ConnInit => OrderlyInv
<1> SUFFICES ASSUME ConnInit PROVE OrderlyInv
  OBVIOUS
<1>1. \A a \in Actors : pc[a] = "idle"
  BY DEF ConnInit, Actors
<1>2. Empty /\ Settled
  BY DEF ConnInit, Empty, Settled
<1>3. Running = {}
  BY <1>1, Names DEF Running, Working, Closing, Storing
<1>4. Alone
  BY <1>1, <1>3, Names DEF Alone, Closing
<1>5. \A a \in Actors : OrderlyAt(a)
  BY <1>1 DEF OrderlyAt
<1>6. QED
  BY <1>2, <1>4, <1>5 DEF OrderlyInv

LEMMA ClickOrderly ==
  ASSUME TypeInv, OrderlyInv, NEW what \in Modes \cup {"quit"}, ClickAndClose(what)
  PROVE  OrderlyInv'
<1> SUFFICES ASSUME ~overlapped' PROVE OrderlyInv'
  BY DEF OrderlyInv
<1>1. /\ pc[Main] = "idle" /\ Running = {} /\ ~overlapped /\ UNCHANGED conn
      /\ pc'[Main] = "closeSocket"
      /\ \A t \in Threads : pc'[t] = pc[t] /\ task'[t] = task[t]
  BY Names DEF ClickAndClose, GoesTo, TypeInv
<1>2. Settled'
  <2>1. Settled
    BY <1>1 DEF OrderlyInv, AtRest
  <2>2. QED
    BY <1>1, <2>1 DEF Settled, Empty, HoldsOnly
<1>3. Running' = {}
  BY <1>1, SameThreads
<1>4. Alone'
  BY <1>3 DEF Alone
<1>5. \A a \in Actors : OrderlyAt(a)'
  <2>1. \A t \in Threads : pc'[t] \notin Working /\ pc'[t] # "start"
    <3>1. \A t \in Threads : pc[t] \in {"idle", "done"}
      BY <1>1 DEF Running, TypeInv, PlacesOK
    <3>2. QED
      BY <1>1, <3>1 DEF Working, Closing, Storing
  <2>2. OrderlyAt(Main)'
    BY <1>1, <1>2 DEF OrderlyAt
  <2>3. \A t \in Threads : OrderlyAt(t)'
    BY <2>1 DEF OrderlyAt, Working, Closing, Storing
  <2>4. QED
    BY <2>2, <2>3, Names
<1>6. ~AtRest'
  BY <1>1 DEF AtRest
<1>7. QED
  BY <1>4, <1>5, <1>6 DEF OrderlyInv

LEMMA StartOrderly ==
  ASSUME TypeInv, OrderlyInv, StartConnect \/ ClickDisconnect
  PROVE  OrderlyInv'
<1> SUFFICES ASSUME ~overlapped' PROVE OrderlyInv'
  BY DEF OrderlyInv
<1>1. /\ ~overlapped /\ UNCHANGED conn /\ Running = {}
      /\ StartConnect => Empty
      /\ ClickDisconnect => Settled
  <2>1. CASE StartConnect
    BY <2>1, Names DEF StartConnect, ClickDisconnect, OrderlyInv, Alone, OrderlyAt
  <2>2. CASE ClickDisconnect
    BY <2>2 DEF StartConnect, ClickDisconnect, OrderlyInv, AtRest
  <2>3. QED
    BY <2>1, <2>2
<1>2. PICK t \in Threads :
        /\ Fresh(t) /\ pc'[Main] = "idle"
        /\ \/ StartConnect /\ pc'[t] = "announce"
           \/ ClickDisconnect /\ pc'[t] = "closeSocket"
        /\ \A s \in Threads \ {t} : pc'[s] = pc[s] /\ task'[s] = task[s]
  <2>1. CASE StartConnect
    BY <2>1, Names DEF StartConnect, TypeInv
  <2>2. CASE ClickDisconnect
    BY <2>2, Names DEF ClickDisconnect, GoesTo, MayStart, TypeInv
  <2>3. QED
    BY <2>1, <2>2
<1>3. Running' = {t}
  BY <1>1, <1>2 DEF Running, Working, Closing
<1>4. Alone'
  BY <1>2, <1>3 DEF Alone, Closing
<1>5. OrderlyAt(t)'
  <2>1. CASE StartConnect /\ pc'[t] = "announce"
    BY <1>1, <2>1 DEF OrderlyAt, Empty
  <2>2. CASE ClickDisconnect /\ pc'[t] = "closeSocket"
    <3>1. Settled'
      <4>1. task[t] \notin Modes
        BY <1>2 DEF Fresh, Modes
      <4>2. QED
        BY <1>1, <1>2, <2>2, <4>1 DEF Settled, Empty, HoldsOnly
    <3>2. QED
      BY <2>2, <3>1 DEF OrderlyAt
  <2>3. QED
    BY <1>2, <2>1, <2>2
<1>6. \A a \in Actors \ {t} : OrderlyAt(a)'
  <2>1. \A s \in Threads \ {t} : pc'[s] \in {"idle", "done"}
    BY <1>1, <1>2 DEF Running, TypeInv, PlacesOK
  <2>2. \A a \in Actors \ {t} : pc'[a] \in {"idle", "done"}
    BY <1>2, <2>1, Names
  <2>3. QED
    BY <2>2 DEF OrderlyAt
<1>7. ~AtRest'
  BY <1>3 DEF AtRest
<1>8. QED
  BY <1>4, <1>5, <1>6, <1>7 DEF OrderlyInv

LEMMA MainOrderly ==
  ASSUME TypeInv, OrderlyInv, UpdateButtons \/ RefreshStatus \/ RefreshDetails
  PROVE  OrderlyInv'
<1> SUFFICES ASSUME ~overlapped' PROVE OrderlyInv'
  BY DEF OrderlyInv
<1>1. /\ ~overlapped /\ UNCHANGED <<conn, task>>
      /\ pc[Main] \in {"idle", "showMode", "showTarget"}
      /\ pc'[Main] \in {"idle", "showMode", "showTarget"}
      /\ \A t \in Threads : pc'[t] = pc[t]
  <2>1. CASE UpdateButtons
    BY <2>1 DEF UpdateButtons, TakesCallback
  <2>2. CASE RefreshStatus
    BY <2>2, Names DEF RefreshStatus, TakesCallback, GoesTo, TypeInv
  <2>3. CASE RefreshDetails
    BY <2>3, Names DEF RefreshDetails, GoesTo, TypeInv
  <2>4. QED
    BY <2>1, <2>2, <2>3
<1>2. Running' = Running
  BY <1>1, SameThreads
<1>3. Alone'
  BY <1>1, <1>2 DEF OrderlyInv, Alone, Closing
<1>4. Settled => Settled'
  BY <1>1 DEF Settled, Empty, HoldsOnly
<1>5. \A a \in Actors : OrderlyAt(a)'
  <2>1. OrderlyAt(Main)'
    BY <1>1 DEF OrderlyAt
  <2>2. ASSUME NEW t \in Threads PROVE OrderlyAt(t)'
    <3>1. OrderlyAt(t) /\ pc'[t] = pc[t]
      BY <1>1, Names DEF OrderlyInv
    <3>2. QED
      BY <1>1, <1>4, <3>1 DEF OrderlyAt, Empty, HoldsOnly
  <2>3. QED
    BY <2>1, <2>2, Names
<1>6. AtRest' => Settled'
  BY <1>1, <1>2, <1>4 DEF OrderlyInv, AtRest
<1>7. QED
  BY <1>3, <1>5, <1>6 DEF OrderlyInv

\* A step of the only one at work.
LEMMA OrderlyStep ==
  ASSUME TypeInv, OrderlyInv, ~overlapped, UNCHANGED overlapped,
         NEW a \in Actors, pc[a] \in Working,
         a = Main => pc[a] \in Closing /\ pc'[a] \in Closing \cup {"start", "gone"},
         \A b \in Actors \ {a} : pc'[b] = pc[b],
         OrderlyAt(a)',
         a \in Threads /\ pc'[a] \notin Working => Settled'
  PROVE  OrderlyInv'
<1>1. Alone
  BY DEF OrderlyInv
<1>2. \A t \in Threads \ {a} : pc[t] \notin Working
  <2>1. CASE a = Main
    BY <1>1, <2>1 DEF Alone, Running
  <2>2. CASE a # Main
    BY <1>1, <2>2, Names DEF Alone, Running
  <2>3. QED
    BY <2>1, <2>2
<1>3. Running' \subseteq {a} /\ Main \notin Running'
  BY <1>2, Names DEF Running
<1>4. a # Main => pc'[Main] = pc[Main] /\ pc[Main] \notin Closing \cup {"start"}
  BY <1>1, Names DEF Alone, Running
<1>5. Alone'
  BY <1>3, <1>4 DEF Alone
<1>6. ASSUME NEW b \in Actors \ {a} PROVE OrderlyAt(b)'
  <2>1. pc'[b] \notin Working \cup {"start"}
    <3>1. CASE b = Main
      BY <1>4, <3>1 DEF TypeInv, PlacesOK, Working, Closing, Storing
    <3>2. CASE b # Main
      <4>1. b \in Threads /\ pc'[b] = pc[b]
        BY <3>2, Names
      <4>2. pc[b] \in {"idle", "done"}
        BY <1>2, <4>1 DEF TypeInv, PlacesOK
      <4>3. QED
        BY <4>1, <4>2 DEF Working, Closing, Storing
    <3>3. QED
      BY <3>1, <3>2
  <2>2. QED
    BY <2>1 DEF OrderlyAt, Working, Closing, Storing
<1>7. AtRest' => Settled'
  <2>1. CASE a = Main
    BY <2>1 DEF AtRest, Closing
  <2>2. CASE a # Main
    BY <2>2, Names DEF AtRest, Running
  <2>3. QED
    BY <2>1, <2>2
<1>8. QED
  BY <1>5, <1>6, <1>7 DEF OrderlyInv

LEMMA CloseOrderly ==
  ASSUME TypeInv, OrderlyInv, NEW a \in Actors, Close(a)
  PROVE  OrderlyInv'
<1> SUFFICES ASSUME ~overlapped' PROVE OrderlyInv'
  BY DEF OrderlyInv
<1>1. /\ ~overlapped /\ UNCHANGED <<task, overlapped>> /\ pc[a] \in Closing
      /\ \A b \in Actors \ {a} : pc'[b] = pc[b]
      /\ pc'[a] \in (Closing \ {"closeSocket"}) \cup {"start", "gone", "postDisconnected"}
      /\ a = Main => pc'[a] # "postDisconnected"
      /\ a # Main => pc'[a] \notin {"start", "gone"}
  BY DEF Close, Clears, AfterClose, GoesTo, TypeInv, Closing
<1>2. OrderlyAt(a) /\ conn \in Conns
  BY <1>1 DEF OrderlyInv, TypeInv, SharedOK
<1>3. OrderlyAt(a)'
  <2>1. CASE pc[a] = "closeSocket"
    BY <2>1 DEF Close, Clears, GoesTo, TypeInv, OrderlyAt
  <2>2. CASE pc[a] = "closeSerial"
    BY <2>2 DEF Close, Clears, GoesTo, TypeInv, OrderlyAt
  <2>3. CASE pc[a] = "clearSocket"
    <3>1. pc'[a] = "clearSerial" /\ conn' = [conn EXCEPT !._socket = None]
      BY <2>3 DEF Close, Clears, GoesTo, TypeInv
    <3>2. conn'._socket = None
      BY <1>2, <3>1 DEF Conns
    <3>3. QED
      BY <3>1, <3>2 DEF OrderlyAt
  <2>4. CASE pc[a] = "clearSerial"
    <3>1. pc'[a] = "clearFlag" /\ conn' = [conn EXCEPT !._serial = None]
      BY <2>4 DEF Close, Clears, GoesTo, TypeInv
    <3>2. conn'._socket = None /\ conn'._serial = None
      BY <1>2, <2>4, <3>1 DEF Conns, OrderlyAt
    <3>3. QED
      BY <3>1, <3>2 DEF OrderlyAt
  <2>5. CASE pc[a] = "clearFlag"
    <3>1. pc'[a] \in {"start", "gone", "postDisconnected"}
      BY <2>5 DEF Close, Clears, AfterClose, GoesTo, TypeInv
    <3>2. conn' = [conn EXCEPT !.connected = FALSE]
      BY <2>5 DEF Close, Clears
    <3>3. conn'._socket = None /\ conn'._serial = None /\ ~conn'.connected
      BY <1>2, <2>5, <3>2 DEF Conns, OrderlyAt
    <3>4. Empty' /\ Settled'
      BY <3>3 DEF Empty, Settled
    <3>5. QED
      BY <3>1, <3>3, <3>4 DEF OrderlyAt
  <2>6. QED
    BY <1>1, <2>1, <2>2, <2>3, <2>4, <2>5 DEF Closing
<1>4. pc[a] \in Working /\ (a # Main => pc'[a] \in Working)
  BY <1>1 DEF Working
<1>5. a = Main => pc'[a] \in Closing \cup {"start", "gone"}
  BY <1>1
<1>6. a \in Threads => a # Main
  BY Names
<1>7. QED
  BY <1>1, <1>3, <1>4, <1>5, <1>6, OrderlyStep

LEMMA ThreadOrderly ==
  ASSUME TypeInv, OrderlyInv, NEW t \in Threads, Open(t) \/ Outcome(t) \/ Post(t)
  PROVE  OrderlyInv'
<1> SUFFICES ASSUME ~overlapped' PROVE OrderlyInv'
  BY DEF OrderlyInv
<1>1. /\ ~overlapped /\ UNCHANGED <<conn, task, overlapped>> /\ pc[t] \in Working
      /\ t \in Actors /\ t # Main
      /\ \A b \in Actors \ {t} : pc'[b] = pc[b]
  <2>1. CASE Open(t) \/ Outcome(t)
    BY <2>1, Names DEF Open, Outcome, GoesTo, TypeInv, Working, Storing
  <2>2. CASE Post(t)
    BY <2>2, Names, Posted DEF GoesTo, TypeInv, Working
  <2>3. QED
    BY <2>1, <2>2
<1>2. OrderlyAt(t)
  BY <1>1 DEF OrderlyInv
<1>3. /\ Empty => Empty' /\ Settled'
      /\ Settled => Settled'
  BY <1>1 DEF Settled, Empty, HoldsOnly
<1>4. OrderlyAt(t)' /\ (pc'[t] \notin Working => Settled')
  <2>1. CASE Open(t)
    <3>1. pc[t] = "open" /\ pc'[t] \in {"storeHandle", "outcome"}
      BY <2>1, <1>1 DEF Open, GoesTo, TypeInv
    <3>2. QED
      BY <1>2, <1>3, <3>1 DEF OrderlyAt
  <2>2. CASE Outcome(t)
    <3>1. /\ pc[t] = "outcome" /\ pc'[t] \in {"postConnected", "postDisconnected"}
          /\ pc'[t] = "postConnected" => conn'.connected
          /\ pc'[t] = "postDisconnected" => ~conn'.connected
      BY <2>2, <1>1 DEF Outcome, GoesTo, TypeInv
    <3>2. Settled'
      BY <1>2, <1>3, <3>1 DEF OrderlyAt
    <3>3. QED
      BY <3>1, <3>2 DEF OrderlyAt
  <2>3. CASE Post(t)
    <3>1. \/ pc[t] = "announce" /\ pc'[t] = "open"
          \/ pc[t] \in {"postConnected", "postDisconnected"} /\ pc'[t] = "postRefresh"
          \/ pc[t] = "postRefresh" /\ pc'[t] = "done"
      BY <2>3, <1>1, Posted DEF GoesTo, TypeInv
    <3>2. QED
      BY <1>2, <1>3, <3>1 DEF OrderlyAt, Working
  <2>4. QED
    BY <2>1, <2>2, <2>3
<1>5. QED
  BY <1>1, <1>4, OrderlyStep

LEMMA StoreOrderly ==
  ASSUME TypeInv, OrderlyInv, NEW t \in Threads, Store(t)
  PROVE  OrderlyInv'
<1> SUFFICES ASSUME ~overlapped' PROVE OrderlyInv'
  BY DEF OrderlyInv
<1>1. /\ ~overlapped /\ UNCHANGED <<task, overlapped>>
      /\ pc[t] \in Storing /\ pc[t] \in Working
      /\ t \in Actors /\ t # Main
      /\ \A b \in Actors \ {t} : pc'[b] = pc[b]
  BY Names DEF Store, GoesTo, TypeInv, Working, Storing
<1>2. OrderlyAt(t) /\ conn \in Conns /\ task[t] \in Modes
  BY <1>1 DEF OrderlyInv, TypeInv, TasksFit, SharedOK
<1>3. OrderlyAt(t)' /\ pc'[t] \in Working
  <2>1. CASE pc[t] = "storeHandle"
    <3>1. pc'[t] = "storeFlag" /\ StoreHandle(t) /\ Empty
      BY <1>2, <2>1, Names DEF Store, GoesTo, TypeInv, OrderlyAt
    <3>2. HoldsOnly(t)'
      BY <1>1, <1>2, <3>1 DEF StoreHandle, Conns, Empty, HoldsOnly
    <3>3. QED
      BY <3>1, <3>2 DEF OrderlyAt, Working, Storing
  <2>2. CASE pc[t] = "storeFlag"
    <3>1. pc'[t] = "storeMode" /\ conn' = [conn EXCEPT !.connected = TRUE] /\ HoldsOnly(t)
      BY <1>2, <2>2, Names DEF Store, GoesTo, TypeInv, OrderlyAt
    <3>2. /\ conn'.connected /\ conn'._socket = conn._socket
          /\ conn'._serial = conn._serial
      BY <1>2, <3>1 DEF Conns
    <3>3. HoldsOnly(t)'
      BY <1>1, <3>1, <3>2 DEF HoldsOnly
    <3>4. QED
      BY <3>1, <3>2, <3>3 DEF OrderlyAt, Working, Storing
  <2>3. CASE pc[t] = "storeMode"
    <3>1. pc'[t] = "storeTarget" /\ conn' = [conn EXCEPT !.mode = task[t]] /\ HoldsOnly(t)
      BY <1>2, <2>3, Names DEF Store, GoesTo, TypeInv, OrderlyAt
    <3>2. /\ conn'.connected = conn.connected /\ conn'._socket = conn._socket
          /\ conn'._serial = conn._serial /\ conn'.mode = task[t]
      BY <1>2, <3>1 DEF Conns
    <3>3. HoldsOnly(t)' /\ conn'.connected
      BY <1>1, <1>2, <2>3, <3>1, <3>2 DEF HoldsOnly, OrderlyAt
    <3>4. QED
      BY <1>1, <3>1, <3>2, <3>3 DEF OrderlyAt, Working, Storing
  <2>4. CASE pc[t] = "storeTarget"
    <3>1. pc'[t] = "outcome" /\ conn' = [conn EXCEPT !.target = t] /\ HoldsOnly(t)
      BY <1>2, <2>4, Names DEF Store, GoesTo, TypeInv, OrderlyAt
    <3>2. /\ conn'.connected = conn.connected /\ conn'._socket = conn._socket
          /\ conn'._serial = conn._serial /\ conn'.mode = conn.mode /\ conn'.target = t
      BY <1>2, <3>1 DEF Conns
    <3>3. Settled'
      BY <1>1, <1>2, <2>4, <3>1, <3>2 DEF HoldsOnly, OrderlyAt, Settled
    <3>4. QED
      BY <3>1, <3>3 DEF OrderlyAt, Working, Storing
  <2>5. QED
    BY <1>1, <2>1, <2>2, <2>3, <2>4 DEF Storing
<1>4. QED
  BY <1>1, <1>3, OrderlyStep

LEMMA NextOrderly == TypeInv /\ OrderlyInv /\ [ConnNext]_connVars => OrderlyInv'
<1> SUFFICES ASSUME TypeInv, OrderlyInv, [ConnNext]_connVars PROVE OrderlyInv'
  OBVIOUS
<1>1. CASE \E what \in Modes \cup {"quit"} : ClickAndClose(what)
  BY <1>1, ClickOrderly
<1>2. CASE ClickDisconnect
  BY <1>2, StartOrderly
<1>3. CASE MainStep
  BY <1>3, StartOrderly, MainOrderly, CloseOrderly, Names DEF MainStep
<1>4. CASE \E t \in Threads : ThreadStep(t)
  BY <1>4, CloseOrderly, ThreadOrderly, StoreOrderly, Names DEF ThreadStep
<1>5. CASE UNCHANGED connVars
  BY <1>5 DEF connVars, OrderlyInv, Alone, OrderlyAt, Settled, Empty, HoldsOnly,
              AtRest, Running
<1>6. QED
  BY <1>1, <1>2, <1>3, <1>4, <1>5 DEF ConnNext

LEMMA OrderlyAtRest == OrderlyInv /\ HandlesAreOpen => OrderlyConnection
<1> SUFFICES ASSUME OrderlyInv, HandlesAreOpen, AtRest, ~overlapped
             PROVE  /\ conn.connected <=> Handles # {}
                    /\ conn.connected => /\ Handles = {conn.target}
                                         /\ conn.target \notin closed
                                         /\ conn.mode = task[conn.target]
  BY DEF OrderlyConnection
<1>1. Settled /\ Handles \cap closed = {}
  BY DEF OrderlyInv, HandlesAreOpen
<1>2. CASE Empty
  BY <1>2 DEF Empty, Handles
<1>3. CASE /\ conn.connected /\ HoldsOnly(conn.target)
           /\ conn.mode = task[conn.target]
  <2>1. Handles = {conn.target}
    BY <1>3, Names DEF HoldsOnly, Handles
  <2>2. QED
    BY <1>1, <1>3, <2>1
<1>4. QED
  BY <1>1, <1>2, <1>3 DEF Settled

\* As long as no operation began while another was running, CONN is connected
\* exactly when it holds a transport, open and of the mode and the target it
\* names (connect_wifi, connect_serial, disconnect).
THEOREM ConnectionIsOrderly == ConnSpec => []OrderlyConnection
<1>1. ConnInit => TypeInv /\ OrderlyInv
  BY InitTypes, InitOrderly
<1>2. TypeInv /\ OrderlyInv /\ [ConnNext]_connVars => (TypeInv /\ OrderlyInv)'
  BY NextTypes, NextOrderly
<1>3. QED
  BY <1>1, <1>2, NoClosedHandles, OrderlyAtRest, PTL DEF ConnSpec

----------------------------------------------------------------------------
(* The buttons, if no operation overlaps another *)

LEMMA InitAnnounced == ConnInit => Announced
<1> SUFFICES ASSUME ConnInit PROVE Announced
  OBVIOUS
<1>1. Len(queue) = 0 /\ ~buttons.disconnect /\ ~conn.connected
  BY DEF ConnInit
<1>2. QED
  BY <1>1 DEF Announced, Told

LEMMA MainAnnounced ==
  ASSUME TypeInv, Announced,
         \/ \E what \in Modes \cup {"quit"} : ClickAndClose(what)
         \/ Close(Main)
  PROVE  Announced'
<1>1. CASE \E what \in Modes \cup {"quit"} : ClickAndClose(what)
  BY <1>1, Names DEF ClickAndClose, GoesTo, TypeInv, Announced, Closing
<1>2. CASE Close(Main)
  <2>1. pc'[Main] \in Closing \cup {"start", "gone"}
    BY <1>2, Names DEF Close, Clears, AfterClose, GoesTo, TypeInv, Closing
  <2>2. QED
    BY <2>1 DEF Announced
<1>3. QED
  BY <1>1, <1>2

LEMMA DetailsAnnounced ==
  ASSUME TypeInv, Announced, RefreshDetails
  PROVE  Announced'
<1>1. /\ UNCHANGED <<conn, queue, buttons, overlapped>>
      /\ pc[Main] \in {"showMode", "showTarget"}
      /\ \A t \in Threads : pc'[t] = pc[t]
  BY Names DEF RefreshDetails, GoesTo, TypeInv
<1>2. EndDue <=> EndDue'
  BY <1>1, SameThreads
<1>3. ~overlapped /\ ~EndDue => Told
  BY <1>1 DEF Announced, Closing
<1>4. Told => Told'
  BY <1>1 DEF Told, LastEnd
<1>5. QED
  BY <1>1, <1>2, <1>3, <1>4 DEF Announced

\* Of the callbacks that are left, the last for the buttons was the last before.
LEMMA LastOfRest ==
  ASSUME TypeInv, queue # <<>>, queue' = Tail(queue), NEW i \in 1 .. Len(queue'),
         LastEnd(i)'
  PROVE  i + 1 \in 1 .. Len(queue) /\ LastEnd(i + 1) /\ queue'[i] = queue[i + 1]
<1>1. i + 1 \in 1 .. Len(queue) /\ queue'[i] = queue[i + 1] /\ Len(queue) \in Nat
      /\ Len(queue') = Len(queue) - 1
  BY Rest
<1>2. ASSUME NEW j \in (i + 1) + 1 .. Len(queue) PROVE queue[j] \notin Ends
  <2>1. j \in 1 .. Len(queue) /\ j # 1 /\ j - 1 \in i + 1 .. Len(queue')
    BY <1>1
  <2>2. queue'[j - 1] = queue[j]
    BY <2>1, Rest
  <2>3. QED
    BY <2>1, <2>2 DEF LastEnd
<1>3. QED
  BY <1>1, <1>2 DEF LastEnd

LEMMA TakenAnnounced ==
  ASSUME TypeInv, ButtonsInv, Announced, UpdateButtons \/ RefreshStatus
  PROVE  Announced'
<1> SUFFICES ASSUME ~overlapped', ~EndDue' PROVE Told'
  BY DEF Announced
<1>1. /\ queue # <<>> /\ queue' = Tail(queue) /\ queue[1] \in Callbacks
      /\ UNCHANGED <<conn, overlapped>> /\ pc[Main] = "idle"
      /\ \A t \in Threads : pc'[t] = pc[t]
  BY Names, Taken DEF UpdateButtons, RefreshStatus, TakesCallback, TypeInv, SharedOK, GoesTo
<1>2. \/ queue[1] = "refresh" /\ UNCHANGED buttons
      \/ queue[1] # "refresh" /\ buttons' = ButtonsAfter(queue[1])
  BY <1>1, Taken DEF UpdateButtons, RefreshStatus, TakesCallback, TypeInv, SharedOK
<1>3. ~EndDue /\ Told
  <2>1. ~EndDue
    BY <1>1, SameThreads
  <2>2. QED
    BY <1>1, <2>1 DEF Announced, Closing
<1>4. CASE \E i \in 1 .. Len(queue') : queue'[i] \in Ends
  <2>1. \E i \in 1 .. Len(queue) : queue[i] \in Ends
    BY <1>1, <1>4, Rest
  <2>2. ASSUME NEW i \in 1 .. Len(queue'), LastEnd(i)'
        PROVE  queue'[i] = "connected" <=> conn'.connected
    <3>1. i + 1 \in 1 .. Len(queue) /\ LastEnd(i + 1) /\ queue'[i] = queue[i + 1]
      BY <1>1, <2>2, LastOfRest
    <3>2. queue[i + 1] = "connected" <=> conn.connected
      BY <1>3, <2>1, <3>1 DEF Told
    <3>3. QED
      BY <1>1, <3>1, <3>2
  <2>3. QED
    BY <1>4, <2>2 DEF Told
<1>5. CASE ~\E i \in 1 .. Len(queue') : queue'[i] \in Ends
  <2>1. 1 \in 1 .. Len(queue) /\ \A i \in 1 .. Len(queue) : i # 1 => queue[i] \notin Ends
    <3>1. 1 \in 1 .. Len(queue)
      BY <1>1, Rest
    <3>2. ASSUME NEW i \in 1 .. Len(queue), i # 1 PROVE queue[i] \notin Ends
      <4>1. i - 1 \in 1 .. Len(queue') /\ queue'[i - 1] = queue[i]
        BY <1>1, <3>2, Rest
      <4>2. QED
        BY <1>5, <4>1
    <3>3. QED
      BY <3>1, <3>2
  <2>2. queue[1] # "connecting"
    <3>1. ~EndAfter(1)
      BY <1>3, <2>1 DEF EndAfter
    <3>2. QED
      BY <2>1, <3>1 DEF ButtonsInv
  <2>3. CASE queue[1] = "refresh"
    <3>1. ~\E i \in 1 .. Len(queue) : queue[i] \in Ends
      BY <2>1, <2>3 DEF Ends
    <3>2. buttons.disconnect <=> conn.connected
      BY <1>3, <3>1 DEF Told
    <3>3. buttons' = buttons /\ conn' = conn
      BY <1>1, <1>2, <2>3
    <3>4. QED
      BY <1>5, <3>2, <3>3 DEF Told
  <2>4. CASE queue[1] \in Ends
    <3>1. LastEnd(1)
      BY <2>1, <2>4 DEF LastEnd
    <3>2. queue[1] = "connected" <=> conn.connected
      BY <1>3, <2>1, <2>4, <3>1 DEF Told
    <3>3. buttons' = [connect |-> queue[1] = "disconnected",
                      disconnect |-> queue[1] = "connected"]
      BY <1>2, <2>4 DEF ButtonsAfter, Ends
    <3>4. buttons'.disconnect = (queue[1] = "connected")
      BY <3>3
    <3>5. QED
      BY <1>1, <1>5, <3>2, <3>4 DEF Told
  <2>5. QED
    BY <1>1, <2>2, <2>3, <2>4 DEF Callbacks, Ends
<1>6. QED
  BY <1>4, <1>5

LEMMA PostedAnnounced ==
  ASSUME TypeInv, OrderlyInv, Announced, NEW t \in Threads, Post(t)
  PROVE  Announced'
<1> SUFFICES ASSUME ~overlapped', ~EndDue', pc'[Main] \notin Closing \cup {"start", "gone"}
             PROVE  Told'
  BY DEF Announced
<1>1. /\ UNCHANGED <<conn, buttons, overlapped>> /\ queue \in Seq(Callbacks)
      /\ \A a \in Actors \ {t} : pc'[a] = pc[a]
  BY Names, Posted DEF GoesTo, TypeInv, SharedOK
<1>2. pc[t] # "announce"
  <2>1. ASSUME pc[t] = "announce" PROVE pc'[t] = "open"
    BY <2>1, Names, Posted DEF GoesTo, TypeInv
  <2>2. QED
    BY <2>1 DEF EndDue, Running, Working
<1>3. PICK callback \in Ends \cup {"refresh"} :
        /\ queue' = Append(queue, callback)
        /\ callback = "connected" => pc[t] = "postConnected"
        /\ callback = "disconnected" => pc[t] = "postDisconnected"
        /\ callback = "refresh" => pc[t] = "postRefresh"
  BY <1>2, Posted DEF Ends
<1>4. /\ Len(queue) \in Nat /\ Len(queue') = Len(queue) + 1
      /\ \A i \in 1 .. Len(queue) : queue'[i] = queue[i]
      /\ queue'[Len(queue) + 1] = callback
  <2>1. callback \in Callbacks
    BY DEF Callbacks, Ends
  <2>2. QED
    BY <1>1, <1>3, <2>1, Scheduled
<1>5. CASE callback \in Ends
  <2>1. callback = "connected" <=> conn'.connected
    <3>1. OrderlyAt(t)
      BY <1>1, Names DEF OrderlyInv
    <3>2. QED
      BY <1>1, <1>3, <1>5, <3>1 DEF OrderlyAt, Ends
  <2>2. Len(queue) + 1 \in 1 .. Len(queue') /\ queue'[Len(queue) + 1] \in Ends
    BY <1>4, <1>5
  <2>3. ASSUME NEW i \in 1 .. Len(queue'), LastEnd(i)'
        PROVE  queue'[i] = "connected" <=> conn'.connected
    <3>1. i = Len(queue) + 1
      <4>1. ASSUME i # Len(queue) + 1 PROVE Len(queue) + 1 \in i + 1 .. Len(queue')
        BY <1>4, <4>1
      <4>2. QED
        BY <2>2, <2>3, <4>1 DEF LastEnd
    <3>2. QED
      BY <1>4, <2>1, <3>1
  <2>4. QED
    BY <2>2, <2>3 DEF Told
<1>6. CASE callback = "refresh"
  <2>1. Told
    <3>1. ~EndDue
      BY <1>1, <1>3, <1>6, Names DEF EndDue, Running
    <3>2. QED
      BY <1>1, <3>1, Names DEF Announced
  <2>2. \A i \in 1 .. Len(queue') : queue'[i] \in Ends => i \in 1 .. Len(queue)
    BY <1>4, <1>6 DEF Ends
  <2>3. \A i \in 1 .. Len(queue) : i \in 1 .. Len(queue')
    BY <1>4
  <2>4. CASE \E i \in 1 .. Len(queue) : queue[i] \in Ends
    <3>1. \E i \in 1 .. Len(queue') : queue'[i] \in Ends
      BY <1>4, <2>3, <2>4
    <3>2. ASSUME NEW i \in 1 .. Len(queue'), LastEnd(i)'
          PROVE  queue'[i] = "connected" <=> conn'.connected
      <4>1. i \in 1 .. Len(queue) /\ queue'[i] = queue[i]
        BY <1>4, <2>2, <3>2 DEF LastEnd
      <4>2. \A j \in i + 1 .. Len(queue) :
              j \in i + 1 .. Len(queue') /\ queue'[j] = queue[j]
        BY <1>4, <4>1
      <4>3. LastEnd(i)
        BY <3>2, <4>1, <4>2 DEF LastEnd
      <4>4. QED
        BY <1>1, <2>1, <2>4, <4>1, <4>3 DEF Told
    <3>3. QED
      BY <3>1, <3>2 DEF Told
  <2>5. CASE ~\E i \in 1 .. Len(queue) : queue[i] \in Ends
    <3>1. ~\E i \in 1 .. Len(queue') : queue'[i] \in Ends
      BY <1>4, <2>2, <2>5
    <3>2. QED
      BY <1>1, <2>1, <2>5, <3>1 DEF Told
  <2>6. QED
    BY <2>4, <2>5
<1>7. QED
  BY <1>5, <1>6

LEMMA NextAnnounced ==
  TypeInv /\ ButtonsInv /\ OrderlyInv /\ Announced /\ [ConnNext]_connVars => Announced'
<1> SUFFICES ASSUME TypeInv, ButtonsInv, OrderlyInv, Announced, [ConnNext]_connVars
             PROVE  Announced'
  OBVIOUS
<1>1. CASE \E what \in Modes \cup {"quit"} : ClickAndClose(what)
  BY <1>1, MainAnnounced
<1>2. CASE ClickDisconnect
  BY <1>2, WorkButtons DEF Announced
<1>3. CASE MainStep
  BY <1>3, MainAnnounced, WorkButtons, TakenAnnounced, DetailsAnnounced
    DEF MainStep, Announced
<1>4. CASE \E t \in Threads : ThreadStep(t)
  BY <1>4, WorkButtons, PostedAnnounced DEF ThreadStep, Announced
<1>5. CASE UNCHANGED connVars
  <2>1. EndDue <=> EndDue'
    BY <1>5, SameThreads DEF connVars
  <2>2. Told => Told'
    BY <1>5 DEF connVars, Told, LastEnd
  <2>3. QED
    BY <1>5, <2>1, <2>2 DEF connVars, Announced
<1>6. QED
  BY <1>1, <1>2, <1>3, <1>4, <1>5 DEF ConnNext

LEMMA ButtonsAtRest == TypeInv /\ ButtonsInv /\ Announced => ButtonsSettle
<1> SUFFICES ASSUME TypeInv, ButtonsInv, Announced, Quiet
             PROVE  /\ buttons.connect # buttons.disconnect
                    /\ ~overlapped => (buttons.disconnect <=> conn.connected)
  BY DEF ButtonsSettle
<1>1. Running = {} /\ pc[Main] = "idle" /\ Len(queue) = 0 /\ ~EndDue
  BY DEF Quiet, EndDue
<1>2. ~EndAfter(0)
  BY <1>1 DEF EndAfter
<1>3. buttons.connect \in BOOLEAN /\ buttons.disconnect \in BOOLEAN
  BY DEF TypeInv, SharedOK, Buttons
<1>4. buttons.connect # buttons.disconnect
  BY <1>2, <1>3 DEF ButtonsInv
<1>5. ~overlapped => (buttons.disconnect <=> conn.connected)
  BY <1>1 DEF Announced, Told, Closing
<1>6. QED
  BY <1>4, <1>5

\* Once everything has come to rest exactly one of the two buttons is enabled,
\* however connects and disconnects overlapped; and if none did, it is the
\* right one (_connect, _disconnect).
THEOREM ButtonsAreRight == ConnSpec => []ButtonsSettle
<1> DEFINE Inv == TypeInv /\ ButtonsInv /\ OrderlyInv /\ Announced
<1>1. ConnInit => Inv
  BY InitTypes, InitButtons, InitOrderly, InitAnnounced
<1>2. Inv /\ [ConnNext]_connVars => Inv'
  BY NextTypes, NextButtons, NextOrderly, NextAnnounced
<1>3. Inv => ButtonsSettle
  BY ButtonsAtRest
<1> HIDE DEF Inv
<1>4. QED
  BY <1>1, <1>2, <1>3, PTL DEF ConnSpec
=============================================================================
