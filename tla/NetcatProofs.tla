----------------------------- MODULE NetcatProofs -----------------------------
(***************************************************************************)
(* For any number of sessions, windows and chunks: a window that shows a   *)
(* session hears of its end, the shutdown leaves no connection open,       *)
(* nothing is printed after "[closed]", and OnClose is called at most once.*)
(***************************************************************************)
EXTENDS Netcat, TLAPS

USE NetcatAssumption DEF Ids, Closers

Events == [kind : {"data", "closed"}, id : Ids]

\* The closed events on their way to the GUI thread, under each change of the queue.
LEMMA QueueKept == ASSUME UNCHANGED queue PROVE \A s \in Ids : Queued(s)' <=> Queued(s)
BY DEF Queued

LEMMA QueueGrows ==
  ASSUME queue \in Seq(Events), NEW e \in Events, queue' = Append(queue, e)
  PROVE  /\ queue' \in Seq(Events)
         /\ \A s \in Ids : Queued(s) \/ e = [kind |-> "closed", id |-> s] => Queued(s)'
<1>1. queue' \in Seq(Events) /\ Len(queue') = Len(queue) + 1
  OBVIOUS
<1>2. \A i \in DOMAIN queue : i \in DOMAIN queue' /\ queue'[i] = queue[i]
  OBVIOUS
<1>3. Len(queue') \in DOMAIN queue' /\ queue'[Len(queue')] = e
  OBVIOUS
<1> QED BY <1>1, <1>2, <1>3 DEF Queued

LEMMA QueueShrinks ==
  ASSUME queue \in Seq(Events), queue # <<>>, queue' = Tail(queue)
  PROVE  /\ Head(queue) \in Events /\ queue' \in Seq(Events)
         /\ \A s \in Ids : Queued(s) /\ Head(queue) # [kind |-> "closed", id |-> s] => Queued(s)'
<1>1. Head(queue) \in Events /\ queue' \in Seq(Events) /\ Head(queue) = queue[1]
  OBVIOUS
<1>2. \A i \in DOMAIN queue : i # 1 => i - 1 \in DOMAIN queue' /\ queue'[i - 1] = queue[i]
  OBVIOUS
<1> QED BY <1>1, <1>2 DEF Queued

\* The GUI thread connects a window: netcatWindow.start and Manager.Connect.
LEMMA ConnectKeeps ==
  ASSUME IInv, NEW w \in Windows, Connect(w)
  PROVE  IInv'
<1> USE DEF IInv, Connect, session, reading, window
<1>1. gui' = [at |-> "dialing", win |-> w, todo |-> {}, dispose |-> FALSE]
  BY DEF TypeOK, GuiBusy, Free
<1>2. TypeOK'
  <2>1. gui' \in [at : {"free", "dialing", "handshaking", "dialed", "connected", "writing",
                        "closing", "exited"},
                  win : Windows \cup {NoWindow}, todo : SUBSET Ids, dispose : BOOLEAN]
    <3> HIDE DEF IInv, Connect
    <3> QED BY <1>1
  <2> QED BY <2>1 DEF TypeOK
<1>3. Unopened'
  BY <1>1 DEF TypeOK, Unopened, CloseInOrder, GuiBusy
<1>4. CloseInOrder'
  BY <1>1 DEF TypeOK, CloseInOrder, Unopened
<1>5. GuiBusy'
  BY <1>1 DEF TypeOK, GuiBusy, Unopened, CloseInOrder
<1>6. Registered'
  BY <1>1 DEF TypeOK, Registered, Unopened, GuiBusy
<1>7. EndsQueued'
  BY <1>1, QueueKept DEF TypeOK, EndsQueued, Shown, GuiBusy, CloseInOrder
<1>8. ClosedHasNoWindow'
  BY <1>1 DEF TypeOK, ClosedHasNoWindow, GuiBusy, Unopened
<1> QED BY <1>2, <1>3, <1>4, <1>5, <1>6, <1>7, <1>8

LEMMA DialKeeps ==
  ASSUME IInv, Dial \/ Handshake
  PROVE  IInv'
<1> USE DEF IInv, Dial, Handshake, session, reading, window
<1>1. /\ gui'.at \in {"free", "dialed", "handshaking"} /\ gui'.win \in Windows \cup {NoWindow}
      /\ gui' \in [at : {"free", "dialed", "handshaking"}, win : Windows \cup {NoWindow}, todo : SUBSET Ids, dispose : BOOLEAN]
      /\ gui'.at = "free" => gui' = Free
      /\ gui'.at # "free" => gui'.win = gui.win
  <2>1. gui.at \in {"dialing", "handshaking"} /\ gui.win \in Windows
    BY DEF GuiBusy
  <2>2. gui' = Free \/ gui' = [gui EXCEPT !.at = "dialed"] \/ gui' = [gui EXCEPT !.at = "handshaking"]
    OBVIOUS
  <2>3. CASE gui' = Free
    BY <2>3 DEF Free
  <2>4. ASSUME NEW at \in {"dialed", "handshaking"}, gui' = [gui EXCEPT !.at = at]
        PROVE  /\ gui'.at = at /\ gui'.win = gui.win
               /\ gui' \in [at : {"free", "dialed", "handshaking"},
                          win : Windows \cup {NoWindow}, todo : SUBSET Ids, dispose : BOOLEAN]
    <3>1. gui.todo \in SUBSET Ids /\ gui.dispose \in BOOLEAN
      BY DEF TypeOK
    <3>2. gui' = [at |-> at, win |-> gui.win, todo |-> gui.todo, dispose |-> gui.dispose]
      BY <2>4 DEF TypeOK
    <3> QED BY <2>1, <3>1, <3>2
  <2> QED BY <2>1, <2>2, <2>3, <2>4
<1>2. TypeOK'
  BY <1>1 DEF TypeOK
<1>3. Unopened'
  BY <1>1 DEF TypeOK, Unopened, CloseInOrder, GuiBusy
<1>4. CloseInOrder'
  BY <1>1 DEF TypeOK, CloseInOrder, Unopened
<1>5. GuiBusy'
  BY <1>1 DEF TypeOK, GuiBusy, Unopened, CloseInOrder
<1>6. Registered'
  BY <1>1 DEF TypeOK, Registered, Unopened, GuiBusy
<1>7. EndsQueued'
  BY <1>1, QueueKept DEF TypeOK, EndsQueued, Shown, GuiBusy, CloseInOrder
<1>8. ClosedHasNoWindow'
  BY <1>1 DEF TypeOK, ClosedHasNoWindow, GuiBusy, Unopened
<1> QED BY <1>2, <1>3, <1>4, <1>5, <1>6, <1>7, <1>8

\* Manager.Send: the GUI thread is in the write, or back from it.
LEMMA SendKeeps ==
  ASSUME IInv, NEW w \in Windows, Send(w)
  PROVE  IInv'
<1> USE DEF IInv, session, reading, window
<1>1. gui' = [at |-> "writing", win |-> w, todo |-> {}, dispose |-> FALSE]
  BY DEF Send, Free
<1>2. UNCHANGED <<session, reading, queue, window, announced>> /\ winId[w] # 0
  BY DEF Send, TypeOK
<1>3. TypeOK'
  <2>1. gui' \in [at : {"writing"}, win : Windows, todo : SUBSET Ids, dispose : BOOLEAN]
    <3> HIDE DEF IInv
    <3> QED BY <1>1
  <2> QED BY <1>2, <2>1 DEF TypeOK
<1>4. Unopened' /\ CloseInOrder' /\ Registered' /\ ClosedHasNoWindow'
  BY <1>2 DEF Unopened, CloseInOrder, Registered, ClosedHasNoWindow
<1>5. GuiBusy'
  BY <1>1, <1>2 DEF GuiBusy
<1>6. EndsQueued'
  BY <1>1, <1>2, QueueKept DEF EndsQueued, Shown
<1> QED BY <1>3, <1>4, <1>5, <1>6

LEMMA WriteKeeps ==
  ASSUME IInv, Written \/ \E s \in Ids : WriteFails(s)
  PROVE  IInv'
<1> USE DEF IInv, session, reading, window
<1>1. gui.at = "writing" /\ gui' = Free /\ UNCHANGED <<session, reading, queue, window, announced>>
  BY DEF Written, WriteFails, Writing
<1>2. TypeOK'
  BY <1>1 DEF TypeOK, Free
<1>3. Unopened' /\ CloseInOrder' /\ Registered' /\ ClosedHasNoWindow'
  BY <1>1 DEF Unopened, CloseInOrder, Registered, ClosedHasNoWindow
<1>4. GuiBusy'
  BY <1>1 DEF GuiBusy, Free
<1>5. EndsQueued'
  BY <1>1, QueueKept DEF EndsQueued, Shown, Free
<1> QED BY <1>2, <1>3, <1>4, <1>5

LEMMA RegisterKeeps ==
  ASSUME IInv, Register
  PROVE  IInv'
<1> USE DEF IInv, Register, window
<1>1. gui.at = "dialed" /\ gui' = [gui EXCEPT !.at = "connected"] /\ seq + 1 \in Ids
  BY DEF TypeOK, GuiBusy, Free
<1>2. TypeOK'
  <2>1. seq' \in 0..MaxSeq /\ sessions' \subseteq 1..seq'
    BY <1>1 DEF TypeOK
  <2> QED BY <1>1, <2>1 DEF TypeOK
<1>3. Unopened'
  BY <1>1 DEF TypeOK, Unopened, CloseInOrder, GuiBusy
<1>4. CloseInOrder'
  BY <1>1 DEF TypeOK, CloseInOrder, Unopened
<1>5. GuiBusy'
  BY <1>1 DEF TypeOK, GuiBusy, Unopened, CloseInOrder
<1>6. Registered'
  BY <1>1 DEF TypeOK, Registered, Unopened, GuiBusy
<1>7. EndsQueued'
  <2> SUFFICES ASSUME NEW s \in Ids, once[s] = "done", Shown(s)' PROVE Queued(s)'
    BY DEF EndsQueued
  <2>1. s <= seq
    <3>1. seq \in Int /\ s \in Int /\ ~(s > seq)
      BY DEF TypeOK, Unopened
    <3> QED BY <3>1
  <2>2. Shown(s)
    BY <1>1, <2>1 DEF TypeOK, Shown
  <2> QED BY <2>2, QueueKept DEF EndsQueued
<1>8. ClosedHasNoWindow'
  BY <1>1 DEF TypeOK, ClosedHasNoWindow, GuiBusy, Unopened
<1> QED BY <1>2, <1>3, <1>4, <1>5, <1>6, <1>7, <1>8

LEMMA ConnectedKeeps ==
  ASSUME IInv, Connected
  PROVE  IInv'
<1> USE DEF IInv, Connected, session, reading
<1>1. gui' = Free /\ gui.at = "connected" /\ gui.win \in Windows /\ seq \in Ids
  BY DEF TypeOK, GuiBusy, Free
<1>2. TypeOK'
  BY <1>1 DEF TypeOK, Free
<1>3. Unopened'
  BY <1>1 DEF TypeOK, Unopened, CloseInOrder, GuiBusy
<1>4. CloseInOrder'
  BY <1>1 DEF TypeOK, CloseInOrder, Unopened
<1>5. GuiBusy'
  BY <1>1 DEF Free, TypeOK, GuiBusy, Unopened, CloseInOrder
<1>6. Registered'
  BY <1>1 DEF TypeOK, Registered, Unopened, GuiBusy
<1>7. EndsQueued'
  BY <1>1, QueueKept DEF TypeOK, EndsQueued, Shown, GuiBusy, CloseInOrder
<1>8. ClosedHasNoWindow'
  BY <1>1 DEF TypeOK, ClosedHasNoWindow, GuiBusy, Unopened
<1> QED BY <1>2, <1>3, <1>4, <1>5, <1>6, <1>7, <1>8

\* Manager.close, by the reader or the GUI thread: inside once.Do the connection,
\* the registry and the announcement follow each other.
LEMMA EnterOnceKeeps ==
  ASSUME IInv, NEW c \in Closers, NEW s \in Ids, EnterOnce(c, s)
  PROVE  IInv'
<1> USE DEF IInv, EnterOnce, Wants, reading, window
<1>1. s <= seq
  <2>1. CASE c = "gui"
    BY <2>1 DEF TypeOK, GuiBusy
  <2>2. CASE c = "reader"
    BY <2>2 DEF TypeOK, Unopened
  <2> QED BY <2>1, <2>2
<1>2. TypeOK'
  BY <1>1 DEF TypeOK
<1>3. Unopened'
  BY <1>1 DEF TypeOK, Unopened, CloseInOrder, GuiBusy
<1>4. CloseInOrder'
  BY <1>1 DEF TypeOK, CloseInOrder, Unopened
<1>5. GuiBusy'
  BY <1>1 DEF TypeOK, GuiBusy, Unopened, CloseInOrder
<1>6. Registered'
  BY <1>1 DEF TypeOK, Registered, Unopened, GuiBusy
<1>7. EndsQueued'
  BY SMTT(30), <1>1, QueueKept DEF TypeOK, EndsQueued, Shown, GuiBusy, CloseInOrder
<1>8. ClosedHasNoWindow'
  BY <1>1 DEF TypeOK, ClosedHasNoWindow, GuiBusy, Unopened
<1> QED BY <1>2, <1>3, <1>4, <1>5, <1>6, <1>7, <1>8

LEMMA UnregisterKeeps ==
  ASSUME IInv, NEW s \in Ids, Unregister(s)
  PROVE  IInv'
<1> USE DEF IInv, Unregister, reading, window
<1>2. TypeOK'
  BY DEF TypeOK
<1>3. Unopened'
  BY DEF TypeOK, Unopened, CloseInOrder, GuiBusy
<1>4. CloseInOrder'
  BY DEF TypeOK, CloseInOrder, Unopened
<1>5. GuiBusy'
  BY DEF TypeOK, GuiBusy, Unopened, CloseInOrder
<1>6. Registered'
  BY DEF TypeOK, Registered, Unopened, GuiBusy
<1>7. EndsQueued'
  BY QueueKept DEF TypeOK, EndsQueued, Shown, GuiBusy, CloseInOrder
<1>8. ClosedHasNoWindow'
  BY DEF TypeOK, ClosedHasNoWindow, GuiBusy, Unopened
<1> QED BY <1>2, <1>3, <1>4, <1>5, <1>6, <1>7, <1>8

LEMMA NotifyKeeps ==
  ASSUME IInv, NEW s \in Ids, NotifyClosed(s)
  PROVE  IInv'
<1> USE DEF IInv, NotifyClosed, reading, window
<1>1. /\ queue' \in Seq(Events)
      /\ \A r \in Ids : Queued(r) => Queued(r)'
      /\ Queued(s)'
  <2>1. [kind |-> "closed", id |-> s] \in Events /\ queue \in Seq(Events)
    BY DEF TypeOK, Events
  <2> QED BY <2>1, QueueGrows
<1>0. /\ stage[s] = "removed"
      /\ once' = [once EXCEPT ![s] = "done"] /\ stage' = [stage EXCEPT ![s] = "none"]
      /\ UNCHANGED <<gui, seq, sessions, conn, reader, received, winId, netcats, printed>>
  OBVIOUS
<1>2. TypeOK'
  <2>1. announced' \in [Ids -> Nat]
    BY DEF TypeOK
  <2> QED BY <1>1, <2>1 DEF TypeOK, Events
<1>3. Unopened'
  <2>1. ~(s > seq)
    BY <1>0 DEF TypeOK, Unopened, CloseInOrder
  <2>2. \A r \in Ids : r # s => once'[r] = once[r]
    BY <1>0 DEF TypeOK
  <2> HIDE DEF NotifyClosed
  <2> QED BY <1>0, <2>1, <2>2 DEF Unopened
<1>4. CloseInOrder'
  <2>1. once[s] \in Closers /\ announced[s] = 0 /\ s \notin sessions /\ conn[s] # "open"
    BY DEF TypeOK, CloseInOrder
  <2>2. /\ once' = [once EXCEPT ![s] = "done"] /\ stage' = [stage EXCEPT ![s] = "none"]
        /\ announced' = [announced EXCEPT ![s] = 1]
    BY <2>1
  <2> SUFFICES ASSUME NEW r \in Ids
               PROVE  /\ once'[r] \in Closers <=> stage'[r] # "none"
                      /\ r \in sessions <=> r <= seq /\ (once'[r] = "free" \/ stage'[r] = "closed")
                      /\ conn[r] = "open" => once'[r] = "free"
                      /\ announced'[r] = IF once'[r] = "done" THEN 1 ELSE 0
    BY DEF CloseInOrder
  <2>3. CASE r = s
    BY <2>1, <2>2, <2>3 DEF TypeOK
  <2>4. CASE r # s
    BY <2>2, <2>4 DEF TypeOK, CloseInOrder
  <2> QED BY <2>3, <2>4
<1> HIDE DEF NotifyClosed
<1>5. GuiBusy'
  BY <1>0 DEF GuiBusy
<1>6. Registered'
  BY <1>0 DEF Registered
<1>7. EndsQueued'
  <2> SUFFICES ASSUME NEW r \in Ids, once'[r] = "done", Shown(r)' PROVE Queued(r)'
    BY DEF EndsQueued
  <2>1. r # s => once[r] = "done"
    BY <1>0 DEF TypeOK
  <2>2. Shown(r)
    BY <1>0 DEF Shown
  <2> QED BY <1>1, <2>1, <2>2 DEF EndsQueued
<1>8. ClosedHasNoWindow'
  BY <1>0 DEF ClosedHasNoWindow
<1> QED BY <1>2, <1>3, <1>4, <1>5, <1>6, <1>7, <1>8

\* readLoop: reading, and ending, change nothing that the windows see.
LEMMA ReaderKeeps ==
  ASSUME IInv, NEW s \in Ids,
         Read(s) \/ ReadFails(s) \/ ReadClosed(s) \/ ReaderEnds(s)
  PROVE  IInv'
<1> USE DEF IInv, Read, ReadFails, ReadClosed, ReaderEnds, session, window
<1>1. UNCHANGED <<gui, session, queue, window, announced>>
  OBVIOUS
<1>2. PICK k \in {"reading", "data", "ending", "gone"} :
        reader[s] # "none" /\ reader' = [reader EXCEPT ![s] = k]
  OBVIOUS
<1>3. reader \in [Ids -> {"none", "reading", "data", "ending", "gone"}]
  BY DEF TypeOK
<1>4. TypeOK'
  <2>1. reader' \in [Ids -> {"none", "reading", "data", "ending", "gone"}]
    <3> HIDE DEF IInv, Read, ReadFails, ReadClosed, ReaderEnds
    <3> QED BY <1>2, <1>3
  <2>2. received' \in [Ids -> 0..MaxData]
    <3>1. CASE UNCHANGED received
      BY <3>1 DEF TypeOK
    <3>2. CASE Read(s)
      BY <3>2 DEF TypeOK
    <3> QED BY <3>1, <3>2
  <2> QED BY <1>1, <2>1, <2>2 DEF TypeOK
<1>5. Unopened'
  <2> HIDE DEF Read, ReadFails, ReadClosed, ReaderEnds
  <2>1. \A r \in Ids : reader[r] = "none" => reader'[r] = "none"
    BY <1>2, <1>3
  <2> QED BY <1>1, <2>1 DEF Unopened
<1>6. CloseInOrder'
  BY <1>1 DEF CloseInOrder
<1> HIDE DEF Read, ReadFails, ReadClosed, ReaderEnds
<1>7. GuiBusy'
  BY <1>1 DEF GuiBusy
<1>8. Registered'
  BY <1>1 DEF Registered
<1>9. EndsQueued'
  BY <1>1, QueueKept DEF TypeOK, EndsQueued, Shown, GuiBusy, CloseInOrder
<1>10. ClosedHasNoWindow'
  BY <1>1 DEF ClosedHasNoWindow
<1> QED BY <1>4, <1>5, <1>6, <1>7, <1>8, <1>9, <1>10

LEMMA DeliverKeeps ==
  ASSUME IInv, NEW s \in Ids, DeliverData(s)
  PROVE  IInv'
<1> USE DEF IInv, DeliverData, session, window
<1>1. /\ queue' \in Seq(Events)
      /\ \A r \in Ids : Queued(r) => Queued(r)'
  BY QueueGrows DEF TypeOK, Events
<1>2. TypeOK'
  BY <1>1 DEF TypeOK, Events
<1>3. Unopened'
  BY DEF TypeOK, Unopened, CloseInOrder, GuiBusy
<1>4. CloseInOrder'
  BY DEF TypeOK, CloseInOrder, Unopened
<1>5. GuiBusy'
  BY DEF TypeOK, GuiBusy, Unopened, CloseInOrder
<1>6. Registered'
  BY DEF TypeOK, Registered, Unopened, GuiBusy
<1>7. EndsQueued'
  BY <1>1 DEF TypeOK, EndsQueued, Shown, GuiBusy, CloseInOrder
<1>8. ClosedHasNoWindow'
  BY DEF TypeOK, ClosedHasNoWindow, GuiBusy, Unopened
<1> QED BY <1>2, <1>3, <1>4, <1>5, <1>6, <1>7, <1>8

\* The GUI thread closes sessions: Disconnect, the window's close, CloseAll.
LEMMA DisconnectKeeps ==
  ASSUME IInv, NEW w \in Windows, NEW dispose \in BOOLEAN, Disconnect(w, dispose)
  PROVE  IInv'
<1> USE DEF IInv, Disconnect, session, reading, window
<1>1. gui' = [at |-> "closing", win |-> w, todo |-> {winId[w]} \cap sessions, dispose |-> dispose]
  BY DEF TypeOK, GuiBusy, Free
<1>2. TypeOK'
  BY SMTT(30), <1>1 DEF TypeOK
<1>3. Unopened'
  BY <1>1 DEF TypeOK, Unopened, CloseInOrder, GuiBusy
<1>4. CloseInOrder'
  BY <1>1 DEF TypeOK, CloseInOrder, Unopened
<1>5. GuiBusy'
  BY <1>1 DEF TypeOK, GuiBusy, Unopened, CloseInOrder
<1>6. Registered'
  BY <1>1 DEF TypeOK, Registered, Unopened, GuiBusy
<1>7. EndsQueued'
  BY <1>1, QueueKept DEF TypeOK, EndsQueued, Shown, GuiBusy, CloseInOrder
<1>8. ClosedHasNoWindow'
  BY <1>1 DEF TypeOK, ClosedHasNoWindow, GuiBusy, Unopened
<1> QED BY <1>2, <1>3, <1>4, <1>5, <1>6, <1>7, <1>8

LEMMA QuitKeeps ==
  ASSUME IInv, Quit
  PROVE  IInv'
<1> USE DEF IInv, Quit, session, reading, window
<1>1. gui' = [at |-> "closing", win |-> NoWindow, todo |-> sessions, dispose |-> FALSE]
  BY DEF TypeOK, GuiBusy, Free
<1>2. TypeOK'
  <2>1. sessions \in SUBSET Ids
    BY DEF TypeOK
  <2> QED BY <1>1, <2>1 DEF TypeOK
<1>3. Unopened'
  BY <1>1 DEF TypeOK, Unopened, CloseInOrder, GuiBusy
<1>4. CloseInOrder'
  BY <1>1 DEF TypeOK, CloseInOrder, Unopened
<1>5. GuiBusy'
  <2>1. sessions \subseteq 1..seq
    BY DEF TypeOK
  <2>2. UNCHANGED <<seq, sessions, winId, netcats, printed>>
    OBVIOUS
  <2> HIDE DEF IInv, Quit
  <2>3. gui'.at = "closing" /\ gui'.win = NoWindow /\ gui'.todo = sessions
    BY <1>1
  <2> QED BY <2>1, <2>2, <2>3 DEF GuiBusy
<1>6. Registered'
  BY <1>1 DEF TypeOK, Registered, Unopened, GuiBusy
<1>7. EndsQueued'
  BY <1>1, QueueKept DEF TypeOK, EndsQueued, Shown, GuiBusy, CloseInOrder
<1>8. ClosedHasNoWindow'
  BY <1>1 DEF TypeOK, ClosedHasNoWindow, GuiBusy, Unopened
<1> QED BY <1>2, <1>3, <1>4, <1>5, <1>6, <1>7, <1>8

LEMMA CloseReturnsKeeps ==
  ASSUME IInv, NEW s \in Ids, CloseReturns(s)
  PROVE  IInv'
<1> USE DEF IInv, CloseReturns, session, reading, window
<1>1. gui.at = "closing" /\ gui' = [gui EXCEPT !.todo = gui.todo \ {s}] /\ s \notin sessions
  BY DEF TypeOK, CloseInOrder
<1>2. TypeOK'
  BY <1>1 DEF TypeOK
<1>3. Unopened'
  BY <1>1 DEF TypeOK, Unopened, CloseInOrder, GuiBusy
<1>4. CloseInOrder'
  BY <1>1 DEF TypeOK, CloseInOrder, Unopened
<1>5. GuiBusy'
  BY <1>1 DEF TypeOK, GuiBusy, Unopened, CloseInOrder
<1>6. Registered'
  BY <1>1 DEF TypeOK, Registered, Unopened, GuiBusy
<1>7. EndsQueued'
  BY <1>1, QueueKept DEF TypeOK, EndsQueued, Shown, GuiBusy, CloseInOrder
<1>8. ClosedHasNoWindow'
  BY <1>1 DEF TypeOK, ClosedHasNoWindow, GuiBusy, Unopened
<1> QED BY <1>2, <1>3, <1>4, <1>5, <1>6, <1>7, <1>8

LEMMA ClosingEndsKeeps ==
  ASSUME IInv, ClosingEnds
  PROVE  IInv'
<1> USE DEF IInv, ClosingEnds, session, reading
<1>1. CASE gui.win = NoWindow
  <2>1. /\ gui' = [at |-> "exited", win |-> NoWindow, todo |-> {}, dispose |-> FALSE]
        /\ sessions = {}
        /\ UNCHANGED <<session, reading, queue, window, announced>>
    BY <1>1 DEF Free, GuiBusy
  <2>2. TypeOK'
    BY <2>1 DEF TypeOK, window
  <2>3. GuiBusy'
    BY <2>1 DEF GuiBusy
  <2>4. Unopened' /\ CloseInOrder' /\ Registered' /\ ClosedHasNoWindow'
    BY <2>1 DEF Unopened, CloseInOrder, Registered, ClosedHasNoWindow, window
  <2>5. EndsQueued'
    BY <2>1, QueueKept DEF EndsQueued, Shown, window
  <2> QED BY <2>2, <2>3, <2>4, <2>5
<1>2. CASE gui.win # NoWindow
  <2> DEFINE w == gui.win
  <2>1. w \in Windows /\ winId[w] \in Ids /\ winId[w] <= seq /\ netcats[winId[w]] = w
    BY <1>2 DEF TypeOK, GuiBusy, Registered
  <2>2. /\ gui' = Free
        /\ UNCHANGED <<session, reading, queue, printed, announced>>
        /\ \/ UNCHANGED <<winId, netcats>>
           \/ /\ netcats' = [netcats EXCEPT ![winId[w]] = NoWindow]
              /\ winId' = [winId EXCEPT ![w] = 0]
    BY <1>2 DEF window
  <2> HIDE DEF w
  <2>3. TypeOK'
    <3>1. winId' \in [Windows -> 0..MaxSeq] /\ netcats' \in [Ids -> Windows \cup {NoWindow}]
      <4>1. CASE UNCHANGED <<winId, netcats>>
        BY <4>1 DEF TypeOK
      <4>2. CASE /\ netcats' = [netcats EXCEPT ![winId[w]] = NoWindow]
                 /\ winId' = [winId EXCEPT ![w] = 0]
        BY <2>1, <4>2 DEF TypeOK
      <4> QED BY <2>2, <4>1, <4>2
    <3> QED BY <2>2, <3>1 DEF TypeOK, Free
  <2>4. Unopened' /\ CloseInOrder'
    BY <2>1, <2>2 DEF TypeOK, Unopened, CloseInOrder
  <2>5. GuiBusy'
    BY <2>2 DEF GuiBusy, Free
  <2>6. Registered'
    BY <2>1, <2>2 DEF TypeOK, Registered
  <2>7. EndsQueued'
    BY <2>1, <2>2, QueueKept DEF TypeOK, EndsQueued, Shown, Free
  <2>8. ClosedHasNoWindow'
    BY <2>1, <2>2 DEF TypeOK, ClosedHasNoWindow
  <2> QED BY <2>3, <2>4, <2>5, <2>6, <2>7, <2>8
<1> QED BY <1>1, <1>2

\* onNetData and onNetClosed: the window of a closed session leaves both
\* registries together.
LEMMA HandleKeeps ==
  ASSUME IInv, Handle
  PROVE  IInv'
<1> DEFINE e == Head(queue)
           w == netcats[e.id]
<1>1. /\ e \in Events /\ queue' \in Seq(Events)
      /\ \A s \in Ids : Queued(s) /\ e # [kind |-> "closed", id |-> s] => Queued(s)'
  BY QueueShrinks DEF IInv, TypeOK, Handle, Events
<1>2. /\ e.id \in Ids /\ e.kind \in {"data", "closed"}
      /\ e.kind = "closed" => e = [kind |-> "closed", id |-> e.id]
      /\ w \in Windows \cup {NoWindow}
  BY <1>1 DEF Events, IInv, TypeOK
<1>3. /\ gui = Free /\ UNCHANGED <<gui, session, reading, announced>>
      /\ printed' = IF w = NoWindow THEN printed ELSE [printed EXCEPT ![e.id] = e.kind]
      /\ IF e.kind = "closed" /\ w # NoWindow
         THEN /\ winId' = [winId EXCEPT ![w] = 0]
              /\ netcats' = [netcats EXCEPT ![e.id] = NoWindow]
         ELSE UNCHANGED <<winId, netcats>>
  BY DEF Handle, Show
<1> HIDE DEF e, w
<1> USE DEF IInv, session, reading
<1>4. TypeOK'
  <2>1. printed' \in [Ids -> {"nothing", "data", "closed"}]
    BY <1>2, <1>3 DEF TypeOK
  <2>2. winId' \in [Windows -> 0..MaxSeq] /\ netcats' \in [Ids -> Windows \cup {NoWindow}]
    <3>1. CASE UNCHANGED <<winId, netcats>>
      BY <3>1 DEF TypeOK
    <3>2. CASE /\ w \in Windows /\ winId' = [winId EXCEPT ![w] = 0]
               /\ netcats' = [netcats EXCEPT ![e.id] = NoWindow]
      BY <1>2, <3>2 DEF TypeOK
    <3> QED BY <1>2, <1>3, <3>1, <3>2
  <2> QED BY <1>1, <1>3, <2>1, <2>2 DEF TypeOK, Events
<1>5. Unopened'
  BY <1>2, <1>3 DEF TypeOK, Unopened, w
<1>6. CloseInOrder'
  BY <1>3 DEF CloseInOrder
<1>7. GuiBusy'
  BY <1>3 DEF GuiBusy, Free
<1>8. Registered'
  BY <1>2, <1>3 DEF TypeOK, Registered, w
<1>9. EndsQueued'
  <2> SUFFICES ASSUME NEW s \in Ids, once[s] = "done", Shown(s)' PROVE Queued(s)'
    BY <1>3 DEF EndsQueued
  <2>1. PICK v \in Windows : winId'[v] = s
    BY <1>3 DEF Shown, Free
  <2>2. winId[v] = s /\ netcats[s] = v
    <3>1. s # 0 /\ winId \in [Windows -> 0..MaxSeq]
      BY DEF TypeOK
    <3>2. winId[v] = s
      <4> HIDE DEF IInv
      <4> QED BY <1>3, <2>1, <3>1
    <3> QED BY <3>1, <3>2 DEF Registered
  <2>3. Queued(s)
    BY <2>2 DEF EndsQueued, Shown
  <2>4. e # [kind |-> "closed", id |-> s]
    BY <1>2, <1>3, <2>1, <2>2 DEF TypeOK, w
  <2> QED BY <1>1, <2>3, <2>4
<1>10. ClosedHasNoWindow'
  BY <1>2, <1>3 DEF TypeOK, ClosedHasNoWindow, w
<1> QED BY <1>4, <1>5, <1>6, <1>7, <1>8, <1>9, <1>10

\* Every step keeps the invariant.
LEMMA StutterKeeps ==
  ASSUME IInv, UNCHANGED vars
  PROVE  IInv'
<1> USE DEF IInv, vars, session, reading, window
<1>1. TypeOK'
  BY DEF TypeOK
<1>2. Unopened'
  BY DEF Unopened
<1>3. CloseInOrder'
  BY DEF CloseInOrder
<1>4. GuiBusy'
  BY DEF GuiBusy
<1>5. Registered'
  BY DEF Registered
<1>6. ClosedHasNoWindow'
  BY DEF ClosedHasNoWindow
<1>7. EndsQueued'
  BY QueueKept DEF EndsQueued, Shown
<1> QED BY <1>1, <1>2, <1>3, <1>4, <1>5, <1>6, <1>7

LEMMA StepKeeps ==
  ASSUME IInv, [Next]_vars
  PROVE  IInv'
<1>1. CASE GuiStep
  BY <1>1, DialKeeps, RegisterKeeps, ConnectedKeeps, ClosingEndsKeeps, HandleKeeps,
     CloseReturnsKeeps, WriteKeeps DEF GuiStep
<1>2. CASE Handshake \/ Written \/ Quit
  BY <1>2, DialKeeps, WriteKeeps, QuitKeeps
<1>3. CASE \E w \in Windows :
             Connect(w) \/ Send(w) \/ \E dispose \in BOOLEAN : Disconnect(w, dispose)
  BY <1>3, ConnectKeeps, SendKeeps, DisconnectKeeps
<1>4. CASE \E s \in Ids : CloseStep(s)
  BY <1>4, EnterOnceKeeps, UnregisterKeeps, NotifyKeeps DEF CloseStep
<1>5. CASE \E s \in Ids : ReaderStep(s) \/ Read(s) \/ ReadFails(s)
  BY <1>5, ReaderKeeps, DeliverKeeps DEF ReaderStep
<1>6. CASE UNCHANGED vars
  BY <1>6, StutterKeeps
<1> QED BY <1>1, <1>2, <1>3, <1>4, <1>5, <1>6 DEF Next

LEMMA InitKeeps == Init => IInv
<1> SUFFICES ASSUME Init PROVE IInv
  OBVIOUS
<1> USE DEF Init
<1>1. TypeOK
  <2>1. queue \in Seq([kind : {"data", "closed"}, id : Ids])
    OBVIOUS
  <2>2. gui \in [at : {"free"}, win : {NoWindow}, todo : SUBSET Ids, dispose : BOOLEAN]
    BY DEF Free
  <2> QED BY <2>1, <2>2 DEF TypeOK
<1>2. Unopened /\ CloseInOrder /\ Registered /\ EndsQueued /\ ClosedHasNoWindow
  BY DEF Unopened, CloseInOrder, Registered, EndsQueued, ClosedHasNoWindow
<1>3. GuiBusy
  BY DEF GuiBusy, Free
<1> QED BY <1>1, <1>2, <1>3 DEF IInv

\* IInv holds in every reachable state: in particular the registry of sessions is
\* exactly those that no close has got to yet, and a window is registered as long
\* as it shows a session.
THEOREM Invariance == Spec => []IInv
<1>1. Init => IInv
  BY InitKeeps
<1>2. IInv /\ [Next]_vars => IInv'
  BY StepKeeps
<1> QED BY <1>1, <1>2, PTL DEF Spec

\* What the reader of ui_netcat.go relies on, from the invariant.
LEMMA HearOfEnds == IInv => WindowsHearOfEnds
<1> SUFFICES ASSUME IInv PROVE WindowsHearOfEnds
  OBVIOUS
<1>1. NoZombieWindow
  <2> SUFFICES ASSUME NEW w \in Windows, winId[w] # 0
               PROVE  /\ netcats[winId[w]] = w
                      /\ winId[w] \in sessions \/ stage[winId[w]] # "none" \/ Queued(winId[w])
    BY DEF NoZombieWindow
  <2> DEFINE s == winId[w]
  <2>1. s \in Ids /\ s <= seq /\ netcats[s] = w
    BY DEF IInv, TypeOK, Registered
  <2>2. CASE once[s] = "free"
    BY <2>1, <2>2 DEF IInv, CloseInOrder
  <2>3. CASE once[s] \in Closers
    BY <2>1, <2>3 DEF IInv, CloseInOrder
  <2>4. CASE once[s] = "done"
    BY <2>1, <2>4 DEF IInv, EndsQueued, Shown
  <2> QED BY <2>1, <2>2, <2>3, <2>4 DEF IInv, TypeOK
<1>2. ShutdownLeavesNothing
  <2> SUFFICES ASSUME gui.at = "exited", NEW s \in Ids, conn[s] = "open" PROVE FALSE
    BY DEF IInv, GuiBusy, ShutdownLeavesNothing
  <2>1. once[s] = "free" /\ s <= seq
    BY DEF IInv, TypeOK, CloseInOrder, Unopened
  <2>2. s \in sessions
    BY <2>1 DEF IInv, CloseInOrder
  <2> QED BY <2>2 DEF IInv, GuiBusy
<1> QED BY <1>1, <1>2 DEF WindowsHearOfEnds, IInv

\* No window is left showing a session that is over, though net:closed may be
\* posted before start has stored the id; CloseAll leaves no connection open.
THEOREM EndsAreHeard == Spec => []WindowsHearOfEnds
BY Invariance, HearOfEnds, PTL

\* Only Handle prints, and it finds no window for a session that printed its end.
LEMMA ClosedStays ==
  ASSUME IInv, Next
  PROVE  \A s \in Ids : printed[s] = "closed" => printed'[s] = "closed"
<1>1. CASE Handle
  BY SMTT(30), <1>1 DEF Handle, Show, IInv, TypeOK, ClosedHasNoWindow
<1>2. CASE UNCHANGED printed
  BY <1>2
<1> QED BY <1>1, <1>2 DEF Next, GuiStep, CloseStep, ReaderStep, Dial, Handshake, Register,
           Connected, ClosingEnds, CloseReturns, Quit, Connect, Send, Written, WriteFails, Disconnect, EnterOnce,
           Unregister, NotifyClosed, DeliverData, ReadClosed, ReaderEnds, Read, ReadFails, window

\* The "[closed]" line stays the last of a session, though its reader may deliver
\* a chunk after OnClose (onNetData finds no window).
THEOREM NothingAfterClosed == Spec => ClosedIsLast
<1>1. IInv /\ [Next]_vars => [\A s \in Ids : printed[s] = "closed" => printed'[s] = "closed"]_vars
  BY ClosedStays
<1> QED BY <1>1, Invariance, PTL DEF Spec, ClosedIsLast

AnnouncedOnce == \A s \in Ids : announced[s] <= 1

\* The comment on OnClose: "invoked exactly once when the session ends".  Never
\* twice, though the reader and the GUI thread may both close it (sync.Once).
THEOREM OneAnnouncement == Spec => []AnnouncedOnce
<1>1. IInv => AnnouncedOnce
  BY DEF IInv, CloseInOrder, AnnouncedOnce
<1> QED BY <1>1, Invariance, PTL

================================================================================
